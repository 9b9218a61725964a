--------------------------- MODULE SingleInstance ---------------------------
(***************************************************************************)
(* The PID file by which the listeners of an endpoint exclude each other   *)
(* (ensure_single_instance in nostr_listener.py): the workers of the       *)
(* broker, and listeners of an earlier version that run on their own.      *)
(* Every call on the file is a step. Processes end with or without their   *)
(* exit handlers, and the system gives their PIDs to others.               *)
(***************************************************************************)
EXTENDS Naturals

CONSTANTS
    Pids, NoPid,
    Attempts        \* of the loop (2)

VARIABLES
    step,     \* of the process with a PID: none, another program, or its position
    worker,   \* PIDs of broker workers; the other listeners are of the earlier version
    tries,    \* attempts left
    read,     \* what was read from the file
    file,     \* "none", or the process that created it
    written   \* its PID is in the file

vars == <<step, worker, tries, read, file, written>>

Starting == {"create", "write", "inspect", "check", "unlink"}
NoFile == NoPid

TypeOK ==
    /\ step \in [Pids -> {"none", "foreign", "owner", "closing", "removing"} \cup Starting]
    /\ worker \subseteq Pids /\ tries \in [Pids -> 0 .. Attempts]
    /\ read \in [Pids -> Pids \cup {NoPid}] /\ file \in Pids \cup {NoFile} /\ written \in BOOLEAN
    /\ \A p \in Pids : step[p] \in Starting => tries[p] > 0

Init ==
    /\ step = [p \in Pids |-> "none"] /\ worker = {}
    /\ tries = [p \in Pids |-> 0] /\ read = [p \in Pids |-> NoPid]
    /\ file = NoFile /\ written = FALSE

Go(p, s) == step' = [step EXCEPT ![p] = s]
Alive(p) == step[p] # "none"
Content == IF written THEN file ELSE NoPid

\* The process ends, and forgets.
Gone(p) ==
    /\ Go(p, "none")
    /\ tries' = [tries EXCEPT ![p] = 0] /\ read' = [read EXCEPT ![p] = NoPid] /\ worker' = worker \ {p}

-----------------------------------------------------------------------------

Start(p, asWorker) ==
    /\ step[p] = "none"
    /\ Go(p, "create") /\ tries' = [tries EXCEPT ![p] = Attempts]
    /\ worker' = IF asWorker THEN worker \cup {p} ELSE worker
    /\ UNCHANGED <<read, file, written>>

\* Another program has this PID for a while.
Foreign(p) ==
    /\ step[p] \in {"none", "foreign"} /\ Go(p, IF step[p] = "none" THEN "foreign" ELSE "none")
    /\ UNCHANGED <<worker, tries, read, file, written>>

\* open with O_CREAT and O_EXCL.
Create(p) ==
    /\ step[p] = "create"
    /\ IF file = NoFile
       THEN file' = p /\ written' = FALSE /\ Go(p, "write")
       ELSE Go(p, "inspect") /\ UNCHANGED <<file, written>>
    /\ UNCHANGED <<worker, tries, read>>

\* The PID is written, to the file that p created even if it was unlinked since.
Write(p) ==
    /\ step[p] = "write"
    /\ written' = (written \/ file = p)
    /\ Go(p, "owner") /\ UNCHANGED <<worker, tries, read, file>>

\* The file is read. If it is gone, p gives up.
Inspect(p) ==
    /\ step[p] = "inspect"
    /\ IF file = NoFile THEN Gone(p)
       ELSE Go(p, "check") /\ read' = [read EXCEPT ![p] = Content] /\ UNCHANGED <<worker, tries>>
    /\ UNCHANGED <<file, written>>

Taken(p) == read[p] # NoPid /\ Alive(read[p]) /\ read[p] # p

\* The PID that was read is looked up; a file that is empty counts as stale.
Check(p) ==
    /\ step[p] = "check"
    /\ IF Taken(p) THEN Gone(p) ELSE Go(p, "unlink") /\ UNCHANGED <<worker, tries, read>>
    /\ UNCHANGED <<file, written>>

\* The stale file is unlinked, which may fail, and the next attempt begins.
Unlink(p) ==
    /\ step[p] = "unlink"
    /\ \/ file' = NoFile /\ written' = FALSE
       \/ UNCHANGED <<file, written>>
    /\ IF tries[p] = 1 THEN Gone(p)
       ELSE /\ Go(p, "create") /\ tries' = [tries EXCEPT ![p] = @ - 1]
            /\ read' = [read EXCEPT ![p] = NoPid] /\ UNCHANGED worker

\* _cleanup_pid_file() at exit: the file is read, and removed if it is p's.
Close(p) ==
    /\ step[p] = "owner" /\ Go(p, "closing")
    /\ UNCHANGED <<worker, tries, read, file, written>>

ReadOwn(p) ==
    /\ step[p] = "closing"
    /\ IF Content = p THEN Go(p, "removing") /\ UNCHANGED <<worker, tries, read>> ELSE Gone(p)
    /\ UNCHANGED <<file, written>>

Remove(p) ==
    /\ step[p] = "removing" /\ file' = NoFile /\ written' = FALSE /\ Gone(p)

\* A process is killed, or leaves by os._exit(): the file stays.
Crash(p) ==
    /\ step[p] \notin {"none", "foreign"} /\ Gone(p)
    /\ UNCHANGED <<file, written>>

Next ==
    \E p \in Pids :
        \/ Foreign(p) \/ \E b \in BOOLEAN : Start(p, b)
        \/ Create(p) \/ Write(p) \/ Inspect(p) \/ Check(p) \/ Unlink(p)
        \/ Close(p) \/ ReadOwn(p) \/ Remove(p) \/ Crash(p)

Spec == Init /\ [][Next]_vars

-----------------------------------------------------------------------------
(* Properties.                                                              *)

\* "Broker workers refuse an endpoint already owned by a live legacy listener" (SETUP.md):
\* no worker becomes a listener while a process of the earlier version is one.
WorkersRefuseOwned ==
    [][\A w \in worker, l \in Pids \ worker :
          step[l] = "owner" /\ step[w] # "owner" => step'[w] # "owner"]_vars

=============================================================================
