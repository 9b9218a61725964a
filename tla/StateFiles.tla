------------------------------ MODULE StateFiles ------------------------------
(***************************************************************************)
(* Transactions on the files of a state directory: the registry of         *)
(* connections (registry in connections.py) and the inbox, relay health    *)
(* and identity files (registry_lock and atomic_write_json in              *)
(* runtime_adapter.py). One lock file, locked by the operating system,     *)
(* serializes the threads of all processes; it is reentrant in a thread,   *)
(* so that an inbox transaction can run inside one of the registry.        *)
(* Registry transactions first take a lock of their process. Bodies raise, *)
(* processes die. A document is the set of updates it contains.            *)
(***************************************************************************)
EXTENDS Naturals, Sequences, SequencesExt

CONSTANTS
    Processes, Threads,
    Home(_),        \* process of a thread
    Registry, Others,  \* documents
    Free,
    MaxUpdates, MaxDeaths   \* bounds of the model

Documents == {Registry} \cup Others

ASSUME StateFilesAssumption ==
    /\ \A t \in Threads : Home(t) \in Processes
    /\ Registry \notin Others /\ Free \notin Threads
    /\ MaxUpdates \in Nat /\ MaxDeaths \in Nat

VARIABLES
    disk,      \* the documents
    fileLock,  \* holder of the lock file
    pairingsLock, \* PAIRINGS_LOCK of each process
    step,      \* of each thread
    open,      \* its transactions, the nested one last, with what they loaded
    target,    \* the document it waits for
    updates, deaths

locks == <<fileLock, pairingsLock>>
vars == <<disk, locks, step, open, target, updates, deaths>>

Transactions == [document : Documents, loaded : SUBSET (1 .. MaxUpdates)]

TypeOK ==
    /\ disk \in [Documents -> SUBSET (1 .. MaxUpdates)]
    /\ fileLock \in Threads \cup {Free} /\ pairingsLock \in [Processes -> Threads \cup {Free}]
    /\ step \in [Threads -> {"idle", "entering", "locking", "open", "saving", "leaving"}]
    /\ open \in [Threads -> Seq(Transactions)] /\ \A t \in Threads : Len(open[t]) <= 2
    /\ target \in [Threads -> Documents]
    /\ updates \in 0 .. MaxUpdates /\ deaths \in 0 .. MaxDeaths

Init ==
    /\ disk = [d \in Documents |-> {}]
    /\ fileLock = Free /\ pairingsLock = [h \in Processes |-> Free]
    /\ step = [t \in Threads |-> "idle"] /\ open = [t \in Threads |-> <<>>]
    /\ target = [t \in Threads |-> Registry]
    /\ updates = 0 /\ deaths = 0

Go(t, s) == step' = [step EXCEPT ![t] = s]

-----------------------------------------------------------------------------

Begin(t, d) ==
    /\ step[t] = "idle" /\ updates < MaxUpdates
    /\ target' = [target EXCEPT ![t] = d]
    /\ Go(t, IF d = Registry THEN "entering" ELSE "locking")
    /\ UNCHANGED <<disk, locks, open, updates, deaths>>

Enter(t) ==
    /\ step[t] = "entering" /\ pairingsLock[Home(t)] = Free
    /\ pairingsLock' = [pairingsLock EXCEPT ![Home(t)] = t]
    /\ Go(t, "locking")
    /\ UNCHANGED <<disk, fileLock, open, target, updates, deaths>>

Load(t, d) == open' = [open EXCEPT ![t] = Append(@, [document |-> d, loaded |-> disk[d]])]

\* Mutant: the lock excludes the threads of one process only.
LockOwnProcess(t) ==
    /\ step[t] = "locking" /\ (fileLock = Free \/ Home(fileLock) # Home(t))
    /\ fileLock' = t /\ Load(t, target[t]) /\ Go(t, "open")
    /\ UNCHANGED <<disk, pairingsLock, target, updates, deaths>>

\* The lock file is locked, then the document is loaded.
Lock(t) ==
    /\ step[t] = "locking" /\ fileLock = Free
    /\ fileLock' = t /\ Load(t, target[t]) /\ Go(t, "open")
    /\ UNCHANGED <<disk, pairingsLock, target, updates, deaths>>

\* The lock is not obtained in time: msvcrt.LK_LOCK gives up, flock() waits.
LockFails(t) ==
    /\ step[t] = "locking" /\ fileLock # Free /\ Go(t, "leaving")
    /\ UNCHANGED <<disk, locks, open, target, updates, deaths>>

\* The body of a registry transaction opens one of another file: the lock is held.
Nest(t, d) ==
    /\ step[t] = "open" /\ Len(open[t]) = 1 /\ open[t][1].document = Registry
    /\ Load(t, d)
    /\ UNCHANGED <<disk, locks, step, target, updates, deaths>>

\* The new content is written to a temporary file and synced.
WriteTemporary(t) ==
    /\ step[t] = "open" /\ updates < MaxUpdates /\ Go(t, "saving")
    /\ UNCHANGED <<disk, locks, open, target, updates, deaths>>

\* Close the innermost transaction.
Close(t) ==
    /\ open' = [open EXCEPT ![t] = Front(@)]
    /\ Go(t, IF Len(open[t]) = 1 THEN "leaving" ELSE "open")

\* os.replace()
Replace(t) ==
    /\ step[t] = "saving" /\ updates < MaxUpdates
    /\ updates' = updates + 1
    /\ disk' = [disk EXCEPT ![Last(open[t]).document] = Last(open[t]).loaded \cup {updates'}]
    /\ Close(t)
    /\ UNCHANGED <<locks, target, deaths>>

\* A registry transaction saves what it has so far and goes on with it (_notify_locked).
Checkpoint(t) ==
    /\ step[t] = "open" /\ Last(open[t]).document = Registry /\ updates < MaxUpdates
    /\ updates' = updates + 1
    /\ LET saved == Last(open[t]).loaded \cup {updates'} IN
       /\ disk' = [disk EXCEPT ![Registry] = saved]
       /\ open' = [open EXCEPT ![t][Len(open[t])].loaded = saved]
    /\ UNCHANGED <<locks, step, target, deaths>>

\* Nothing was changed.
ReadOnly(t) ==
    /\ step[t] = "open" /\ Close(t)
    /\ UNCHANGED <<disk, locks, target, updates, deaths>>

\* Mutant: no finally, what raises does not release the lock file.
RaiseUnreleased(t) ==
    /\ step[t] \in {"open", "saving"}
    /\ open' = [open EXCEPT ![t] = <<>>] /\ Go(t, "idle")
    /\ UNCHANGED <<disk, locks, target, updates, deaths>>

\* A body or a write raises, through every transaction of the thread.
Raise(t) ==
    /\ step[t] \in {"open", "saving"}
    /\ open' = [open EXCEPT ![t] = <<>>] /\ Go(t, "leaving")
    /\ UNCHANGED <<disk, locks, target, updates, deaths>>

Leave(t) ==
    /\ step[t] = "leaving" /\ Go(t, "idle")
    /\ fileLock' = (IF fileLock = t THEN Free ELSE fileLock)
    /\ pairingsLock' = [h \in Processes |-> IF pairingsLock[h] = t THEN Free ELSE pairingsLock[h]]
    /\ UNCHANGED <<disk, open, target, updates, deaths>>

\* A process ends at any point; the system releases its lock.
Die(h) ==
    LET dead == {t \in Threads : Home(t) = h} IN
    /\ deaths < MaxDeaths /\ deaths' = deaths + 1
    /\ step' = [t \in Threads |-> IF t \in dead THEN "idle" ELSE step[t]]
    /\ open' = [t \in Threads |-> IF t \in dead THEN <<>> ELSE open[t]]
    /\ fileLock' = (IF fileLock \in dead THEN Free ELSE fileLock)
    /\ pairingsLock' = [pairingsLock EXCEPT ![h] = Free]
    /\ UNCHANGED <<disk, target, updates>>

Steps(t) ==
    \/ Enter(t) \/ Lock(t) \/ WriteTemporary(t) \/ Replace(t)
    \/ Checkpoint(t) \/ ReadOnly(t) \/ Raise(t) \/ Leave(t)

Next ==
    \/ \E t \in Threads : Steps(t) \/ LockFails(t)
    \/ \E t \in Threads : (\E d \in Documents : Begin(t, d)) \/ \E d \in Others : Nest(t, d)
    \/ \E h \in Processes : Die(h)

Spec == Init /\ [][Next]_vars

Finish(t) == Len(open[t]) = 1 /\ (ReadOnly(t) \/ WriteTemporary(t))

\* Threads run on and bodies end; a lock that becomes free again and again is granted
\* to a waiting thread at last. Nothing ends a wait for a lock that stays taken: flock()
\* has no timeout, and that LockFails is possible on Windows promises nothing.
FairSpec ==
    /\ Spec
    /\ \A t \in Threads : WF_vars(Steps(t)) /\ SF_vars(Finish(t)) /\ SF_vars(Enter(t)) /\ SF_vars(Lock(t))

-----------------------------------------------------------------------------
(* Properties.                                                              *)

\* What a transaction loaded, also a nested one, is on disk until it ends: no other
\* thread or process writes the file meanwhile, and no writer was cut off in the middle.
LoadedIsCurrent ==
    \A t \in Threads : \A i \in DOMAIN open[t] : disk[open[t][i].document] = open[t][i].loaded

\* Every write takes effect in one step and no update is lost, whoever dies when.
Store == INSTANCE AtomicStore WITH value <- disk, Updates <- 1 .. MaxUpdates
IsAtomicStore == Store!Spec

\* Nobody waits for ever: the locks are always taken in the same order, nested
\* transactions included, and released on every way out.
TransactionsEnd == \A t \in Threads : step[t] # "idle" ~> step[t] = "idle"

=============================================================================
