---------------------------- MODULE BrokerWorkers ----------------------------
(***************************************************************************)
(* The broker of a host and the worker processes of its endpoints          *)
(* (broker.py, broker_worker.py). RPC threads serve tool calls and status  *)
(* requests; the main thread restores and recovers workers and closes      *)
(* them. The broker lock is held while a worker is started, the lock of a  *)
(* worker during one call. A worker that a caller gave up on is stopped,   *)
(* so that its late answer cannot be taken for that of the next call.      *)
(*                                                                         *)
(* What a worker finds in the PID file when it starts is free: the file    *)
(* neither excludes two listeners (SingleInstance) nor always lets a sole  *)
(* one through. A request that is refused for its contents may be refused  *)
(* at any time before the call. The main thread's own status is one of the *)
(* probes.                                                                 *)
(***************************************************************************)
EXTENDS Integers, Sequences, FiniteSets

CONSTANTS
    Endpoints,
    Procs,      \* worker processes; bounds how many are ever started
    Calls,      \* requests that call a tool
    Probes,     \* requests for the status of one endpoint
    EndpointOf, \* EndpointOf[r]: the endpoint of a request
    Nobody, Supervisor, NoProc, Ready, Stopped,
    MaxEndpoints,          \* 32
    MaxCrashes, MaxStarts  \* bounds of the model

Requests == Calls \cup Probes

ASSUME BrokerAssumption ==
    /\ IsFiniteSet(Endpoints) /\ Endpoints # {} /\ Calls \cap Probes = {}
    /\ EndpointOf \in [Requests -> Endpoints]
    /\ NoProc \notin Procs
    /\ Supervisor \notin Requests /\ Nobody \notin Requests \cup {Supervisor}
    /\ Ready \notin Requests /\ Stopped \notin Requests \cup {Ready}
    /\ MaxEndpoints \in Nat /\ MaxCrashes \in Nat /\ MaxStarts \in Nat \ {0}

VARIABLES
    phase,      \* of the broker process
    saved,      \* endpoints.json, and the contexts in memory
    slot,       \* the worker of each endpoint, in memory
    backoff,    \* endpoints whose next_restart is not yet reached
    lock,       \* holder of the broker lock across a worker's start
    making,     \* the process that the holder waits for
    recovering, \* endpoints that the main thread still has to start
    closing,    \* workers that close() still has to stop
    state,      \* of each process
    home,       \* endpoint of each process
    open,       \* processes whose stdin the broker holds open
    input, job, \* the commands in the pipe of a process, and the one it executes; there are
                \* several only if no answer is heard, and their order makes no difference
    replies,    \* the queue that the reader thread of a worker fills
    unheard,     \* processes whose reader thread has ended
    pc, target, \* of each request: its thread's position and worker
    outcome,    \* what the requester was told
    answer,     \* history: the request whose answer it got
    ran,        \* history: how often a worker executed it
    flushed,    \* history: requests whose command left the broker when close() shut the pipe
    crashes, starts

broker == <<phase, saved, slot, backoff, lock, making, recovering, closing>>
procs == <<state, home, open, input, job, replies, unheard>>
threads == <<pc, target, outcome, answer, ran, flushed>>
vars == <<broker, procs, threads, crashes, starts>>

TypeOK ==
    /\ phase \in {"down", "restoring", "running", "stopping", "closed"}
    /\ saved \in SUBSET Endpoints /\ Cardinality(saved) <= MaxEndpoints
    /\ slot \in [Endpoints -> Procs \cup {NoProc}]
    /\ backoff \in SUBSET Endpoints /\ recovering \in SUBSET Endpoints
    /\ lock \in Calls \cup {Supervisor, Nobody} /\ making \in Procs \cup {NoProc}
    /\ closing \in SUBSET Procs /\ open \in SUBSET Procs
    /\ state \in [Procs -> {"unused", "starting", "running", "dead"}]
    /\ home \in [Procs -> Endpoints]
    /\ input \in [Procs -> SUBSET Requests] /\ job \in [Procs -> Requests \cup {Nobody}]
    /\ replies \in [Procs -> Seq(Requests \cup {Ready, Stopped})] /\ unheard \in SUBSET Procs
    /\ pc \in [Requests -> {"new", "starting", "waiting", "writing", "calling", "stopping", "done"}]
    /\ target \in [Requests -> Procs \cup {NoProc}]
    /\ outcome \in [Requests -> {"none", "answered", "unknown", "rejected", "busy"}]
    /\ answer \in [Requests -> Requests \cup {Nobody}]
    /\ ran \in [Requests -> Nat] /\ flushed \in SUBSET Requests
    /\ crashes \in 0 .. MaxCrashes /\ starts \in 0 .. MaxStarts

Init ==
    /\ phase = "down" /\ saved = {}
    /\ slot = [e \in Endpoints |-> NoProc]
    /\ backoff = {} /\ lock = Nobody /\ making = NoProc /\ recovering = {} /\ closing = {}
    /\ state = [p \in Procs |-> "unused"] /\ open = {}
    /\ home = [p \in Procs |-> CHOOSE e \in Endpoints : TRUE]
    /\ input = [p \in Procs |-> {}] /\ job = [p \in Procs |-> Nobody]
    /\ replies = [p \in Procs |-> <<>>] /\ unheard = {}
    /\ pc = [r \in Requests |-> "new"] /\ target = [r \in Requests |-> NoProc]
    /\ outcome = [r \in Requests |-> "none"] /\ answer = [r \in Requests |-> Nobody]
    /\ ran = [r \in Requests |-> 0] /\ flushed = {}
    /\ crashes = 0 /\ starts = 0

-----------------------------------------------------------------------------
(* Worker processes.                                                        *)

\* process.poll() is None.
Alive(p) == state[p] \in {"starting", "running"}

\* The reader thread queues a line of a worker, unless it has ended.
Says(p, line) ==
    replies' = IF p \in unheard THEN replies ELSE [replies EXCEPT ![p] = Append(@, line)]

\* The reader thread reports the end of a process after its last line.
Ends(p) ==
    /\ state' = [state EXCEPT ![p] = "dead"]
    /\ input' = [input EXCEPT ![p] = {}] /\ job' = [job EXCEPT ![p] = Nobody]
    /\ Says(p, Stopped) /\ unheard' = unheard \cup {p}
    /\ UNCHANGED <<home, open>>

\* ensure_single_instance() lets a worker start its listener, or ends it.
StartUp(p) ==
    /\ state[p] = "starting"
    /\ \/ /\ state' = [state EXCEPT ![p] = "running"]
          /\ Says(p, Ready)
          /\ UNCHANGED <<home, open, input, job, unheard>>
       \/ Ends(p)
    /\ UNCHANGED <<broker, threads, crashes, starts>>

Execute(p) ==
    /\ state[p] = "running" /\ job[p] = Nobody
    /\ \E r \in input[p] :
          /\ job' = [job EXCEPT ![p] = r] /\ input' = [input EXCEPT ![p] = @ \ {r}]
          /\ ran' = [ran EXCEPT ![r] = @ + 1]
    /\ UNCHANGED <<broker, state, home, open, replies, unheard, pc, target, outcome, answer>>
    /\ UNCHANGED <<flushed, crashes, starts>>

Reply(p) ==
    /\ state[p] = "running" /\ job[p] # Nobody
    /\ Says(p, job[p])
    /\ job' = [job EXCEPT ![p] = Nobody]
    /\ UNCHANGED <<broker, state, home, open, input, unheard, threads, crashes, starts>>

\* A line that is too long, or not JSON, ends the reader thread of a live worker.
Garble(p) ==
    /\ crashes < MaxCrashes /\ Alive(p) /\ p \notin unheard
    /\ crashes' = crashes + 1
    /\ Says(p, Stopped) /\ unheard' = unheard \cup {p}
    /\ UNCHANGED <<broker, state, home, open, input, job, threads, starts>>

\* After the end of its input a worker exits: by itself, by its orphan guard, or
\* killed by stop().
Exit(p) ==
    /\ Alive(p) /\ p \notin open
    /\ Ends(p)
    /\ UNCHANGED <<broker, threads, crashes, starts>>

CrashWorker(p) ==
    /\ crashes < MaxCrashes /\ Alive(p) /\ p \in open
    /\ crashes' = crashes + 1
    /\ Ends(p)
    /\ UNCHANGED <<broker, threads, starts>>

-----------------------------------------------------------------------------
(* Worker.__init__, under the broker lock.                                  *)

HasWorker(e) == slot[e] # NoProc /\ Alive(slot[e])

\* A process that never ran before; which one makes no difference.
NewProc == CHOOSE p \in Procs : state[p] = "unused"

\* The dead worker of an endpoint is stopped before another one is started.
Launch(h, e) ==
    /\ \E p \in Procs : state[p] = "unused"
    /\ lock' = h /\ making' = NewProc
    /\ state' = [state EXCEPT ![NewProc] = "starting"] /\ home' = [home EXCEPT ![NewProc] = e]
    /\ open' = (open \ {slot[e]}) \cup {NewProc}
    /\ UNCHANGED <<backoff, input, job, replies, unheard>>

LaunchFails(e) ==
    /\ open' = open \ {slot[e]}
    /\ backoff' = backoff \cup {e}
    /\ UNCHANGED <<lock, making, state, home, input, job, replies, unheard>>

\* The thread of a request is done.
End(r, how) ==
    /\ target' = [target EXCEPT ![r] = NoProc]
    /\ pc' = [pc EXCEPT ![r] = "done"]
    /\ outcome' = [outcome EXCEPT ![r] = how]

\* A start that succeeded or failed lets the holder of the lock go on.
Resume(succeeded) ==
    /\ lock' = Nobody /\ making' = NoProc
    /\ recovering' = IF lock = Supervisor THEN recovering \ {home[making]} ELSE recovering
    /\ IF lock = Supervisor THEN UNCHANGED <<pc, target, outcome>>
       ELSE IF succeeded
       THEN /\ pc' = [pc EXCEPT ![lock] = "waiting"] /\ target' = [target EXCEPT ![lock] = making]
            /\ UNCHANGED outcome
       ELSE End(lock, "rejected")

StartSucceeds ==
    /\ making # NoProc /\ making \in open
    /\ replies[making] # <<>> /\ Head(replies[making]) = Ready
    /\ replies' = [replies EXCEPT ![making] = Tail(@)]
    /\ slot' = [slot EXCEPT ![home[making]] = making]
    /\ backoff' = backoff \ {home[making]}
    /\ Resume(TRUE)
    /\ UNCHANGED <<phase, saved, closing, state, home, open, input, job, unheard, answer, ran, flushed, crashes, starts>>

\* The worker is not ready in 15 s, or ends before: it is stopped.
StartFails ==
    /\ making # NoProc /\ making \in open
    /\ ~(replies[making] # <<>> /\ Head(replies[making]) = Ready)
    /\ open' = open \ {making}
    /\ UNCHANGED <<broker, state, home, input, job, replies, unheard, threads, crashes, starts>>

StartGivenUp ==
    /\ making # NoProc /\ making \notin open /\ ~Alive(making)
    /\ backoff' = backoff \cup {home[making]}
    /\ Resume(FALSE)
    /\ UNCHANGED <<phase, saved, slot, closing, procs, answer, ran, flushed, crashes, starts>>

-----------------------------------------------------------------------------
(* RPC threads: dispatch(), worker(), call() and status().                  *)

Serving == phase \in {"running", "stopping", "closed"}

\* Request metadata, endpoint settings or, after worker(), the tool name is refused.
Refuse(r) ==
    /\ Serving /\ (pc[r] = "new" \/ (pc[r] = "waiting" /\ r \in Calls))
    /\ End(r, "rejected")
    /\ UNCHANGED <<broker, procs, answer, ran, flushed, crashes, starts>>

Room(e) == e \in saved \/ Cardinality(saved) < MaxEndpoints

\* worker() for a call: the saved profile, then the running worker or a new one.
\* Saving the profile, or starting a process, may fail.
FindWorker(r) ==
    LET e == EndpointOf[r] IN
    /\ Serving /\ pc[r] = "new" /\ lock = Nobody
    /\ UNCHANGED <<phase, slot, recovering, closing, answer, ran, flushed, crashes, starts>>
    /\ \/ /\ phase = "closed" \/ e \notin saved
          /\ End(r, "rejected")
          /\ UNCHANGED <<saved, backoff, lock, making, procs>>
       \/ /\ phase # "closed" /\ Room(e)
          /\ saved' = saved \cup {e}
          /\ IF HasWorker(e)
             THEN /\ pc' = [pc EXCEPT ![r] = "waiting"] /\ target' = [target EXCEPT ![r] = slot[e]]
                  /\ UNCHANGED <<backoff, lock, making, procs, outcome>>
             ELSE \/ /\ Launch(r, e)
                     /\ pc' = [pc EXCEPT ![r] = "starting"]
                     /\ UNCHANGED <<target, outcome>>
                  \/ LaunchFails(e) /\ End(r, "rejected")

\* status(): the worker is looked up under the lock and asked after it.
LookUp(r) ==
    LET e == EndpointOf[r] IN
    /\ Serving /\ pc[r] = "new" /\ lock = Nobody
    /\ IF HasWorker(e)
       THEN /\ pc' = [pc EXCEPT ![r] = "waiting"] /\ target' = [target EXCEPT ![r] = slot[e]]
            /\ UNCHANGED outcome
       ELSE End(r, "rejected")
    /\ UNCHANGED <<broker, procs, answer, ran, flushed, crashes, starts>>

\* The lock of a worker, held during a call and the stop that ends it.
Busy(p) == \E r \in Requests : target[r] = p /\ pc[r] \in {"writing", "calling", "stopping"}

\* A status request does not wait for a worker.
GiveWay(r) ==
    /\ r \in Probes /\ pc[r] = "waiting" /\ Busy(target[r])
    /\ End(r, "busy")
    /\ UNCHANGED <<broker, procs, answer, ran, flushed, crashes, starts>>

\* call(): with the lock of the worker, the command is put into the buffer of its pipe.
\* Writing to a pipe that stop() closed is refused.
Enter(r) ==
    /\ pc[r] = "waiting" /\ ~Busy(target[r])
    /\ \/ target[r] \notin open /\ End(r, "rejected")
       \/ /\ target[r] \in open
          /\ pc' = [pc EXCEPT ![r] = "writing"]
          /\ UNCHANGED <<target, outcome>>
    /\ UNCHANGED <<broker, procs, answer, ran, flushed, crashes, starts>>

\* The buffer is flushed into the pipe: refused if the pipe was closed in between, and
\* a worker that ended is stopped.
Flush(r) ==
    LET p == target[r] IN
    /\ pc[r] = "writing"
    /\ \/ /\ p \notin open
          /\ End(r, "rejected")
          /\ UNCHANGED <<open, input>>
       \/ /\ p \in open /\ Alive(p)
          /\ input' = [input EXCEPT ![p] = @ \cup {r}]
          /\ pc' = [pc EXCEPT ![r] = "calling"]
          /\ UNCHANGED <<open, target, outcome>>
       \/ /\ p \in open /\ ~Alive(p)
          /\ open' = open \ {p}
          /\ End(r, "unknown")
          /\ UNCHANGED input
    /\ UNCHANGED <<broker, state, home, job, replies, unheard, answer, ran, flushed, crashes, starts>>

Receive(r) ==
    LET p == target[r] IN
    /\ pc[r] = "calling" /\ replies[p] # <<>>
    /\ replies' = [replies EXCEPT ![p] = Tail(@)]
    /\ IF Head(replies[p]) = Stopped
       THEN End(r, "unknown") /\ UNCHANGED answer
       ELSE End(r, "answered") /\ answer' = [answer EXCEPT ![r] = Head(replies[p])]
    /\ UNCHANGED <<broker, state, home, open, input, job, unheard, ran, flushed, crashes, starts>>

\* Mutant: a worker that does not answer in time is kept.
TimeOutKeepsWorker(r) ==
    /\ pc[r] = "calling" /\ replies[target[r]] = <<>>
    /\ End(r, "unknown")
    /\ UNCHANGED <<broker, procs, answer, ran, flushed, crashes, starts>>

\* Mutant: only status requests have a time-out.
TimeOutOfProbes(r) ==
    /\ r \in Probes /\ pc[r] = "calling" /\ replies[target[r]] = <<>>
    /\ pc' = [pc EXCEPT ![r] = "stopping"]
    /\ open' = open \ {target[r]}
    /\ UNCHANGED <<broker, state, home, input, job, replies, unheard, target, outcome, answer, ran, flushed, crashes, starts>>

\* No answer in time: the worker is stopped, still under its lock.
TimeOut(r) ==
    /\ pc[r] = "calling" /\ replies[target[r]] = <<>>
    /\ pc' = [pc EXCEPT ![r] = "stopping"]
    /\ open' = open \ {target[r]}
    /\ UNCHANGED <<broker, state, home, input, job, replies, unheard, target, outcome, answer, ran, flushed, crashes, starts>>

\* Mutant: a call that was interrupted is tried again.
StopReturnsAndRetries(r) ==
    /\ pc[r] = "stopping" /\ ~Alive(target[r])
    /\ pc' = [pc EXCEPT ![r] = "new"]
    /\ UNCHANGED <<broker, procs, target, outcome, answer, ran, flushed, crashes, starts>>

StopReturns(r) ==
    /\ pc[r] = "stopping" /\ ~Alive(target[r])
    /\ End(r, "unknown")
    /\ UNCHANGED <<broker, procs, answer, ran, flushed, crashes, starts>>

-----------------------------------------------------------------------------
(* The main thread: run(), restore(), recover_workers() and close().        *)

Start ==
    /\ phase = "down" /\ starts < MaxStarts
    /\ starts' = starts + 1
    /\ phase' = "restoring" /\ recovering' = saved
    /\ UNCHANGED <<saved, slot, backoff, lock, making, closing, procs, threads, crashes>>

\* RPC connections are accepted when every saved endpoint was tried.
Restored ==
    /\ phase = "restoring" /\ recovering = {}
    /\ phase' = "running"
    /\ UNCHANGED <<saved, slot, backoff, lock, making, recovering, closing, procs, threads, crashes, starts>>

\* Mutant: only endpoints that never had a worker are looked for.
LostNever == {e \in saved : slot[e] = NoProc} \ backoff

\* recover_workers(): the dead workers that may be started again.
Lost == {e \in saved : ~HasWorker(e)} \ backoff

Scan ==
    /\ phase = "running" /\ lock = Nobody /\ recovering = {}
    /\ recovering' = Lost /\ Lost # {}
    /\ UNCHANGED <<phase, saved, slot, backoff, lock, making, closing, procs, threads, crashes, starts>>

\* worker() for the main thread. What the scan found may have been started since.
Recover(e) ==
    /\ phase \in {"restoring", "running"} /\ e \in recovering /\ lock = Nobody
    /\ \/ /\ HasWorker(e)
          /\ recovering' = recovering \ {e}
          /\ UNCHANGED <<backoff, lock, making, procs>>
       \/ ~HasWorker(e) /\ Launch(Supervisor, e) /\ UNCHANGED recovering
       \/ ~HasWorker(e) /\ LaunchFails(e) /\ recovering' = recovering \ {e}
    /\ UNCHANGED <<phase, saved, slot, closing, threads, crashes, starts>>

\* next_restart is reached.
Elapse(e) ==
    /\ e \in backoff
    /\ backoff' = backoff \ {e}
    /\ UNCHANGED <<phase, saved, slot, lock, making, recovering, closing, procs, threads, crashes, starts>>

\* A signal or the stop request.
StopBroker ==
    /\ phase = "running"
    /\ phase' = "stopping"
    /\ UNCHANGED <<saved, slot, backoff, lock, making, recovering, closing, procs, threads, crashes, starts>>

\* Mutant: close() takes no lock.
BeginCloseUnlocked ==
    /\ phase = "stopping" /\ lock # Supervisor
    /\ phase' = "closed" /\ recovering' = {}
    /\ closing' = {slot[e] : e \in Endpoints} \ {NoProc}
    /\ UNCHANGED <<saved, slot, backoff, lock, making, procs, threads, crashes, starts>>

\* close(): no worker is started any more; those that exist are stopped in turn.
BeginClose ==
    /\ phase = "stopping" /\ lock = Nobody
    /\ phase' = "closed" /\ recovering' = {}
    /\ closing' = {slot[e] : e \in Endpoints} \ {NoProc}
    /\ UNCHANGED <<saved, slot, backoff, lock, making, procs, threads, crashes, starts>>

\* Commands in the buffer of the pipe of p.
Buffered(p) == {r \in Requests : pc[r] = "writing" /\ target[r] = p}

\* stop() for the next worker, without its lock: closing the pipe flushes what a call has
\* just put into its buffer.
CloseWorker ==
    /\ phase = "closed"
    /\ \A q \in closing : q \in open \/ ~Alive(q)
    /\ \E p \in closing \cap open :
          LET out == IF Alive(p) THEN Buffered(p) ELSE {} IN
          /\ open' = open \ {p}
          /\ input' = [input EXCEPT ![p] = @ \cup out] /\ flushed' = flushed \cup out
    /\ UNCHANGED <<broker, state, home, job, replies, unheard, pc, target, outcome, answer, ran>>
    /\ UNCHANGED <<crashes, starts>>

\* The broker process ends: its threads, its memory with the queues, and its pipes
\* are gone.
Vanish ==
    /\ phase' = "down"
    /\ slot' = [e \in Endpoints |-> NoProc]
    /\ backoff' = {} /\ lock' = Nobody /\ making' = NoProc /\ recovering' = {} /\ closing' = {}
    /\ open' = {} /\ replies' = [p \in Procs |-> <<>>]
    /\ unheard' = {p \in Procs : state[p] # "unused"}
    /\ pc' = [r \in Requests |-> IF pc[r] = "new" THEN "new" ELSE "done"]
    /\ outcome' = [r \in Requests |-> IF pc[r] \in {"new", "done"} THEN outcome[r] ELSE "unknown"]
    /\ target' = [r \in Requests |-> NoProc]
    /\ UNCHANGED <<saved, state, home, input, job, answer, ran, flushed, starts>>

Closed ==
    /\ phase = "closed"
    /\ \A p \in closing : p \notin open /\ ~Alive(p)
    /\ Vanish
    /\ UNCHANGED crashes

CrashBroker ==
    /\ phase # "down" /\ crashes < MaxCrashes
    /\ crashes' = crashes + 1
    /\ Vanish

Next ==
    \/ \E p \in Procs : StartUp(p) \/ Execute(p) \/ Reply(p) \/ Garble(p) \/ Exit(p) \/ CrashWorker(p)
    \/ StartSucceeds \/ StartFails \/ StartGivenUp
    \/ \E r \in Calls : FindWorker(r)
    \/ \E r \in Probes : LookUp(r) \/ GiveWay(r)
    \/ \E r \in Requests : Refuse(r) \/ Enter(r) \/ Flush(r) \/ Receive(r) \/ TimeOut(r) \/ StopReturns(r)
    \/ Start \/ Restored \/ Scan \/ StopBroker \/ BeginClose \/ CloseWorker \/ Closed \/ CrashBroker
    \/ \E e \in Endpoints : Recover(e) \/ Elapse(e)

Spec == Init /\ [][Next]_vars

\* Processes, RPC threads and the main thread run on: queues time out, stop() kills,
\* and whoever holds a lock releases it. Starting a process succeeds if it is tried
\* again and again.
FairSpec ==
    /\ Spec
    /\ WF_vars(\E p \in Procs : StartUp(p) \/ Exit(p))
    /\ WF_vars(StartSucceeds \/ StartFails \/ StartGivenUp)
    /\ WF_vars(\E r \in Requests : Enter(r) \/ Flush(r) \/ Receive(r) \/ TimeOut(r) \/ StopReturns(r))
    /\ WF_vars(Restored \/ Scan \/ BeginClose \/ CloseWorker \/ Closed \/ \E e \in Endpoints : Recover(e))
    /\ \A e \in Endpoints : SF_vars(Recover(e) /\ making' # NoProc) /\ WF_vars(Elapse(e))

-----------------------------------------------------------------------------
(* Properties.                                                              *)

\* "Restore reception after a dead worker, never replay an interrupted call"
\* (broker.py): a request is executed at most once, by one worker. One that was told
\* busy was never executed, and one that was refused only if close() shut the pipe, and
\* so flushed its command, between the write and the flush of its call.
ExecutedAsTold ==
    \A r \in Requests :
        /\ ran[r] <= 1
        /\ outcome[r] = "busy" => ran[r] = 0
        /\ outcome[r] = "rejected" /\ ran[r] # 0 => r \in flushed

\* A caller gets the answer to its own request, never the late one of a call that
\* timed out before on the same worker.
AnswersAreOwn == \A r \in Requests : outcome[r] = "answered" => answer[r] = r /\ ran[r] = 1

\* "a lost supervisor pipe prevents orphan workers" (SETUP.md): a live worker whose
\* pipe is held open is one that close() stops, also when it is started while the
\* broker stops.
Supervised ==
    \A p \in open :
        Alive(p) => IF phase = "closed" THEN p \in closing ELSE p \in {making, slot[home[p]]}

\* A request that a thread took up is finished, whoever dies, hangs or holds a lock.
RequestsEnd == \A r \in Requests : pc[r] # "new" ~> pc[r] = "done"

\* A saved endpoint without a worker gets one, or a start is tried, as long as the
\* broker runs and processes can be started.
LostIsRestarted ==
    \A e \in Endpoints :
        (phase = "running" /\ e \in saved /\ ~HasWorker(e)) ~>
            \/ HasWorker(e) \/ (making # NoProc /\ home[making] = e)
            \/ phase # "running" \/ \A p \in Procs : state[p] # "unused"

=============================================================================
