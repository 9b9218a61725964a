------------------------ MODULE BrokerWorkers_proof ------------------------
(***************************************************************************)
(* Proofs about BrokerWorkers, for any endpoints, requests and processes   *)
(* that satisfy BrokerAssumption, and any number of crashes.               *)
(***************************************************************************)
EXTENDS BrokerWorkers, FiniteSetTheorems, SequenceTheorems, TLAPS

\* The command of r was written to worker p, and r waits for the answer.
Calling(r, p) == pc[r] = "calling" /\ target[r] = p

\* The first line in the queue of p.
First(p, line) == replies[p] # <<>> /\ Head(replies[p]) = line

\* A worker that is heard has one command at most, in its pipe, at work or answered, and
\* sends its first line before it gets one. After the reader's end the queue has at most
\* one line before the report of that end.
Written(p) == \E c \in Requests : input[p] = {c} /\ job[p] = Nobody /\ replies[p] = <<>>
AtWork(p) == input[p] = {} /\ job[p] # Nobody /\ replies[p] = <<>>
Said(p) ==
    /\ input[p] = {} /\ job[p] = Nobody
    /\ replies[p] = <<>> \/ \E l \in Requests \cup {Ready} : replies[p] = <<l>>
Over(p) ==
    \/ replies[p] = <<>> \/ replies[p] = <<Stopped>>
    \/ \E l \in Requests \cup {Ready} : replies[p] = <<l, Stopped>>

Places ==
    \A p \in Procs :
        /\ p \notin unheard => Written(p) \/ AtWork(p) \/ Said(p)
        /\ p \in unheard => Over(p)
        /\ state[p] = "dead" => p \in unheard
        /\ state[p] \in {"unused", "starting"} =>
              input[p] = {} /\ job[p] = Nobody /\ (replies[p] = <<>> \/ replies[p] = <<Stopped>>)

\* A worker whose start succeeded: its first line was taken.
Settled(p) == state[p] \in {"running", "dead"} /\ ~First(p, Ready)

Made ==
    /\ \A e \in Endpoints : slot[e] # NoProc => Settled(slot[e]) /\ home[slot[e]] = e
    /\ \A r \in Requests :
          /\ target[r] # NoProc => Settled(target[r])
          /\ pc[r] \in {"waiting", "writing", "calling", "stopping"} => target[r] # NoProc

\* A command is in one pipe until it is executed, and is at work or answered only then.
Executions ==
    \A r \in Requests :
        /\ ran[r] <= 1
        /\ \A p \in Procs :
              /\ r \in input[p] => ran[r] = 0 /\ \A q \in Procs : r \in input[q] => q = p
              /\ job[p] = r \/ First(p, r) => ran[r] = 1

\* The command of r is in no pipe, and was in none.
Kept(r) == ran[r] = 0 /\ \A p \in Procs : r \notin input[p]

\* A request that did not reach the flush of its call, or was refused, is in no pipe, unless
\* close() flushed it.
Untold ==
    \A r \in Requests :
        /\ pc[r] \in {"new", "starting", "waiting"} \/ outcome[r] = "busy" => Kept(r)
        /\ pc[r] = "writing" /\ target[r] \in open => Kept(r)
        /\ pc[r] = "writing" \/ outcome[r] = "rejected" => Kept(r) \/ r \in flushed
        /\ outcome[r] \in {"rejected", "busy"} => pc[r] = "done"

\* The lock of a worker.
OneCaller ==
    \A r, c \in Requests :
        target[r] = target[c] /\ {pc[r], pc[c]} \subseteq {"writing", "calling", "stopping"} => r = c

\* What a worker may still be heard of, for a command of c.
Pending(c, p) == First(p, c) \/ (p \notin unheard /\ (c \in input[p] \/ job[p] = c))

\* A worker that can be called, or is, has nothing to say but to its caller.
Own ==
    \A p \in Procs, c \in Requests :
        (p \in open \/ \E r \in Requests : Calling(r, p)) /\ Pending(c, p) => Calling(c, p)

\* The broker lock across a worker's start.
Starting ==
    /\ lock = Nobody <=> making = NoProc
    /\ \A r \in Calls : lock = r <=> pc[r] = "starting"
    /\ \A r \in Requests : pc[r] = "starting" => r \in Calls
    /\ making # NoProc => state[making] # "unused" /\ ~HasWorker(home[making])

CallInv == TypeOK /\ Places /\ Made /\ Executions /\ Untold /\ OneCaller /\ Own /\ Starting

-----------------------------------------------------------------------------
(* Queues of at most two lines, and new processes.                          *)

\* What happens to the queue of a worker: a line is added to at most one, the first is taken.
LEMMA ShortQueues ==
    ASSUME NEW a, NEW b
    PROVE  /\ Append(<<>>, a) = <<a>> /\ Append(<<a>>, b) = <<a, b>>
           /\ Head(<<a>>) = a /\ Tail(<<a>>) = <<>> /\ Head(<<a, b>>) = a /\ Tail(<<a, b>>) = <<b>>
           /\ <<a>> # <<>> /\ <<a, b>> # <<>>
  <1>1. <<a>> \in Seq({a, b}) /\ <<a, b>> \in Seq({a, b}) /\ Len(<<a>>) = 1 /\ Len(<<a, b>>) = 2
    OBVIOUS
  <1>2. Append(<<a>>, b) = <<a, b>>
    <2>1. /\ Append(<<a>>, b) \in Seq({a, b}) /\ Len(Append(<<a>>, b)) = 2
          /\ Append(<<a>>, b)[1] = a /\ Append(<<a>>, b)[2] = b
      BY <1>1, AppendProperties
    <2>2. \A i \in 1 .. 2 : i = 1 \/ i = 2
      OBVIOUS
    <2>3. <<a, b>>[1] = a /\ <<a, b>>[2] = b
      OBVIOUS
    <2> QED BY <1>1, <2>1, <2>2, <2>3, SeqEqual
  <1>3. Append(<<>>, a) = <<a>>
    OBVIOUS
  <1>4. Head(<<a>>) = a /\ Tail(<<a>>) = <<>> /\ <<a>> # <<>>
    OBVIOUS
  <1>5. Head(<<a, b>>) = a /\ Tail(<<a, b>>) = <<b>> /\ <<a, b>> # <<>>
    OBVIOUS
  <1> QED BY <1>2, <1>3, <1>4, <1>5

\* A queue of lines stays one when a line is added or the first one is taken.
LEMMA QueueTypes ==
    ASSUME NEW S, NEW s \in Seq(S)
    PROVE  /\ \A a \in S : Append(s, a) \in Seq(S)
           /\ s # <<>> => Head(s) \in S /\ Tail(s) \in Seq(S)
  <1>1. \A a \in S : Append(s, a) \in Seq(S)
    OBVIOUS
  <1>2. ASSUME s # <<>>
        PROVE  Head(s) \in S /\ Tail(s) \in Seq(S)
    BY <1>2
  <1> QED BY <1>1, <1>2

\* The process that a start takes never ran.
LEMMA NewProcess ==
    ASSUME \E p \in Procs : state[p] = "unused"
    PROVE  NewProc \in Procs /\ state[NewProc] = "unused"
  BY DEF NewProc

-----------------------------------------------------------------------------
(* Types.                                                                    *)

LEMMA TypeInit == Init => TypeOK
  <1> SUFFICES ASSUME Init
               PROVE  TypeOK
    OBVIOUS
  <1>1. (CHOOSE e \in Endpoints : TRUE) \in Endpoints
    BY BrokerAssumption
  <1>2. saved \in SUBSET Endpoints /\ Cardinality(saved) <= MaxEndpoints
    BY BrokerAssumption, FS_EmptySet DEF Init
  <1>3. replies \in [Procs -> Seq(Requests \cup {Ready, Stopped})]
    BY DEF Init
  <1> QED BY <1>1, <1>2, <1>3, BrokerAssumption DEF Init, TypeOK

\* What a line that is added to a queue leaves of the types.
LEMMA SaysTypes ==
    ASSUME TypeOK, NEW p \in Procs, NEW l \in Requests \cup {Ready, Stopped}, Says(p, l)
    PROVE  replies' \in [Procs -> Seq(Requests \cup {Ready, Stopped})]
  <1>1. Append(replies[p], l) \in Seq(Requests \cup {Ready, Stopped})
    BY QueueTypes DEF TypeOK
  <1> QED BY <1>1 DEF Says, TypeOK

\* The end of a process.
LEMMA EndsTypes ==
    ASSUME TypeOK, NEW p \in Procs, Ends(p)
    PROVE  /\ state' \in [Procs -> {"unused", "starting", "running", "dead"}]
           /\ input' \in [Procs -> SUBSET Requests] /\ job' \in [Procs -> Requests \cup {Nobody}]
           /\ replies' \in [Procs -> Seq(Requests \cup {Ready, Stopped})] /\ unheard' \in SUBSET Procs
           /\ home' = home /\ open' = open
  <1>1. replies' \in [Procs -> Seq(Requests \cup {Ready, Stopped})]
    BY SaysTypes DEF Ends
  <1> QED BY <1>1 DEF Ends, TypeOK

\* The end of a request.
LEMMA EndTypes ==
    ASSUME TypeOK, NEW r \in Requests, NEW how \in {"answered", "unknown", "rejected", "busy"},
           End(r, how)
    PROVE  /\ pc' \in [Requests -> {"new", "starting", "waiting", "writing", "calling", "stopping", "done"}]
           /\ target' \in [Requests -> Procs \cup {NoProc}]
           /\ outcome' \in [Requests -> {"none", "answered", "unknown", "rejected", "busy"}]
  BY DEF End, TypeOK

\* The start of a process.
LEMMA LaunchTypes ==
    ASSUME TypeOK, NEW h \in Calls \cup {Supervisor, Nobody}, NEW e \in Endpoints, Launch(h, e)
    PROVE  /\ lock' \in Calls \cup {Supervisor, Nobody} /\ making' \in Procs \cup {NoProc}
           /\ state' \in [Procs -> {"unused", "starting", "running", "dead"}]
           /\ home' \in [Procs -> Endpoints] /\ open' \in SUBSET Procs
  <1>1. NewProc \in Procs
    BY NewProcess DEF Launch
  <1> QED BY <1>1 DEF Launch, TypeOK

\* The end of a start.
LEMMA ResumeTypes ==
    ASSUME TypeOK, Starting, making # NoProc, NEW b \in BOOLEAN, Resume(b)
    PROVE  /\ lock' \in Calls \cup {Supervisor, Nobody} /\ making' \in Procs \cup {NoProc}
           /\ recovering' \in SUBSET Endpoints
           /\ pc' \in [Requests -> {"new", "starting", "waiting", "writing", "calling", "stopping", "done"}]
           /\ target' \in [Requests -> Procs \cup {NoProc}]
           /\ outcome' \in [Requests -> {"none", "answered", "unknown", "rejected", "busy"}]
  <1>1. lock \in Calls \cup {Supervisor} /\ making \in Procs
    BY DEF Starting, TypeOK
  <1>2. CASE lock = Supervisor
    BY <1>2 DEF Resume, TypeOK
  <1>3. CASE lock # Supervisor
    <2>1. lock \in Requests
      BY <1>1, <1>3 DEF Requests
    <2>2. CASE b
      BY <1>1, <1>3, <2>1, <2>2 DEF Resume, TypeOK
    <2>3. CASE ~b
      <3>1. End(lock, "rejected")
        BY <1>3, <2>3 DEF Resume
      <3> QED BY <1>3, <2>1, <3>1, EndTypes DEF Resume, TypeOK
    <2> QED BY <2>2, <2>3
  <1> QED BY <1>2, <1>3

\* Only a request is the first line that a caller takes for an answer.
LEMMA FirstIsRequest ==
    ASSUME CallInv, NEW r \in Requests, pc[r] = "calling", replies[target[r]] # <<>>,
           Head(replies[target[r]]) # Stopped
    PROVE  Head(replies[target[r]]) = r
  <1> DEFINE p == target[r]
             l == Head(replies[p])
  <1>1. p \in Procs /\ Settled(p)
    BY DEF CallInv, Made, TypeOK
  <1>2. l \in Requests \cup {Ready, Stopped}
    BY <1>1, QueueTypes DEF CallInv, TypeOK
  <1>3. l \in Requests /\ First(p, l)
    BY <1>1, <1>2 DEF Settled, First
  <1>4. Calling(l, p) /\ Calling(r, p)
    BY <1>1, <1>3 DEF CallInv, Own, Pending, Calling
  <1> HIDE DEF l
  <1>5. l = r
    BY <1>3, <1>4 DEF CallInv, OneCaller, Calling
  <1> QED BY <1>5 DEF l

LEMMA TypeStep == CallInv /\ [Next]_vars => TypeOK'
  <1> SUFFICES ASSUME CallInv, [Next]_vars
               PROVE  TypeOK'
    OBVIOUS
  <1> USE DEF broker, procs, threads
  <1>0. TypeOK /\ Starting
    BY DEF CallInv
  <1>1. ASSUME NEW p \in Procs, StartUp(p) PROVE TypeOK'
    <2>1. ASSUME Says(p, Ready), state' = [state EXCEPT ![p] = "running"],
                 UNCHANGED <<home, open, input, job, unheard>>
          PROVE  TypeOK'
      <3>1. replies' \in [Procs -> Seq(Requests \cup {Ready, Stopped})]
        BY <1>0, <2>1, SaysTypes
      <3> QED BY <1>0, <1>1, <2>1, <3>1 DEF StartUp, TypeOK
    <2>2. CASE Ends(p)
      BY <1>0, <1>1, <2>2, EndsTypes DEF StartUp, TypeOK
    <2> QED BY <1>1, <2>1, <2>2 DEF StartUp
  <1>2. ASSUME NEW p \in Procs, Execute(p) PROVE TypeOK'
    BY <1>0, <1>2 DEF Execute, TypeOK
  <1>3. ASSUME NEW p \in Procs, Reply(p) PROVE TypeOK'
    <2>1. job[p] \in Requests /\ Says(p, job[p])
      BY <1>0, <1>3 DEF Reply, TypeOK
    <2>2. replies' \in [Procs -> Seq(Requests \cup {Ready, Stopped})]
      BY <1>0, <2>1, SaysTypes
    <2> QED BY <1>0, <1>3, <2>2 DEF Reply, TypeOK
  <1>4. ASSUME NEW p \in Procs, Garble(p) PROVE TypeOK'
    <2>1. replies' \in [Procs -> Seq(Requests \cup {Ready, Stopped})]
      BY <1>0, <1>4, SaysTypes DEF Garble
    <2>2. crashes' \in 0 .. MaxCrashes
      BY <1>0, <1>4, BrokerAssumption DEF Garble, TypeOK
    <2> QED BY <1>0, <1>4, <2>1, <2>2 DEF Garble, TypeOK
  <1>5. ASSUME NEW p \in Procs, Exit(p) PROVE TypeOK'
    BY <1>0, <1>5, EndsTypes DEF Exit, TypeOK
  <1>6. ASSUME NEW p \in Procs, CrashWorker(p) PROVE TypeOK'
    <2>1. crashes' \in 0 .. MaxCrashes
      BY <1>0, <1>6, BrokerAssumption DEF CrashWorker, TypeOK
    <2> QED BY <1>0, <1>6, <2>1, EndsTypes DEF CrashWorker, TypeOK
  <1>7. CASE StartSucceeds
    <2>1. Tail(replies[making]) \in Seq(Requests \cup {Ready, Stopped})
      BY <1>0, <1>7, QueueTypes DEF StartSucceeds, TypeOK
    <2>2. making \in Procs /\ home[making] \in Endpoints
      BY <1>0, <1>7 DEF StartSucceeds, TypeOK
    <2>3. replies' \in [Procs -> Seq(Requests \cup {Ready, Stopped})]
      BY <1>0, <1>7, <2>1 DEF StartSucceeds, TypeOK
    <2>4. slot' \in [Endpoints -> Procs \cup {NoProc}] /\ backoff' \in SUBSET Endpoints
      BY <1>0, <1>7, <2>2 DEF StartSucceeds, TypeOK
    <2>5. Resume(TRUE) /\ making # NoProc
      BY <1>7 DEF StartSucceeds
    <2> QED BY <1>0, <1>7, <2>3, <2>4, <2>5, ResumeTypes DEF StartSucceeds, TypeOK
  <1>8. CASE StartFails
    BY <1>0, <1>8 DEF StartFails, TypeOK
  <1>9. CASE StartGivenUp
    <2>1. making \in Procs /\ home[making] \in Endpoints /\ Resume(FALSE) /\ making # NoProc
      BY <1>0, <1>9 DEF StartGivenUp, TypeOK
    <2> QED BY <1>0, <1>9, <2>1, ResumeTypes DEF StartGivenUp, TypeOK
  <1>10. ASSUME NEW r \in Calls, FindWorker(r) PROVE TypeOK'
    <2> DEFINE e == EndpointOf[r]
    <2>1. e \in Endpoints /\ r \in Requests
      BY BrokerAssumption DEF Requests
    <2>2. CASE End(r, "rejected") /\ UNCHANGED <<saved, backoff, lock, making, procs>>
      BY <1>0, <1>10, <2>1, <2>2, EndTypes DEF FindWorker, TypeOK
    <2>3. ASSUME Room(e), saved' = saved \cup {e}
          PROVE  saved' \in SUBSET Endpoints /\ Cardinality(saved') <= MaxEndpoints
      <3>1. IsFiniteSet(saved)
        BY <1>0, BrokerAssumption, FS_Subset DEF TypeOK
      <3>2. Cardinality(saved) \in Nat /\ MaxEndpoints \in Nat
        BY <3>1, BrokerAssumption, FS_CardinalityType
      <3>3. Cardinality(saved') = IF e \in saved THEN Cardinality(saved) ELSE Cardinality(saved) + 1
        BY <2>3, <3>1, FS_AddElement
      <3> QED BY <1>0, <2>1, <2>3, <3>2, <3>3 DEF Room, TypeOK
    <2>4. ASSUME pc' = [pc EXCEPT ![r] = "waiting"] /\ target' = [target EXCEPT ![r] = slot[e]],
                 UNCHANGED <<backoff, lock, making, procs, outcome>>, Room(e), saved' = saved \cup {e}
          PROVE  TypeOK'
      BY <1>0, <1>10, <2>1, <2>3, <2>4 DEF FindWorker, TypeOK
    <2>5. ASSUME Launch(r, e), pc' = [pc EXCEPT ![r] = "starting"], UNCHANGED <<target, outcome>>,
                 Room(e), saved' = saved \cup {e}
          PROVE  TypeOK'
      <3>1. UNCHANGED <<backoff, input, job, replies, unheard>>
        BY <2>5 DEF Launch
      <3> QED BY <1>0, <1>10, <2>1, <2>3, <2>5, <3>1, LaunchTypes DEF FindWorker, TypeOK
    <2>6. ASSUME LaunchFails(e), End(r, "rejected"), Room(e), saved' = saved \cup {e}
          PROVE  TypeOK'
      BY <1>0, <1>10, <2>1, <2>3, <2>6, EndTypes DEF FindWorker, LaunchFails, TypeOK
    <2> QED BY <1>10, <2>2, <2>4, <2>5, <2>6 DEF FindWorker
  <1>11. ASSUME NEW r \in Probes, LookUp(r) PROVE TypeOK'
    <2>1. EndpointOf[r] \in Endpoints /\ r \in Requests
      BY BrokerAssumption DEF Requests
    <2>2. CASE HasWorker(EndpointOf[r])
      BY <1>0, <1>11, <2>1, <2>2 DEF LookUp, TypeOK
    <2>3. CASE ~HasWorker(EndpointOf[r])
      BY <1>0, <1>11, <2>1, <2>3, EndTypes DEF LookUp, TypeOK
    <2> QED BY <2>2, <2>3
  <1>12. ASSUME NEW r \in Probes, GiveWay(r) PROVE TypeOK'
    BY <1>0, <1>12, EndTypes DEF GiveWay, TypeOK, Requests
  <1>13. ASSUME NEW r \in Requests, Refuse(r) PROVE TypeOK'
    BY <1>0, <1>13, EndTypes DEF Refuse, TypeOK
  <1>14. ASSUME NEW r \in Requests, Enter(r) \/ Flush(r) PROVE TypeOK'
    <2>1. CASE Enter(r)
      <3>1. CASE End(r, "rejected")
        BY <1>0, <2>1, <3>1, EndTypes DEF Enter, TypeOK
      <3>2. CASE pc' = [pc EXCEPT ![r] = "writing"] /\ UNCHANGED <<target, outcome>>
        BY <1>0, <2>1, <3>2 DEF Enter, TypeOK
      <3> QED BY <2>1, <3>1, <3>2 DEF Enter
    <2>2. CASE Flush(r)
      <3>1. CASE End(r, "rejected") /\ UNCHANGED <<open, input>>
        BY <1>0, <2>2, <3>1, EndTypes DEF Flush, TypeOK
      <3>2. CASE End(r, "unknown") /\ open' = open \ {target[r]} /\ UNCHANGED input
        BY <1>0, <2>2, <3>2, EndTypes DEF Flush, TypeOK
      <3>3. CASE /\ input' = [input EXCEPT ![target[r]] = @ \cup {r}]
                 /\ pc' = [pc EXCEPT ![r] = "calling"]
                 /\ UNCHANGED <<open, target, outcome>>
        BY <1>0, <2>2, <3>3 DEF Flush, TypeOK
      <3> QED BY <2>2, <3>1, <3>2, <3>3 DEF Flush
    <2> QED BY <1>14, <2>1, <2>2
  <1>15. ASSUME NEW r \in Requests, Receive(r) PROVE TypeOK'
    <2>1. target[r] \in Procs
      BY <1>15 DEF CallInv, Made, Receive, TypeOK
    <2>2. replies' \in [Procs -> Seq(Requests \cup {Ready, Stopped})]
      <3>1. Tail(replies[target[r]]) \in Seq(Requests \cup {Ready, Stopped})
        BY <1>0, <1>15, <2>1, QueueTypes DEF Receive, TypeOK
      <3> QED BY <1>0, <1>15, <3>1 DEF Receive, TypeOK
    <2>3. CASE Head(replies[target[r]]) = Stopped
      BY <1>0, <1>15, <2>2, <2>3, EndTypes DEF Receive, TypeOK
    <2>4. CASE Head(replies[target[r]]) # Stopped
      <3>1. Head(replies[target[r]]) = r
        BY <1>15, <2>4, FirstIsRequest DEF Receive
      <3>2. answer' = [answer EXCEPT ![r] = r] /\ End(r, "answered")
        BY <1>15, <2>4, <3>1 DEF Receive
      <3>3. answer' \in [Requests -> Requests \cup {Nobody}]
        BY <1>0, <3>2 DEF TypeOK
      <3> QED BY <1>0, <1>15, <2>2, <3>2, <3>3, EndTypes DEF Receive, TypeOK
    <2> QED BY <2>3, <2>4
  <1>16. ASSUME NEW r \in Requests, TimeOut(r) PROVE TypeOK'
    BY <1>0, <1>16 DEF TimeOut, TypeOK
  <1>17. ASSUME NEW r \in Requests, StopReturns(r) PROVE TypeOK'
    BY <1>0, <1>17, EndTypes DEF StopReturns, TypeOK
  <1>18. CASE Start
    BY <1>0, <1>18, BrokerAssumption DEF Start, TypeOK
  <1>19. CASE Restored
    BY <1>0, <1>19 DEF Restored, TypeOK
  <1>20. CASE Scan
    BY <1>0, <1>20 DEF Scan, Lost, TypeOK
  <1>21. CASE StopBroker
    BY <1>0, <1>21 DEF StopBroker, TypeOK
  <1>22. CASE BeginClose
    BY <1>0, <1>22 DEF BeginClose, TypeOK
  <1>23. CASE CloseWorker
    <2>1. PICK p \in closing \cap open, out \in SUBSET Requests :
             /\ open' = open \ {p} /\ input' = [input EXCEPT ![p] = @ \cup out]
             /\ flushed' = flushed \cup out
      BY <1>23 DEF CloseWorker, Buffered
    <2> QED BY <1>0, <1>23, <2>1 DEF CloseWorker, TypeOK
  <1>24. ASSUME Vanish, crashes' \in 0 .. MaxCrashes PROVE TypeOK'
    BY <1>0, <1>24 DEF Vanish, TypeOK
  <1>25. CASE Closed
    BY <1>0, <1>24, <1>25 DEF Closed, TypeOK
  <1>26. CASE CrashBroker
    BY <1>0, <1>24, <1>26, BrokerAssumption DEF CrashBroker, TypeOK
  <1>27. ASSUME NEW e \in Endpoints, Recover(e) PROVE TypeOK'
    <2>1. CASE UNCHANGED <<backoff, lock, making, procs>> /\ recovering' = recovering \ {e}
      BY <1>0, <1>27, <2>1 DEF Recover, TypeOK
    <2>2. CASE Launch(Supervisor, e) /\ UNCHANGED recovering
      <3>1. UNCHANGED <<backoff, input, job, replies, unheard>>
        BY <2>2 DEF Launch
      <3> QED BY <1>0, <1>27, <2>2, <3>1, LaunchTypes DEF Recover, TypeOK
    <2>3. CASE LaunchFails(e) /\ recovering' = recovering \ {e}
      BY <1>0, <1>27, <2>3 DEF Recover, LaunchFails, TypeOK
    <2> QED BY <1>27, <2>1, <2>2, <2>3 DEF Recover
  <1>28. ASSUME NEW e \in Endpoints, Elapse(e) PROVE TypeOK'
    BY <1>0, <1>28 DEF Elapse, TypeOK
  <1>29. CASE UNCHANGED vars
    BY <1>0, <1>29 DEF vars, TypeOK
  <1> QED
    BY <1>1, <1>2, <1>3, <1>4, <1>5, <1>6, <1>7, <1>8, <1>9, <1>10, <1>11, <1>12, <1>13, <1>14, <1>15,
       <1>16, <1>17, <1>18, <1>19, <1>20, <1>21, <1>22, <1>23, <1>25, <1>26, <1>27, <1>28, <1>29 DEF Next

-----------------------------------------------------------------------------
(* The actions, by what they do to workers and requests.                    *)

workers == <<state, home, input, job, replies, unheard>>
slots == <<slot, lock, making>>

\* The main thread, or a start that fails at once: at most a pipe is closed.
Aside == UNCHANGED <<workers, slots, threads>> /\ open' \subseteq open

\* A line, a command or the end of a process.
Ready1(p) == /\ state[p] = "starting" /\ Says(p, Ready) /\ state' = [state EXCEPT ![p] = "running"]
             /\ UNCHANGED <<home, input, job, unheard, ran>>
Killed(p) == Alive(p) /\ Ends(p) /\ UNCHANGED ran
Garbled(p) == /\ p \notin unheard /\ Says(p, Stopped) /\ unheard' = unheard \cup {p}
              /\ UNCHANGED <<state, home, input, job, ran>>

\* Another process is started for an endpoint without a worker.
Started(h, e) ==
    /\ phase # "closed" /\ lock = Nobody /\ ~HasWorker(e) /\ Launch(h, e)
    /\ h = Supervisor => UNCHANGED pc
    /\ h # Supervisor => h \in Calls /\ pc[h] = "new" /\ pc' = [pc EXCEPT ![h] = "starting"]
    /\ UNCHANGED <<phase, closing, slot, target, outcome, answer, ran, flushed>>

\* The worker of an endpoint is found for r; r is refused, or told nothing definite; r puts
\* its command into the buffer.
Found(r) ==
    /\ pc[r] = "new" /\ HasWorker(EndpointOf[r])
    /\ pc' = [pc EXCEPT ![r] = "waiting"] /\ target' = [target EXCEPT ![r] = slot[EndpointOf[r]]]
    /\ open' = open /\ UNCHANGED <<workers, slots, outcome, answer, ran, flushed>>
Denied(r) ==
    /\ \/ pc[r] \in {"new", "waiting", "writing"} /\ End(r, "rejected")
       \/ pc[r] = "waiting" /\ End(r, "busy")
    /\ open' \subseteq open /\ UNCHANGED <<workers, slots, answer, ran, flushed>>
Abandoned(r) ==
    /\ pc[r] \in {"writing", "stopping"} /\ End(r, "unknown")
    /\ open' \subseteq open /\ UNCHANGED <<workers, slots, answer, ran, flushed>>
Writes(r) ==
    /\ pc[r] = "waiting" /\ ~Busy(target[r])
    /\ pc' = [pc EXCEPT ![r] = "writing"] /\ open' = open
    /\ UNCHANGED <<workers, slots, target, outcome, answer, ran, flushed>>

\* The command of r gets into the pipe: r flushes it, or close() does.
Called(r) ==
    pc' = [pc EXCEPT ![r] = "calling"] /\ open' = open /\ flushed' = flushed
Spilled(r) ==
    pc' = pc /\ open' = open \ {target[r]} /\ flushed' = flushed \cup {r}
Told(r) ==
    /\ pc[r] = "writing" /\ target[r] \in open /\ Alive(target[r])
    /\ input' = [input EXCEPT ![target[r]] = @ \cup {r}]
    /\ Called(r) \/ Spilled(r)
    /\ UNCHANGED <<state, home, job, replies, unheard, slots, target, outcome, answer, ran>>

\* A step of a worker by itself.
WorkerStep ==
    /\ \E p \in Procs : Ready1(p) \/ Killed(p) \/ Garbled(p) \/ Execute(p) \/ Reply(p)
    /\ open' = open /\ UNCHANGED <<slots, pc, target, outcome, answer, flushed>>

\* A step of the broker for a request.
RequestStep ==
    \E r \in Requests :
        Found(r) \/ Denied(r) \/ Abandoned(r) \/ Writes(r) \/ Told(r) \/ Receive(r) \/ TimeOut(r)

LEMMA Steps ==
    ASSUME TypeOK, OneCaller, [Next]_vars
    PROVE  \/ Aside \/ WorkerStep \/ RequestStep \/ StartSucceeds \/ StartGivenUp \/ Vanish
           \/ \E e \in Endpoints, h \in Calls \cup {Supervisor} : Started(h, e)
  <1> USE DEF broker, procs, threads, workers, slots
  <1> DEFINE G == \/ Aside \/ WorkerStep \/ RequestStep \/ StartSucceeds \/ StartGivenUp \/ Vanish
                  \/ \E e \in Endpoints, h \in Calls \cup {Supervisor} : Started(h, e)
  <1>1. ASSUME NEW p \in Procs,
               StartUp(p) \/ Execute(p) \/ Reply(p) \/ Garble(p) \/ Exit(p) \/ CrashWorker(p)
        PROVE  WorkerStep
    <2>1. CASE StartUp(p)
      <3>1. CASE Ends(p)
        BY <2>1, <3>1 DEF StartUp, WorkerStep, Killed, Ends, Alive
      <3>2. CASE ~Ends(p)
        BY <2>1, <3>2 DEF StartUp, WorkerStep, Ready1
      <3> QED BY <3>1, <3>2
    <2>2. CASE Execute(p)
      BY <2>2 DEF Execute, WorkerStep
    <2>3. CASE Reply(p)
      BY <2>3 DEF Reply, WorkerStep
    <2>4. CASE Garble(p)
      BY <2>4 DEF Garble, WorkerStep, Garbled
    <2>5. CASE Exit(p)
      BY <2>5 DEF Exit, WorkerStep, Killed, Ends
    <2>6. CASE CrashWorker(p)
      BY <2>6 DEF CrashWorker, WorkerStep, Killed, Ends
    <2> QED BY <1>1, <2>1, <2>2, <2>3, <2>4, <2>5, <2>6
  <1>2. CASE StartFails \/ Start \/ Restored \/ Scan \/ StopBroker \/ BeginClose
    BY <1>2 DEF Aside, StartFails, Start, Restored, Scan, StopBroker, BeginClose
  <1>12. CASE CloseWorker
    <2>1. PICK p \in open : LET out == IF Alive(p) THEN Buffered(p) ELSE {} IN
             /\ open' = open \ {p}
             /\ input' = [input EXCEPT ![p] = @ \cup out] /\ flushed' = flushed \cup out
      BY <1>12 DEF CloseWorker
    <2>2. CASE ~Alive(p) \/ Buffered(p) = {}
      <3>1. input' = [input EXCEPT ![p] = @ \cup {}] /\ flushed' = flushed \cup {}
        BY <2>1, <2>2
      <3>2. input' = input /\ flushed' = flushed
        BY <3>1 DEF TypeOK
      <3> QED BY <1>12, <2>1, <3>2 DEF CloseWorker, Aside
    <2>3. ASSUME Alive(p), NEW r \in Buffered(p)
          PROVE  Told(r) /\ r \in Requests
      <3>1. pc[r] = "writing" /\ target[r] = p /\ r \in Requests
        BY <2>3 DEF Buffered
      <3>2. Buffered(p) = {r}
        BY <3>1 DEF Buffered, OneCaller
      <3>3. input' = [input EXCEPT ![p] = @ \cup {r}] /\ flushed' = flushed \cup {r}
        BY <2>1, <2>3, <3>2
      <3> QED BY <1>12, <2>1, <2>3, <3>1, <3>3 DEF CloseWorker, Told, Spilled
    <2> QED BY <2>2, <2>3 DEF RequestStep
  <1>3. ASSUME NEW r \in Calls, FindWorker(r) PROVE G
    <2> DEFINE e == EndpointOf[r]
    <2>1. e \in Endpoints /\ r \in Requests /\ r # Supervisor
      BY BrokerAssumption DEF Requests
    <2>2. CASE End(r, "rejected") /\ UNCHANGED <<saved, backoff, lock, making, procs>>
      BY <1>3, <2>1, <2>2 DEF FindWorker, RequestStep, Denied
    <2>3. CASE HasWorker(e) /\ phase # "closed" /\ pc' = [pc EXCEPT ![r] = "waiting"]
               /\ target' = [target EXCEPT ![r] = slot[e]]
               /\ UNCHANGED <<backoff, lock, making, procs, outcome>>
      BY <1>3, <2>1, <2>3 DEF FindWorker, RequestStep, Found
    <2>4. CASE ~HasWorker(e) /\ phase # "closed" /\ Launch(r, e) /\ pc' = [pc EXCEPT ![r] = "starting"]
               /\ UNCHANGED <<target, outcome>>
      BY <1>3, <2>1, <2>4 DEF FindWorker, Started
    <2>5. CASE ~HasWorker(e) /\ phase # "closed" /\ LaunchFails(e) /\ End(r, "rejected")
      BY <1>3, <2>1, <2>5 DEF FindWorker, LaunchFails, RequestStep, Denied
    <2> QED BY <1>3, <2>2, <2>3, <2>4, <2>5 DEF FindWorker
  <1>4. ASSUME NEW r \in Probes, LookUp(r) PROVE RequestStep
    <2>1. r \in Requests
      BY DEF Requests
    <2>2. CASE HasWorker(EndpointOf[r])
      BY <1>4, <2>1, <2>2 DEF LookUp, RequestStep, Found
    <2>3. CASE ~HasWorker(EndpointOf[r])
      BY <1>4, <2>1, <2>3 DEF LookUp, RequestStep, Denied
    <2> QED BY <2>2, <2>3
  <1>5. ASSUME NEW r \in Probes, GiveWay(r) PROVE RequestStep
    BY <1>5 DEF GiveWay, RequestStep, Denied, Requests
  <1>6. ASSUME NEW r \in Requests, Refuse(r) \/ Receive(r) \/ TimeOut(r) \/ StopReturns(r)
        PROVE  RequestStep
    BY <1>6 DEF Refuse, StopReturns, RequestStep, Denied, Abandoned
  <1>7. ASSUME NEW r \in Requests, Enter(r) PROVE RequestStep
    <2>1. CASE End(r, "rejected")
      BY <1>7, <2>1 DEF Enter, RequestStep, Denied
    <2>2. CASE pc' = [pc EXCEPT ![r] = "writing"] /\ UNCHANGED <<target, outcome>>
      BY <1>7, <2>2 DEF Enter, RequestStep, Writes
    <2> QED BY <1>7, <2>1, <2>2 DEF Enter
  <1>13. ASSUME NEW r \in Requests, Flush(r) PROVE RequestStep
    <2>1. CASE End(r, "rejected") /\ UNCHANGED <<open, input>>
      BY <1>13, <2>1 DEF Flush, RequestStep, Denied
    <2>2. CASE target[r] \in open /\ Alive(target[r]) /\ input' = [input EXCEPT ![target[r]] = @ \cup {r}]
               /\ pc' = [pc EXCEPT ![r] = "calling"] /\ UNCHANGED <<open, target, outcome>>
      BY <1>13, <2>2 DEF Flush, RequestStep, Told, Called
    <2>3. CASE open' = open \ {target[r]} /\ End(r, "unknown") /\ UNCHANGED input
      BY <1>13, <2>3 DEF Flush, RequestStep, Abandoned
    <2> QED BY <1>13, <2>1, <2>2, <2>3 DEF Flush
  <1>8. CASE Closed \/ CrashBroker
    BY <1>8 DEF Closed, CrashBroker
  <1>9. ASSUME NEW e \in Endpoints, Recover(e) PROVE G
    <2>1. CASE UNCHANGED <<backoff, lock, making, procs>>
      BY <1>9, <2>1 DEF Recover, Aside
    <2>2. CASE ~HasWorker(e) /\ Launch(Supervisor, e)
      <3>1. Started(Supervisor, e)
        BY <1>9, <2>2 DEF Recover, Started
      <3> QED BY <3>1
    <2>3. CASE LaunchFails(e)
      BY <1>9, <2>3 DEF Recover, LaunchFails, Aside
    <2> QED BY <1>9, <2>1, <2>2, <2>3 DEF Recover
  <1>10. ASSUME NEW e \in Endpoints, Elapse(e) PROVE Aside
    BY <1>10 DEF Elapse, Aside
  <1>11. CASE UNCHANGED vars
    BY <1>11 DEF vars, Aside
  <1> HIDE DEF broker, procs, threads, workers, slots
  <1> QED
    BY <1>1, <1>2, <1>3, <1>4, <1>5, <1>6, <1>7, <1>8, <1>9, <1>10, <1>11, <1>12, <1>13
    DEF Next

-----------------------------------------------------------------------------
(* Where a command is.                                                      *)

\* What is said of one worker.
PlacesOf(p) ==
    /\ p \notin unheard => Written(p) \/ AtWork(p) \/ Said(p)
    /\ p \in unheard => Over(p)
    /\ state[p] = "dead" => p \in unheard
    /\ state[p] \in {"unused", "starting"} =>
          input[p] = {} /\ job[p] = Nobody /\ (replies[p] = <<>> \/ replies[p] = <<Stopped>>)

\* It depends on nothing else.
LEMMA PlacesFrame ==
    ASSUME NEW p, PlacesOf(p), state'[p] = state[p], input'[p] = input[p], job'[p] = job[p],
           replies'[p] = replies[p], p \in unheard' <=> p \in unheard
    PROVE  PlacesOf(p)'
  BY DEF PlacesOf, Written, AtWork, Said, Over

\* The report of the reader's end is the last line.
LEMMA LastLine ==
    ASSUME TypeOK, NEW p \in Procs, PlacesOf(p), Says(p, Stopped)
    PROVE  /\ Over(p)'
           /\ replies[p] = <<>> \/ replies[p] = <<Stopped>> => replies'[p] = <<>> \/ replies'[p] = <<Stopped>>
           /\ First(p, Ready)' => First(p, Ready)
           /\ \A c \in Requests : First(p, c)' => First(p, c)
  <1>1. CASE p \in unheard
    BY <1>1 DEF PlacesOf, Says, Over, First
  <1>2. CASE p \notin unheard
    <2>1. replies'[p] = Append(replies[p], Stopped)
      BY <1>2 DEF Says, TypeOK
    <2>2. replies[p] = <<>> \/ \E l \in Requests \cup {Ready} : replies[p] = <<l>>
      BY <1>2 DEF PlacesOf, Written, AtWork, Said
    <2>3. CASE replies[p] = <<>>
      <3>1. replies'[p] = <<Stopped>> /\ Head(<<Stopped>>) = Stopped
        BY <2>1, <2>3, ShortQueues
      <3> QED BY <3>1, BrokerAssumption DEF Over, First
    <2>4. ASSUME NEW l \in Requests \cup {Ready}, replies[p] = <<l>>
          PROVE  /\ Over(p)' /\ replies[p] # <<>> /\ replies[p] # <<Stopped>>
                 /\ First(p, Ready)' => First(p, Ready)
                 /\ \A c \in Requests : First(p, c)' => First(p, c)
      <3>0. /\ Append(<<l>>, Stopped) = <<l, Stopped>> /\ Head(<<l, Stopped>>) = l
            /\ Head(<<l>>) = l /\ <<l>> # <<>> /\ Head(<<Stopped>>) = Stopped
        BY ShortQueues
      <3>1. /\ replies'[p] = <<l, Stopped>> /\ Head(replies'[p]) = l /\ Head(replies[p]) = l
            /\ replies[p] # <<>> /\ Head(<<Stopped>>) = Stopped
        BY <2>1, <2>4, <3>0
      <3>2. l # Stopped
        BY BrokerAssumption
      <3> QED BY <2>4, <3>1, <3>2 DEF Over, First
    <2> QED BY <2>2, <2>3, <2>4
  <1> QED BY <1>1, <1>2

\* The first line is taken.
LEMMA FirstTaken ==
    ASSUME TypeOK, NEW p \in Procs, PlacesOf(p), replies[p] # <<>>, replies'[p] = Tail(replies[p]),
           UNCHANGED <<input, job, state, unheard>>
    PROVE  /\ PlacesOf(p)'
           /\ replies'[p] = <<>> \/ replies'[p] = <<Stopped>>
           /\ Head(replies[p]) = Stopped => p \in unheard
           /\ p \notin unheard => input[p] = {} /\ job[p] = Nobody
  <1>1. ASSUME NEW l, replies[p] = <<l>>
        PROVE  replies'[p] = <<>> /\ Head(replies[p]) = l
    BY <1>1, ShortQueues
  <1>2. ASSUME NEW l, replies[p] = <<l, Stopped>>
        PROVE  replies'[p] = <<Stopped>> /\ Head(replies[p]) = l
    BY <1>2, ShortQueues
  <1>3. CASE p \in unheard
    <2>1. replies'[p] = <<>> \/ replies'[p] = <<Stopped>>
      BY <1>1, <1>2, <1>3 DEF PlacesOf, Over
    <2> QED BY <1>3, <2>1 DEF PlacesOf, Over
  <1>4. CASE p \notin unheard
    <2>1. Said(p)
      BY <1>4 DEF PlacesOf, Written, AtWork
    <2>2. PICK l \in Requests \cup {Ready} : replies[p] = <<l>>
      BY <2>1 DEF Said
    <2>3. replies'[p] = <<>> /\ Head(replies[p]) = l /\ l # Stopped
      BY <1>1, <2>2, BrokerAssumption
    <2>4. Said(p)' /\ input[p] = {} /\ job[p] = Nobody
      BY <2>1, <2>3 DEF Said
    <2> QED BY <1>4, <2>3, <2>4 DEF PlacesOf
  <1> QED BY <1>3, <1>4

LEMMA PlacesStep == CallInv /\ [Next]_vars => Places'
  <1> SUFFICES ASSUME CallInv, [Next]_vars, NEW p \in Procs
               PROVE  PlacesOf(p)'
    BY DEF Places, PlacesOf
  <1>0. TypeOK /\ OneCaller /\ PlacesOf(p)
    BY DEF CallInv, Places, PlacesOf
  <1>1. CASE Aside
    BY <1>0, <1>1, PlacesFrame DEF Aside, workers
  <1>2. ASSUME NEW q \in Procs, Ready1(q) PROVE PlacesOf(p)'
    <2>1. CASE p # q
      <3>1. replies'[p] = replies[p] /\ state'[p] = state[p]
        BY <1>0, <1>2, <2>1 DEF Ready1, Says, TypeOK
      <3> QED BY <1>0, <1>2, <3>1, PlacesFrame DEF Ready1
    <2>2. CASE p = q
      <3>1. input[p] = {} /\ job[p] = Nobody /\ (replies[p] = <<>> \/ replies[p] = <<Stopped>>)
        BY <1>0, <1>2, <2>2 DEF Ready1, PlacesOf
      <3>2. input'[p] = {} /\ job'[p] = Nobody /\ state'[p] = "running" /\ unheard' = unheard
        BY <1>0, <1>2, <2>2, <3>1 DEF Ready1, TypeOK
      <3>3. CASE p \in unheard
        BY <1>0, <1>2, <2>2, <3>1, <3>2, <3>3 DEF Ready1, Says, PlacesOf, Over
      <3>4. CASE p \notin unheard
        <4>1. replies[p] = <<>>
          <5>1. ASSUME NEW l \in Requests \cup {Ready}, replies[p] = <<l>>, replies[p] = <<Stopped>>
                PROVE  FALSE
            <6>1. Head(<<l>>) = l /\ Head(<<Stopped>>) = Stopped
              BY ShortQueues
            <6> QED BY <5>1, <6>1, BrokerAssumption
          <5> QED BY <1>0, <3>1, <3>4, <5>1 DEF PlacesOf, Written, AtWork, Said
        <4>2. replies'[p] = <<Ready>>
          BY <1>0, <1>2, <2>2, <3>4, <4>1, ShortQueues DEF Ready1, Says, TypeOK
        <4> QED BY <3>2, <3>4, <4>2 DEF PlacesOf, Said
      <3> QED BY <3>3, <3>4
    <2> QED BY <2>1, <2>2
  <1>3. ASSUME NEW q \in Procs, Killed(q) PROVE PlacesOf(p)'
    <2>1. CASE p # q
      BY <1>0, <1>3, <2>1, PlacesFrame DEF Killed, Ends, Says, TypeOK
    <2>2. CASE p = q
      <3>1. Over(p)'
        BY <1>0, <1>3, <2>2, LastLine DEF Killed, Ends
      <3>2. state'[p] = "dead" /\ p \in unheard'
        BY <1>0, <1>3, <2>2 DEF Killed, Ends, TypeOK
      <3> QED BY <3>1, <3>2 DEF PlacesOf
    <2> QED BY <2>1, <2>2
  <1>4. ASSUME NEW q \in Procs, Garbled(q) PROVE PlacesOf(p)'
    <2>1. CASE p # q
      BY <1>0, <1>4, <2>1, PlacesFrame DEF Garbled, Says, TypeOK
    <2>2. CASE p = q
      <3>1. /\ Over(p)'
            /\ replies[p] = <<>> \/ replies[p] = <<Stopped>> => replies'[p] = <<>> \/ replies'[p] = <<Stopped>>
        BY <1>0, <1>4, <2>2, LastLine DEF Garbled
      <3>2. state' = state /\ input' = input /\ job' = job /\ p \in unheard'
        BY <1>4, <2>2 DEF Garbled
      <3> QED BY <1>0, <3>1, <3>2 DEF PlacesOf
    <2> QED BY <2>1, <2>2
  <1>5. ASSUME NEW q \in Procs, Execute(q) PROVE PlacesOf(p)'
    <2>1. CASE p # q
      BY <1>0, <1>5, <2>1, PlacesFrame DEF Execute, TypeOK
    <2>2. CASE p = q
      <3>1. PICK r \in input[p] : job' = [job EXCEPT ![p] = r] /\ input' = [input EXCEPT ![p] = @ \ {r}]
        BY <1>5, <2>2 DEF Execute
      <3>2. /\ job'[p] = r /\ input'[p] = input[p] \ {r} /\ r \in Requests
            /\ replies' = replies /\ unheard' = unheard /\ state' = state /\ state[p] = "running"
        BY <1>0, <1>5, <2>2, <3>1 DEF Execute, TypeOK
      <3>3. CASE p \in unheard
        BY <1>0, <3>2, <3>3 DEF PlacesOf, Over
      <3>4. CASE p \notin unheard
        <4>1. Written(p)
          BY <1>0, <3>1, <3>4 DEF PlacesOf, AtWork, Said
        <4>2. AtWork(p)'
          BY <3>1, <3>2, <4>1, BrokerAssumption DEF Written, AtWork
        <4> QED BY <3>2, <3>4, <4>2 DEF PlacesOf
      <3> QED BY <3>3, <3>4
    <2> QED BY <2>1, <2>2
  <1>6. ASSUME NEW q \in Procs, Reply(q) PROVE PlacesOf(p)'
    <2>1. CASE p # q
      <3>1. replies'[p] = replies[p]
        BY <1>0, <1>6, <2>1 DEF Reply, Says, TypeOK
      <3> QED BY <1>0, <1>6, <2>1, <3>1, PlacesFrame DEF Reply, TypeOK
    <2>2. CASE p = q
      <3>1. /\ job[p] \in Requests /\ job'[p] = Nobody /\ input' = input /\ unheard' = unheard
            /\ state' = state /\ state[p] = "running"
        BY <1>0, <1>6, <2>2 DEF Reply, TypeOK
      <3>2. CASE p \in unheard
        <4>1. replies' = replies
          BY <1>6, <2>2, <3>2 DEF Reply, Says
        <4> QED BY <1>0, <3>1, <3>2, <4>1 DEF PlacesOf, Over
      <3>3. CASE p \notin unheard
        <4>1. AtWork(p)
          BY <1>0, <3>1, <3>3, BrokerAssumption DEF PlacesOf, Written, Said
        <4>2. replies'[p] = <<job[p]>>
          BY <1>0, <1>6, <2>2, <3>3, <4>1, ShortQueues DEF Reply, Says, TypeOK, AtWork
        <4>3. Said(p)'
          BY <3>1, <4>1, <4>2 DEF AtWork, Said
        <4> QED BY <3>1, <3>3, <4>3 DEF PlacesOf
      <3> QED BY <3>2, <3>3
    <2> QED BY <2>1, <2>2
  <1>7. CASE StartSucceeds
    <2>1. CASE p # making
      BY <1>0, <1>7, <2>1, PlacesFrame DEF StartSucceeds, TypeOK
    <2>2. CASE p = making
      <3>1. /\ replies'[p] = Tail(replies[p]) /\ replies[p] # <<>> /\ Head(replies[p]) = Ready
            /\ UNCHANGED <<input, job, state, unheard>>
        BY <1>0, <1>7, <2>2 DEF StartSucceeds, TypeOK
      <3> QED BY <1>0, <3>1, FirstTaken
    <2> QED BY <2>1, <2>2
  <1>8. ASSUME NEW r \in Requests, Told(r) PROVE PlacesOf(p)'
    <2>1. CASE p # target[r]
      BY <1>0, <1>8, <2>1, PlacesFrame DEF Told, TypeOK
    <2>2. CASE p = target[r]
      <3>1. /\ input'[p] = input[p] \cup {r}
            /\ job' = job /\ replies' = replies /\ unheard' = unheard /\ state' = state
        BY <1>0, <1>8, <2>2 DEF Told, TypeOK
      <3>2. Settled(p)
        BY <1>8, <2>2, BrokerAssumption DEF CallInv, Made, Told
      <3>3. CASE p \in unheard
        BY <1>0, <3>1, <3>2, <3>3 DEF PlacesOf, Over, Settled
      <3>4. CASE p \notin unheard
        <4>1. \A c \in Requests : ~Pending(c, p)
          BY <1>8, <2>2 DEF CallInv, Own, Told, Calling, OneCaller
        <4>2. input[p] = {} /\ job[p] = Nobody /\ replies[p] = <<>>
          <5>1. ~Written(p)
            BY <3>4, <4>1 DEF Written, Pending
          <5>2. ~AtWork(p)
            BY <1>0, <3>4, <4>1 DEF AtWork, Pending, TypeOK
          <5>3. ASSUME NEW l \in Requests \cup {Ready}, replies[p] = <<l>>
                PROVE  FALSE
            <6>1. First(p, l)
              BY <5>3, ShortQueues DEF First
            <6> QED BY <3>2, <4>1, <6>1 DEF Settled, Pending
          <5>4. Said(p)
            BY <1>0, <3>4, <5>1, <5>2 DEF PlacesOf
          <5> QED BY <5>3, <5>4 DEF Said
        <4>3. Written(p)'
          BY <3>1, <4>2 DEF Written
        <4> QED BY <1>0, <3>1, <3>2, <3>4, <4>3 DEF PlacesOf, Settled
      <3> QED BY <3>3, <3>4
    <2> QED BY <2>1, <2>2
  <1>9. ASSUME NEW r \in Requests, Receive(r) PROVE PlacesOf(p)'
    <2>1. CASE p # target[r]
      BY <1>0, <1>9, <2>1, PlacesFrame DEF Receive, TypeOK
    <2>2. CASE p = target[r]
      <3>1. /\ replies'[p] = Tail(replies[p]) /\ replies[p] # <<>>
            /\ UNCHANGED <<input, job, state, unheard>>
        BY <1>0, <1>9, <2>2 DEF Receive, TypeOK
      <3> QED BY <1>0, <3>1, FirstTaken
    <2> QED BY <2>1, <2>2
  <1>10. ASSUME NEW r \in Requests, Found(r) \/ Denied(r) \/ Abandoned(r) \/ Writes(r) \/ TimeOut(r)
         PROVE  PlacesOf(p)'
    BY <1>0, <1>10, PlacesFrame DEF Found, Denied, Abandoned, Writes, TimeOut, workers
  <1>11. CASE StartGivenUp
    BY <1>0, <1>11, PlacesFrame DEF StartGivenUp, procs
  <1>12. CASE Vanish
    <2>1. replies'[p] = <<>> /\ input' = input /\ job' = job /\ state' = state
      BY <1>12 DEF Vanish
    <2>2. p \in unheard' <=> state[p] # "unused"
      BY <1>12 DEF Vanish
    <2> QED BY <1>0, <2>1, <2>2 DEF PlacesOf, Over, Said
  <1>13. ASSUME NEW e \in Endpoints, NEW h \in Calls \cup {Supervisor}, Started(h, e)
         PROVE  PlacesOf(p)'
    <2>1. NewProc \in Procs /\ state[NewProc] = "unused"
      BY <1>13, NewProcess DEF Started, Launch
    <2>2. /\ input' = input /\ job' = job /\ replies' = replies /\ unheard' = unheard
          /\ state' = [state EXCEPT ![NewProc] = "starting"]
      BY <1>13 DEF Started, Launch
    <2>3. CASE p # NewProc
      BY <1>0, <2>1, <2>2, <2>3, PlacesFrame DEF TypeOK
    <2>4. CASE p = NewProc
      <3>1. state'[p] = "starting"
        BY <1>0, <2>1, <2>2, <2>4 DEF TypeOK
      <3> QED BY <1>0, <2>1, <2>2, <2>4, <3>1 DEF PlacesOf, Written, AtWork, Said, Over
    <2> QED BY <2>3, <2>4
  <1> QED
    BY <1>0, <1>1, <1>2, <1>3, <1>4, <1>5, <1>6, <1>7, <1>8, <1>9, <1>10, <1>11, <1>12, <1>13, Steps
    DEF WorkerStep, RequestStep

-----------------------------------------------------------------------------
(* Workers whose start succeeded.                                           *)

\* Once a worker is settled it stays so: only a start sends the first line.
LEMMA SettledStays ==
    ASSUME CallInv, [Next]_vars, NEW p \in Procs, Settled(p)
    PROVE  Settled(p)'
  <1>0. TypeOK /\ OneCaller /\ PlacesOf(p) /\ state[p] \in {"running", "dead"} /\ ~First(p, Ready)
    BY DEF CallInv, Places, PlacesOf, Settled
  <1>1. CASE Aside
    BY <1>0, <1>1 DEF Aside, workers, Settled, First
  <1>2. ASSUME NEW q \in Procs, Ready1(q) PROVE Settled(p)'
    <2>1. p # q
      BY <1>0, <1>2 DEF Ready1
    <2> QED BY <1>0, <1>2, <2>1 DEF Ready1, Says, TypeOK, Settled, First
  <1>3. ASSUME NEW q \in Procs, Killed(q) \/ Garbled(q) PROVE Settled(p)'
    <2>1. state'[p] \in {"running", "dead"} /\ Says(q, Stopped)
      BY <1>0, <1>3 DEF Killed, Ends, Garbled, TypeOK
    <2>2. CASE p # q
      BY <1>0, <2>1, <2>2 DEF Says, TypeOK, Settled, First
    <2>3. CASE p = q
      BY <1>0, <2>1, <2>3, LastLine DEF Settled
    <2> QED BY <2>2, <2>3
  <1>4. ASSUME NEW q \in Procs, Execute(q) PROVE Settled(p)'
    BY <1>0, <1>4 DEF Execute, Settled, First
  <1>5. ASSUME NEW q \in Procs, Reply(q) PROVE Settled(p)'
    <2>1. CASE p # q \/ q \in unheard
      BY <1>0, <1>5, <2>1 DEF Reply, Says, TypeOK, Settled, First
    <2>2. CASE p = q /\ q \notin unheard
      <3>1. AtWork(p) /\ job[p] \in Requests
        BY <1>0, <1>5, <2>2, BrokerAssumption DEF PlacesOf, Written, Said, Reply, TypeOK
      <3>2. replies'[p] = <<job[p]>>
        BY <1>0, <1>5, <2>2, <3>1, ShortQueues DEF Reply, Says, TypeOK, AtWork
      <3>3. Head(replies'[p]) # Ready
        BY <3>1, <3>2, ShortQueues, BrokerAssumption
      <3> QED BY <1>0, <1>5, <3>3 DEF Reply, Settled, First
    <2> QED BY <2>1, <2>2
  <1>6. ASSUME NEW q \in Procs, q = p => replies'[p] = Tail(replies[p]), replies[q] # <<>>,
               q # p => replies'[p] = replies[p], UNCHANGED <<input, job, state, unheard>>
        PROVE  Settled(p)'
    <2>1. CASE q # p
      BY <1>0, <1>6, <2>1 DEF Settled, First
    <2>2. CASE q = p
      <3>1. replies'[p] = <<>> \/ replies'[p] = <<Stopped>>
        BY <1>0, <1>6, <2>2, FirstTaken
      <3>2. Head(<<Stopped>>) # Ready
        BY ShortQueues, BrokerAssumption
      <3> QED BY <1>0, <1>6, <3>1, <3>2 DEF Settled, First
    <2> QED BY <2>1, <2>2
  <1>7. CASE StartSucceeds
    <2>1. making \in Procs /\ replies[making] # <<>>
      BY <1>0, <1>7 DEF StartSucceeds, TypeOK
    <2>2. /\ making = p => replies'[p] = Tail(replies[p])
          /\ making # p => replies'[p] = replies[p]
          /\ UNCHANGED <<input, job, state, unheard>>
      BY <1>0, <1>7 DEF StartSucceeds, TypeOK
    <2> QED BY <1>6, <2>1, <2>2
  <1>8. ASSUME NEW r \in Requests, Receive(r) PROVE Settled(p)'
    <2>1. target[r] \in Procs /\ replies[target[r]] # <<>>
      BY <1>0, <1>8 DEF Receive, TypeOK, CallInv, Made
    <2>2. /\ target[r] = p => replies'[p] = Tail(replies[p])
          /\ target[r] # p => replies'[p] = replies[p]
          /\ UNCHANGED <<input, job, state, unheard>>
      BY <1>0, <1>8 DEF Receive, TypeOK
    <2> QED BY <1>6, <2>1, <2>2
  <1>9. ASSUME NEW r \in Requests,
               Found(r) \/ Denied(r) \/ Abandoned(r) \/ Writes(r) \/ Told(r) \/ TimeOut(r)
        PROVE  Settled(p)'
    BY <1>0, <1>9 DEF Found, Denied, Abandoned, Writes, Told, TimeOut, workers, Settled, First
  <1>10. CASE StartGivenUp
    BY <1>0, <1>10 DEF StartGivenUp, procs, Settled, First
  <1>11. CASE Vanish
    BY <1>0, <1>11 DEF Vanish, Settled, First
  <1>12. ASSUME NEW e \in Endpoints, NEW h \in Calls \cup {Supervisor}, Started(h, e)
         PROVE  Settled(p)'
    <2>1. NewProc # p
      BY <1>0, <1>12, NewProcess DEF Started, Launch
    <2> QED BY <1>0, <1>12, <2>1 DEF Started, Launch, TypeOK, Settled, First
  <1> QED
    BY <1>0, <1>1, <1>2, <1>3, <1>4, <1>5, <1>7, <1>8, <1>9, <1>10, <1>11, <1>12, Steps
    DEF WorkerStep, RequestStep

\* A worker that sent its first line is settled when that is taken.
LEMMA SettlesNow ==
    ASSUME CallInv, StartSucceeds, NEW p, p = making
    PROVE  p \in Procs /\ Settled(p)'
  <1>1. /\ p \in Procs /\ TypeOK /\ PlacesOf(p) /\ replies[p] # <<>>
        /\ Head(replies[p]) = Ready
    BY DEF CallInv, Places, PlacesOf, StartSucceeds, TypeOK
  <1>2. replies'[p] = Tail(replies[p]) /\ UNCHANGED <<input, job, state, unheard>>
    BY <1>1 DEF StartSucceeds, TypeOK
  <1>3. replies'[p] = <<>> \/ replies'[p] = <<Stopped>>
    BY <1>1, <1>2, FirstTaken
  <1>4. Head(<<Stopped>>) = Stopped /\ Stopped # Ready
    BY ShortQueues, BrokerAssumption
  <1>5. state[p] \in {"running", "dead"}
    BY <1>1, <1>4 DEF PlacesOf, TypeOK
  <1> QED BY <1>1, <1>2, <1>3, <1>4, <1>5 DEF Settled, First

\* What the end of a start does to the table and to the request that waited for it.
LEMMA ResumeEffect ==
    ASSUME TypeOK, Starting, StartSucceeds \/ StartGivenUp
    PROVE  /\ lock \in Calls \cup {Supervisor} /\ lock' = Nobody /\ making' = NoProc
           /\ lock = Supervisor => UNCHANGED <<pc, target, outcome>>
           /\ lock # Supervisor => lock \in Requests /\ pc[lock] = "starting"
           /\ lock # Supervisor /\ StartSucceeds =>
                 /\ pc' = [pc EXCEPT ![lock] = "waiting"]
                 /\ target' = [target EXCEPT ![lock] = making] /\ outcome' = outcome
           /\ lock # Supervisor /\ StartGivenUp => End(lock, "rejected")
  <1>1. making # NoProc /\ lock \in Calls \cup {Supervisor}
    BY DEF StartSucceeds, StartGivenUp, Starting, TypeOK
  <1>2. lock' = Nobody /\ making' = NoProc
    BY DEF StartSucceeds, StartGivenUp, Resume
  <1>3. lock = Supervisor => UNCHANGED <<pc, target, outcome>>
    BY DEF StartSucceeds, StartGivenUp, Resume
  <1>4. lock # Supervisor => lock \in Requests /\ pc[lock] = "starting"
    BY <1>1 DEF Starting, Requests
  <1>5. lock # Supervisor /\ StartSucceeds =>
           /\ pc' = [pc EXCEPT ![lock] = "waiting"]
           /\ target' = [target EXCEPT ![lock] = making] /\ outcome' = outcome
    BY DEF StartSucceeds, Resume
  <1>6. lock # Supervisor /\ StartGivenUp => End(lock, "rejected")
    BY DEF StartGivenUp, Resume
  <1> QED BY <1>1, <1>2, <1>3, <1>4, <1>5, <1>6

\* The home of a process is set when it is started.
LEMMA HomeStays ==
    ASSUME TypeOK, OneCaller, [Next]_vars, NEW p \in Procs, state[p] # "unused"
    PROVE  home'[p] = home[p] /\ state'[p] # "unused" /\ (Alive(p)' => Alive(p))
  <1> USE DEF Alive
  <1>1. CASE Aside \/ RequestStep
    BY <1>1 DEF Aside, RequestStep, Found, Denied, Abandoned, Writes, Told, Receive, TimeOut, workers
  <1>2. CASE WorkerStep
    <2> PICK q \in Procs : Ready1(q) \/ Killed(q) \/ Garbled(q) \/ Execute(q) \/ Reply(q)
      BY <1>2 DEF WorkerStep
    <2> QED BY DEF TypeOK, Ready1, Killed, Ends, Garbled, Execute, Reply
  <1>3. CASE StartSucceeds \/ StartGivenUp \/ Vanish
    BY <1>3 DEF StartSucceeds, StartGivenUp, Vanish, procs
  <1>4. ASSUME NEW e \in Endpoints, NEW h \in Calls \cup {Supervisor}, Started(h, e)
        PROVE  home'[p] = home[p] /\ state'[p] = state[p]
    <2>1. NewProc # p
      BY <1>4, NewProcess DEF Started, Launch
    <2> QED BY <1>4, <2>1 DEF Started, Launch, TypeOK
  <1> QED BY <1>1, <1>2, <1>3, <1>4, Steps

LEMMA MadeStep == CallInv /\ [Next]_vars => Made'
  <1> SUFFICES ASSUME CallInv, [Next]_vars
               PROVE  Made'
    OBVIOUS
  <1>0. TypeOK /\ OneCaller /\ Starting /\ Made
    BY DEF CallInv
  <1>1. \A p \in Procs : Settled(p) => Settled(p)' /\ home'[p] = home[p]
    BY <1>0, SettledStays, HomeStays DEF Settled
  <1>2. ASSUME NEW e \in Endpoints, NEW p \in Procs, slot'[e] = p
        PROVE  Settled(p)' /\ home'[p] = e
    <2>1. CASE slot'[e] = slot[e]
      <3>1. p # NoProc
        BY BrokerAssumption
      <3> QED BY <1>0, <1>1, <1>2, <2>1, <3>1 DEF Made
    <2>2. CASE StartSucceeds /\ slot'[e] # slot[e]
      <3>1. p = making /\ home[p] = e /\ home' = home
        BY <1>0, <1>2, <2>2 DEF StartSucceeds, TypeOK
      <3> QED BY <2>2, <3>1, SettlesNow
    <2>3. slot' = slot \/ slot'[e] = NoProc \/ StartSucceeds
      <3>1. CASE Vanish
        BY <3>1 DEF Vanish
      <3>2. CASE ~Vanish /\ ~StartSucceeds
        BY <1>0, <3>2, Steps DEF Aside, WorkerStep, RequestStep, Found, Denied, Abandoned, Writes, Told, Receive,
           TimeOut, StartGivenUp, Started, slots, broker
      <3> QED BY <3>1, <3>2
    <2>4. slot'[e] # NoProc
      BY <1>2, BrokerAssumption
    <2> QED BY <2>1, <2>2, <2>3, <2>4
  <1> DEFINE Target(r) ==
               /\ \A p \in Procs : target'[r] = p => Settled(p)'
               /\ pc'[r] \in {"waiting", "writing", "calling", "stopping"} => target'[r] # NoProc
  <1>3. ASSUME NEW r \in Requests
        PROVE  Target(r)
    <2>0. NoProc \notin Procs
      BY BrokerAssumption
    <2>1. CASE pc'[r] = pc[r] /\ target'[r] = target[r]
      BY <1>0, <1>1, <2>0, <2>1 DEF Made
    <2>2. ASSUME NEW c \in Requests, NEW how, End(c, how) PROVE Target(r)
      BY <1>0, <2>0, <2>1, <2>2 DEF End, TypeOK
    <2>3. ASSUME NEW c \in Requests, Found(c) PROVE Target(r)
      <3>1. CASE r # c
        BY <1>0, <2>1, <2>3, <3>1 DEF Found, TypeOK
      <3>2. CASE r = c
        <4>1. EndpointOf[c] \in Endpoints /\ slot[EndpointOf[c]] # NoProc
          BY <2>3, BrokerAssumption DEF Found, HasWorker
        <4>2. slot[EndpointOf[c]] \in Procs /\ Settled(slot[EndpointOf[c]])
          BY <1>0, <4>1 DEF Made, TypeOK
        <4>3. target'[r] = slot[EndpointOf[c]]
          BY <1>0, <2>3, <3>2 DEF Found, TypeOK
        <4> QED BY <1>1, <2>0, <4>2, <4>3
      <3> QED BY <3>1, <3>2
    <2>4. ASSUME NEW c \in Requests, Writes(c) \/ Told(c) \/ TimeOut(c) PROVE Target(r)
      <3>1. target' = target /\ (pc'[r] = pc[r] \/ pc[r] \in {"waiting", "writing", "calling"})
        BY <1>0, <2>4 DEF Writes, Told, Called, Spilled, TimeOut, TypeOK
      <3> QED BY <1>0, <1>1, <2>0, <3>1 DEF Made
    <2>5. ASSUME NEW c \in Requests, Denied(c) \/ Abandoned(c) \/ Receive(c) PROVE Target(r)
      BY <2>2, <2>5 DEF Denied, Abandoned, Receive
    <2>6. CASE StartSucceeds
      <3>1. CASE lock = Supervisor \/ lock # r
        BY <1>0, <2>1, <2>6, <3>1, ResumeEffect DEF TypeOK
      <3>2. CASE lock # Supervisor /\ lock = r
        <4>1. target'[r] = making
          BY <1>0, <2>6, <3>2, ResumeEffect DEF TypeOK
        <4> QED BY <2>0, <2>6, <4>1, SettlesNow
      <3> QED BY <3>1, <3>2
    <2>7. CASE StartGivenUp
      BY <1>0, <2>1, <2>2, <2>7, ResumeEffect
    <2>8. CASE Vanish
      BY <2>0, <2>8 DEF Vanish
    <2>9. ASSUME NEW e \in Endpoints, NEW h \in Calls \cup {Supervisor}, Started(h, e) PROVE Target(r)
      <3>1. target' = target /\ (pc'[r] = pc[r] \/ pc'[r] = "starting")
        BY <1>0, <2>9 DEF Started, TypeOK
      <3> QED BY <1>0, <1>1, <2>0, <3>1 DEF Made
    <2>10. CASE Aside \/ WorkerStep
      BY <2>1, <2>10 DEF Aside, WorkerStep, threads
    <2> HIDE DEF Target
    <2> QED BY <1>0, <2>3, <2>4, <2>5, <2>6, <2>7, <2>8, <2>9, <2>10, Steps DEF RequestStep
  <1>4. TypeOK'
    BY TypeStep
  <1>5. ASSUME NEW e \in Endpoints
        PROVE  (slot[e] # NoProc => Settled(slot[e]) /\ home[slot[e]] = e)'
    BY <1>2, <1>4 DEF TypeOK
  <1>6. ASSUME NEW r \in Requests
        PROVE  /\ (target[r] # NoProc => Settled(target[r]))'
               /\ (pc[r] \in {"waiting", "writing", "calling", "stopping"} => target[r] # NoProc)'
    BY <1>3, <1>4 DEF TypeOK
  <1> QED BY <1>5, <1>6 DEF Made

-----------------------------------------------------------------------------
(* Executions and answers.                                                   *)

\* A first line that names a request was there before, or is the reply of a worker that
\* is heard.
LEMMA FirstStep ==
    ASSUME CallInv, [Next]_vars, NEW p \in Procs, NEW c \in Requests, First(p, c)'
    PROVE  First(p, c) \/ (p \notin unheard /\ job[p] = c /\ Reply(p))
  <1> DEFINE G == First(p, c) \/ (p \notin unheard /\ job[p] = c /\ Reply(p))
  <1>0. TypeOK /\ OneCaller /\ PlacesOf(p) /\ c # Ready /\ c # Stopped
    BY BrokerAssumption DEF CallInv, Places, PlacesOf
  <1>1. CASE replies'[p] = replies[p]
    BY <1>1 DEF First
  <1>2. ASSUME NEW q \in Procs, Ready1(q), replies'[p] # replies[p] PROVE FALSE
    <2>1. p = q /\ p \notin unheard /\ state[p] = "starting" /\ replies'[p] = Append(replies[p], Ready)
      BY <1>0, <1>2 DEF Ready1, Says, TypeOK
    <2>2. replies[p] = <<>> \/ replies[p] = <<Stopped>>
      BY <1>0, <2>1 DEF PlacesOf
    <2>3. Head(Append(<<>>, Ready)) = Ready /\ Head(Append(<<Stopped>>, Ready)) = Stopped
      BY ShortQueues
    <2> QED BY <1>0, <2>1, <2>2, <2>3 DEF First
  <1>3. ASSUME NEW q \in Procs, Killed(q) \/ Garbled(q), replies'[p] # replies[p] PROVE G
    <2>1. p = q /\ Says(p, Stopped)
      BY <1>0, <1>3 DEF Killed, Ends, Garbled, Says, TypeOK
    <2> QED BY <1>0, <2>1, LastLine
  <1>4. ASSUME NEW q \in Procs, Reply(q), replies'[p] # replies[p] PROVE G
    <2>1. p = q /\ p \notin unheard /\ replies'[p] = Append(replies[p], job[p]) /\ job[p] \in Requests
      BY <1>0, <1>4 DEF Reply, Says, TypeOK
    <2>2. AtWork(p)
      BY <1>0, <2>1, BrokerAssumption DEF PlacesOf, Written, Said
    <2>3. replies'[p] = <<job[p]>> /\ Head(<<job[p]>>) = job[p]
      BY <2>1, <2>2, ShortQueues DEF AtWork
    <2> QED BY <1>4, <2>1, <2>3 DEF First
  <1>5. ASSUME replies'[p] = Tail(replies[p]), replies[p] # <<>>, UNCHANGED <<input, job, state, unheard>>
        PROVE  FALSE
    <2>1. replies'[p] = <<>> \/ replies'[p] = <<Stopped>>
      BY <1>0, <1>5, FirstTaken
    <2>2. Head(<<Stopped>>) = Stopped
      BY ShortQueues
    <2> QED BY <1>0, <2>1, <2>2 DEF First
  <1>6. CASE StartSucceeds
    <2>1. CASE p = making
      BY <1>0, <1>5, <1>6, <2>1 DEF StartSucceeds, TypeOK
    <2>2. CASE p # making
      BY <1>0, <1>1, <1>6, <2>2 DEF StartSucceeds, TypeOK
    <2> QED BY <2>1, <2>2
  <1>7. ASSUME NEW r \in Requests, Receive(r) PROVE G
    <2>1. CASE p = target[r]
      BY <1>0, <1>5, <1>7, <2>1 DEF Receive, TypeOK
    <2>2. CASE p # target[r]
      BY <1>0, <1>1, <1>7, <2>2 DEF Receive, TypeOK
    <2> QED BY <2>1, <2>2
  <1>8. CASE Vanish
    BY <1>8 DEF Vanish, First
  <1>9. CASE \/ Aside \/ StartGivenUp
             \/ \E r \in Requests : Found(r) \/ Denied(r) \/ Abandoned(r) \/ Writes(r) \/ Told(r) \/ TimeOut(r)
             \/ \E e \in Endpoints, h \in Calls \cup {Supervisor} : Started(h, e)
             \/ \E q \in Procs : Execute(q)
    BY <1>1, <1>9 DEF Aside, StartGivenUp, Found, Denied, Abandoned, Writes, Told, TimeOut, Started, Launch,
       Execute, workers, procs
  <1> HIDE DEF G
  <1>10. G
    BY <1>0, <1>1, <1>2, <1>3, <1>4, <1>6, <1>7, <1>8, <1>9, Steps DEF WorkerStep, RequestStep, G
  <1> QED BY <1>10 DEF G

\* What is in a pipe or at work after a step.
LEMMA CommandStep ==
    ASSUME TypeOK, OneCaller, [Next]_vars, NEW p \in Procs, NEW c \in Requests
    PROVE  /\ c \in input'[p] => c \in input[p] \/ (Told(c) /\ p = target[c])
           /\ job'[p] = c => job[p] = c \/ (Execute(p) /\ c \in input[p] /\ ran' = [ran EXCEPT ![c] = @ + 1])
  <1> DEFINE G == /\ c \in input'[p] => c \in input[p] \/ (Told(c) /\ p = target[c])
                  /\ job'[p] = c => \/ job[p] = c
                                    \/ Execute(p) /\ c \in input[p] /\ ran' = [ran EXCEPT ![c] = @ + 1]
  <1>0. c # Nobody
    BY BrokerAssumption
  <1>1. CASE UNCHANGED <<input, job>>
    BY <1>1
  <1>2. ASSUME NEW q \in Procs, Ready1(q) \/ Garbled(q) PROVE G
    BY <1>1, <1>2 DEF Ready1, Garbled
  <1>3. ASSUME NEW q \in Procs, Killed(q) PROVE G
    BY <1>0, <1>3 DEF Killed, Ends, TypeOK
  <1>4. ASSUME NEW q \in Procs, Execute(q) PROVE G
    <2>1. PICK r \in input[q] : /\ job' = [job EXCEPT ![q] = r] /\ input' = [input EXCEPT ![q] = @ \ {r}]
                                /\ ran' = [ran EXCEPT ![r] = @ + 1]
      BY <1>4 DEF Execute
    <2>2. CASE q # p
      BY <2>1, <2>2 DEF TypeOK
    <2>3. CASE q = p
      BY <1>4, <2>1, <2>3 DEF TypeOK
    <2> QED BY <2>2, <2>3
  <1>5. ASSUME NEW q \in Procs, Reply(q) PROVE G
    BY <1>0, <1>5 DEF Reply, TypeOK
  <1>6. ASSUME NEW r \in Requests, Told(r) PROVE G
    BY <1>6 DEF Told, TypeOK
  <1>7. CASE Aside \/ StartGivenUp \/ StartSucceeds \/ Vanish
    BY <1>1, <1>7 DEF Aside, StartGivenUp, StartSucceeds, Vanish, workers, procs
  <1>8. ASSUME NEW r \in Requests, Found(r) \/ Denied(r) \/ Abandoned(r) \/ Writes(r) \/ Receive(r) \/ TimeOut(r)
        PROVE  G
    BY <1>1, <1>8 DEF Found, Denied, Abandoned, Writes, Receive, TimeOut, workers
  <1>9. ASSUME NEW e \in Endpoints, NEW h \in Calls \cup {Supervisor}, Started(h, e) PROVE G
    BY <1>1, <1>9 DEF Started, Launch
  <1> HIDE DEF G
  <1>10. G
    BY <1>2, <1>3, <1>4, <1>5, <1>6, <1>7, <1>8, <1>9, Steps DEF WorkerStep, RequestStep, G
  <1> QED BY <1>10 DEF G

\* Only an execution is counted.
LEMMA RanStep ==
    ASSUME TypeOK, OneCaller, [Next]_vars
    PROVE  \/ ran' = ran
           \/ \E p \in Procs : Execute(p) /\ \E c \in input[p] : ran' = [ran EXCEPT ![c] = @ + 1]
  <1>1. CASE WorkerStep
    BY <1>1 DEF WorkerStep, Ready1, Killed, Garbled, Execute, Reply, threads
  <1>2. CASE ~WorkerStep
    BY <1>2, Steps DEF Aside, StartGivenUp, StartSucceeds, Vanish, RequestStep, Found, Denied, Abandoned, Writes,
       Told, Receive, TimeOut, Started, threads
  <1> QED BY <1>1, <1>2

LEMMA ExecutionsStep == CallInv /\ [Next]_vars => Executions'
  <1> SUFFICES ASSUME CallInv, [Next]_vars, NEW r \in Requests
               PROVE  /\ ran'[r] <= 1
                      /\ \A p \in Procs :
                            /\ r \in input'[p] => ran'[r] = 0 /\ \A q \in Procs : r \in input'[q] => q = p
                            /\ job'[p] = r \/ First(p, r)' => ran'[r] = 1
    BY DEF Executions
  <1>0. TypeOK /\ OneCaller /\ Executions /\ Untold /\ ran[r] \in Nat
    BY DEF CallInv, TypeOK
  <1>1. ASSUME ran'[r] # ran[r]
        PROVE  /\ ran'[r] = 1 /\ \A q \in Procs : r \notin input'[q]
    <2>1. PICK p \in Procs : Execute(p) /\ \E c \in input[p] : ran' = [ran EXCEPT ![c] = @ + 1]
      BY <1>0, <1>1, RanStep
    <2>2. r \in input[p] /\ ran' = [ran EXCEPT ![r] = @ + 1]
      BY <1>0, <1>1, <2>1 DEF TypeOK
    <2>3. ran[r] = 0 /\ \A q \in Procs : r \in input[q] => q = p
      BY <1>0, <2>2 DEF Executions
    <2>4. ran'[r] = 1
      BY <1>0, <2>2, <2>3 DEF TypeOK
    <2>5. PICK c \in input[p] : input' = [input EXCEPT ![p] = @ \ {c}] /\ ran' = [ran EXCEPT ![c] = @ + 1]
      BY <2>1 DEF Execute
    <2>6. c = r
      BY <1>0, <1>1, <2>5 DEF TypeOK
    <2>7. \A q \in Procs : r \notin input'[q]
      BY <1>0, <2>3, <2>5, <2>6 DEF TypeOK
    <2> QED BY <2>4, <2>7
  <1>2. ran'[r] <= 1
    BY <1>0, <1>1 DEF Executions
  <1>3. ASSUME NEW p \in Procs, r \in input'[p]
        PROVE  ran'[r] = 0 /\ \A q \in Procs : r \in input'[q] => q = p
    <2>1. ran'[r] = ran[r]
      BY <1>1, <1>3
    <2>2. CASE Told(r)
      <3>1. ran[r] = 0 /\ \A q \in Procs : r \notin input[q]
        BY <1>0, <2>2 DEF Told, Untold, Kept
      <3>2. \A q \in Procs : r \in input'[q] => q = target[r]
        BY <1>0, <3>1, CommandStep
      <3> QED BY <1>3, <2>1, <3>1, <3>2
    <2>3. CASE ~Told(r)
      <3>1. \A q \in Procs : r \in input'[q] => r \in input[q]
        BY <1>0, <2>3, CommandStep
      <3> QED BY <1>0, <1>3, <2>1, <3>1 DEF Executions
    <2> QED BY <2>2, <2>3
  <1>4. ASSUME NEW p \in Procs, job'[p] = r \/ First(p, r)'
        PROVE  ran'[r] = 1
    <2>1. CASE job[p] = r \/ First(p, r)
      <3>1. ran[r] = 1
        BY <1>0, <2>1 DEF Executions
      <3> QED BY <1>1, <3>1
    <2>2. CASE ~(job[p] = r \/ First(p, r))
      <3>1. job'[p] = r
        BY <1>4, <2>2, FirstStep
      <3>2. r \in input[p] /\ ran' = [ran EXCEPT ![r] = @ + 1]
        BY <1>0, <2>2, <3>1, CommandStep
      <3>3. ran[r] = 0
        BY <1>0, <3>2 DEF Executions
      <3> QED BY <1>0, <3>2, <3>3 DEF TypeOK
    <2> QED BY <2>1, <2>2
  <1> QED BY <1>2, <1>3, <1>4

-----------------------------------------------------------------------------
(* The thread of a request.                                                  *)

\* What a step does to the thread of r: nothing, its next step, or its end.
Stays(r) == pc'[r] = pc[r] /\ outcome'[r] = outcome[r] /\ target'[r] \in {target[r], NoProc}
Finds(r) == pc[r] \in {"new", "starting"} /\ pc'[r] = "waiting" /\ outcome'[r] = outcome[r]
Waits(r) == pc[r] = "new" /\ pc'[r] = "starting" /\ outcome'[r] = outcome[r]
Finishes(r) ==
    /\ pc'[r] = "done" /\ outcome'[r] \in {"answered", "unknown", "rejected", "busy"}
    /\ outcome'[r] = "busy" => pc[r] = "waiting"
    /\ outcome'[r] = "rejected" => pc[r] \in {"new", "starting", "waiting", "writing"}
    /\ outcome'[r] = "answered" => Receive(r)
    /\ pc[r] = "calling" => Receive(r) \/ Vanish

LEMMA ThreadStep ==
    ASSUME TypeOK, OneCaller, Starting, [Next]_vars, NEW r \in Requests
    PROVE  Stays(r) \/ Finds(r) \/ Waits(r) \/ Writes(r) \/ Told(r) \/ TimeOut(r) \/ Finishes(r)
  <1> DEFINE G == Stays(r) \/ Finds(r) \/ Waits(r) \/ Writes(r) \/ Told(r) \/ TimeOut(r) \/ Finishes(r)
  <1>1. CASE Aside \/ WorkerStep
    BY <1>1 DEF Aside, WorkerStep, threads, Stays
  <1>2. ASSUME NEW c \in Requests, Found(c) PROVE G
    BY <1>2 DEF TypeOK, Found, Stays, Finds
  <1>3. ASSUME NEW c \in Requests, NEW how, End(c, how), c # r PROVE G
    BY <1>3 DEF TypeOK, End, Stays
  <1>4. ASSUME NEW c \in Requests, Denied(c) PROVE G
    <2>1. CASE c = r
      BY <1>4, <2>1 DEF TypeOK, Denied, End, Finishes
    <2> QED BY <1>3, <1>4, <2>1 DEF Denied
  <1>5. ASSUME NEW c \in Requests, Abandoned(c) PROVE G
    <2>1. CASE c = r
      BY <1>5, <2>1 DEF TypeOK, Abandoned, End, Finishes
    <2> QED BY <1>3, <1>5, <2>1 DEF Abandoned
  <1>6. ASSUME NEW c \in Requests, Receive(c) PROVE G
    <2>1. CASE c = r
      BY <1>6, <2>1 DEF TypeOK, Receive, End, Finishes
    <2> QED BY <1>3, <1>6, <2>1 DEF Receive
  <1>7. ASSUME NEW c \in Requests, Writes(c) \/ Told(c) \/ TimeOut(c) PROVE G
    BY <1>7 DEF TypeOK, Writes, Told, Called, Spilled, TimeOut, Stays
  <1>8. CASE StartSucceeds
    BY <1>8, ResumeEffect DEF TypeOK, Stays, Finds
  <1>9. CASE StartGivenUp
    <2>1. CASE lock = Supervisor
      BY <1>9, <2>1, ResumeEffect DEF Stays
    <2>2. CASE lock # Supervisor /\ lock = r
      BY <1>9, <2>2, ResumeEffect DEF TypeOK, End, Finishes
    <2>3. CASE lock # Supervisor /\ lock # r
      BY <1>3, <1>9, <2>3, ResumeEffect
    <2> QED BY <2>1, <2>2, <2>3
  <1>10. CASE Vanish
    BY <1>10 DEF TypeOK, Vanish, Stays, Finishes
  <1>11. ASSUME NEW e \in Endpoints, NEW h \in Calls \cup {Supervisor}, Started(h, e) PROVE G
    BY <1>11 DEF TypeOK, Started, Stays, Waits
  <1> HIDE DEF G
  <1>12. G
    BY <1>1, <1>2, <1>4, <1>5, <1>6, <1>7, <1>8, <1>9, <1>10, <1>11, Steps DEF RequestStep, G
  <1> QED BY <1>12 DEF G

\* A worker that can be called, or is, could be or is a new process.
LEMMA OpenStep ==
    ASSUME CallInv, [Next]_vars, NEW p \in Procs, p \in open' \/ \E r \in Requests : Calling(r, p)'
    PROVE  \/ p \in open \/ \E r \in Requests : Calling(r, p)
           \/ state[p] = "unused"
  <1>0. TypeOK /\ OneCaller /\ Starting /\ p # NoProc
    BY BrokerAssumption DEF CallInv
  <1>1. CASE p \in open'
    <2>1. ASSUME NEW e \in Endpoints, NEW h \in Calls \cup {Supervisor}, Started(h, e)
          PROVE  p \in open \/ state[p] = "unused"
      BY <1>1, <2>1, NewProcess DEF Started, Launch
    <2>2. CASE Aside \/ WorkerStep \/ RequestStep \/ StartSucceeds \/ StartGivenUp \/ Vanish
      BY <1>1, <2>2 DEF Aside, WorkerStep, RequestStep, Found, Denied, Abandoned, Writes, Told, Called,
         Spilled, Receive, TimeOut, StartSucceeds, StartGivenUp, Vanish, procs
    <2> QED BY <1>0, <2>1, <2>2, Steps
  <1>2. ASSUME NEW r \in Requests, Calling(r, p)'
        PROVE  p \in open \/ Calling(r, p)
    <2>1. pc'[r] = "calling" /\ target'[r] = p
      BY <1>2 DEF Calling
    <2>2. Stays(r) \/ Told(r)
      <3>1. ~TimeOut(r) /\ ~Writes(r)
        BY <1>0, <2>1 DEF TimeOut, Writes, TypeOK
      <3> QED BY <1>0, <2>1, <3>1, ThreadStep DEF Finds, Waits, Finishes
    <2> QED BY <1>0, <2>1, <2>2 DEF Stays, Told, Calling
  <1> QED BY <1>1, <1>2

\* What close() flushed stays noted.
LEMMA FlushedStep ==
    ASSUME TypeOK, OneCaller, [Next]_vars
    PROVE  flushed \subseteq flushed'
  BY Steps DEF Aside, WorkerStep, RequestStep, Found, Denied, Abandoned, Writes, Told, Called, Spilled, Receive,
     TimeOut, StartSucceeds, StartGivenUp, Vanish, Started, threads

LEMMA UntoldStep == CallInv /\ [Next]_vars => Untold'
  <1> SUFFICES ASSUME CallInv, [Next]_vars, NEW r \in Requests
               PROVE  /\ pc'[r] \in {"new", "starting", "waiting"} \/ outcome'[r] = "busy" => Kept(r)'
                      /\ pc'[r] = "writing" /\ target'[r] \in open' => Kept(r)'
                      /\ pc'[r] = "writing" \/ outcome'[r] = "rejected" => Kept(r)' \/ r \in flushed'
                      /\ outcome'[r] \in {"rejected", "busy"} => pc'[r] = "done"
    BY DEF Untold
  <1>0. TypeOK /\ OneCaller /\ Starting /\ Made /\ Untold /\ TypeOK' /\ NoProc \notin Procs
    BY TypeStep, BrokerAssumption DEF CallInv
  <1>1. ASSUME Kept(r), ~Told(r)
        PROVE  Kept(r)'
    <2>1. ran[r] = 0 /\ \A p \in Procs : r \notin input[p]
      BY <1>1 DEF Kept
    <2>2. \A p \in Procs : r \notin input'[p]
      BY <1>0, <1>1, <2>1, CommandStep
    <2>3. ran'[r] = ran[r]
      BY <1>0, <2>1, RanStep DEF TypeOK
    <2> QED BY <2>1, <2>2, <2>3 DEF Kept
  <1>2. ASSUME Kept(r) \/ r \in flushed, ~Told(r)
        PROVE  Kept(r)' \/ r \in flushed'
    BY <1>0, <1>1, <1>2, FlushedStep
  <1>3. CASE Told(r)
    <2>1. pc[r] = "writing" /\ outcome' = outcome /\ (Called(r) \/ Spilled(r)) /\ target' = target
      BY <1>3 DEF Told
    <2>2. outcome'[r] \notin {"rejected", "busy"}
      BY <1>0, <2>1 DEF Untold
    <2>3. pc'[r] = "calling" \/ (pc'[r] = "writing" /\ r \in flushed' /\ target'[r] \notin open')
      BY <1>0, <2>1 DEF Called, Spilled, TypeOK
    <2> QED BY <2>2, <2>3
  <1>4. CASE ~Told(r)
    <2>1. Stays(r) \/ Finds(r) \/ Waits(r) \/ Writes(r) \/ TimeOut(r) \/ Finishes(r)
      BY <1>0, <1>4, ThreadStep
    <2>2. Writes(r) => pc[r] = "waiting" /\ pc'[r] = "writing" /\ outcome' = outcome
      BY <1>0 DEF Writes, TypeOK
    <2>3. TimeOut(r) => pc[r] = "calling" /\ pc'[r] = "stopping" /\ outcome' = outcome
      BY <1>0 DEF TimeOut, TypeOK
    <2>4. outcome'[r] \in {"rejected", "busy"} => pc'[r] = "done"
      BY <1>0, <2>1, <2>2, <2>3 DEF Stays, Finds, Waits, Finishes, Untold
    <2>5. ASSUME pc'[r] \in {"new", "starting", "waiting"} \/ outcome'[r] = "busy"
          PROVE  Kept(r)'
      <3>1. pc[r] \in {"new", "starting", "waiting"} \/ outcome[r] = "busy"
        BY <2>1, <2>2, <2>3, <2>5 DEF Stays, Finds, Waits, Finishes
      <3> QED BY <1>0, <1>1, <1>4, <3>1 DEF Untold
    <2>6. ASSUME pc'[r] = "writing" \/ outcome'[r] = "rejected"
          PROVE  Kept(r)' \/ r \in flushed'
      <3>1. pc[r] \in {"new", "starting", "waiting", "writing"} \/ outcome[r] = "rejected"
        BY <2>1, <2>2, <2>3, <2>6 DEF Stays, Finds, Waits, Finishes
      <3> QED BY <1>0, <1>2, <1>4, <3>1 DEF Untold
    <2>7. ASSUME pc'[r] = "writing", target'[r] \in open'
          PROVE  Kept(r)'
      <3>1. CASE pc[r] = "waiting"
        BY <1>0, <1>1, <1>4, <3>1 DEF Untold
      <3>2. CASE pc[r] # "waiting"
        <4>1. Stays(r)
          BY <2>1, <2>2, <2>3, <2>7, <3>2 DEF Finds, Waits, Finishes
        <4>2. pc[r] = "writing" /\ target[r] = target'[r] /\ target[r] \in Procs
          BY <1>0, <2>7, <4>1 DEF Stays, TypeOK
        <4>3. state[target[r]] # "unused"
          BY <1>0, <4>2 DEF Made, Settled
        <4>4. target[r] \in open \/ \E c \in Requests : Calling(c, target[r])
          BY <2>7, <4>2, <4>3, OpenStep
        <4>5. ~\E c \in Requests : Calling(c, target[r])
          BY <1>0, <4>2 DEF OneCaller, Calling
        <4> QED BY <1>0, <1>1, <1>4, <4>2, <4>4, <4>5 DEF Untold
      <3> QED BY <3>1, <3>2
    <2> QED BY <2>4, <2>5, <2>6, <2>7
  <1> QED BY <1>3, <1>4

LEMMA OneCallerStep == CallInv /\ [Next]_vars => OneCaller'
  <1> DEFINE InCall(r) == pc[r] \in {"writing", "calling", "stopping"}
             InCallNext(r) == pc'[r] \in {"writing", "calling", "stopping"}
  <1> SUFFICES ASSUME CallInv, [Next]_vars, NEW r \in Requests, NEW c \in Requests,
                      target'[r] = target'[c], InCallNext(r), InCallNext(c)
               PROVE  r = c
    BY DEF OneCaller
  <1>0. TypeOK /\ Starting /\ OneCaller /\ Made' /\ TypeOK'
    BY MadeStep, TypeStep DEF CallInv
  <1>1. ASSUME NEW x \in Requests, InCallNext(x)
        PROVE  target'[x] = target[x] /\ (InCall(x) \/ Writes(x))
    <2>1. target'[x] # NoProc
      BY <1>0, <1>1 DEF Made
    <2>2. Stays(x) \/ Writes(x) \/ Told(x) \/ TimeOut(x)
      BY <1>0, <1>1, ThreadStep DEF Finds, Waits, Finishes
    <2> QED BY <1>1, <2>1, <2>2 DEF Stays, Writes, Told, TimeOut
  <1>2. target[r] = target[c] /\ (InCall(r) \/ Writes(r)) /\ (InCall(c) \/ Writes(c))
    BY <1>1
  <1>3. ASSUME NEW x \in Requests, NEW y \in Requests, Writes(x), InCall(y), target[y] = target[x]
        PROVE  FALSE
    BY <1>3 DEF Writes, Busy
  <1>4. CASE Writes(r) /\ Writes(c)
    BY <1>0, <1>4 DEF Writes, TypeOK
  <1>5. CASE InCall(r) /\ InCall(c)
    BY <1>0, <1>2, <1>5 DEF OneCaller
  <1> QED BY <1>2, <1>3, <1>4, <1>5

\* The table, and the start that is under way.
LEMMA SlotStep ==
    ASSUME TypeOK, OneCaller, [Next]_vars
    PROVE  \/ UNCHANGED slots
           \/ StartSucceeds \/ StartGivenUp \/ Vanish
           \/ \E e \in Endpoints, h \in Calls \cup {Supervisor} : Started(h, e)
  BY Steps DEF Aside, WorkerStep, RequestStep, Found, Denied, Abandoned, Writes, Told, Receive, TimeOut,
     broker, slots

LEMMA StartingStep == CallInv /\ [Next]_vars => Starting'
  <1> SUFFICES ASSUME CallInv, [Next]_vars
               PROVE  Starting'
    OBVIOUS
  <1>0. TypeOK /\ OneCaller /\ Starting /\ Made /\ TypeOK'
    BY TypeStep DEF CallInv
  <1>1. \A r \in Calls : r \in Requests /\ r # Nobody /\ r # Supervisor
    BY BrokerAssumption DEF Requests
  <1>2. (lock = Nobody <=> making = NoProc)'
    <2>1. CASE UNCHANGED slots
      BY <1>0, <2>1 DEF slots, Starting
    <2>2. CASE StartSucceeds \/ StartGivenUp
      BY <1>0, <2>2, ResumeEffect
    <2>3. CASE Vanish
      BY <2>3 DEF Vanish
    <2>4. ASSUME NEW e \in Endpoints, NEW h \in Calls \cup {Supervisor}, Started(h, e)
          PROVE  (lock = Nobody <=> making = NoProc)'
      <3>1. lock' = h /\ making' = NewProc /\ NewProc \in Procs
        BY <2>4, NewProcess DEF Started, Launch
      <3> QED BY <1>1, <3>1, BrokerAssumption
    <2> QED BY <1>0, <2>1, <2>2, <2>3, <2>4, SlotStep
  <1>3. ASSUME NEW r \in Requests
        PROVE  /\ (r \in Calls => (lock = r <=> pc[r] = "starting"))'
               /\ (pc[r] = "starting" => r \in Calls)'
    <2> DEFINE G == /\ r \in Calls => (lock' = r <=> pc'[r] = "starting")
                    /\ pc'[r] = "starting" => r \in Calls
    <2>1. CASE lock' = lock /\ (pc'[r] = "starting" <=> pc[r] = "starting")
      BY <1>0, <2>1 DEF Starting
    <2>2. ASSUME NEW c \in Requests, \/ Found(c) \/ Denied(c) \/ Abandoned(c) \/ Writes(c)
                                     \/ Told(c) \/ Receive(c) \/ TimeOut(c)
          PROVE  G
      <3>1. lock' = lock
        BY <2>2 DEF Found, Denied, Abandoned, Writes, Told, Receive, TimeOut, slots, broker
      <3>2. pc'[r] = "starting" <=> pc[r] = "starting"
        BY <1>0, <2>2 DEF Found, Denied, Abandoned, Writes, Told, Called, Spilled, Receive, TimeOut, End, TypeOK
      <3> QED BY <2>1, <3>1, <3>2
    <2>3. CASE Aside \/ WorkerStep
      BY <2>1, <2>3 DEF Aside, WorkerStep, slots, threads
    <2>4. CASE StartSucceeds \/ StartGivenUp
      <3>1. lock' = Nobody
        BY <1>0, <2>4, ResumeEffect
      <3>2. pc'[r] # "starting"
        <4>1. CASE lock = r
          BY <1>0, <2>4, <4>1, ResumeEffect, BrokerAssumption DEF End, TypeOK
        <4>2. CASE lock # r
          <5>1. pc[r] # "starting"
            BY <1>0, <4>2 DEF Starting
          <5> QED BY <1>0, <2>4, <4>2, <5>1, ResumeEffect DEF End, TypeOK
        <4> QED BY <4>1, <4>2
      <3> QED BY <1>1, <3>1, <3>2
    <2>5. CASE Vanish
      <3>1. lock' = Nobody /\ pc'[r] # "starting"
        BY <1>0, <2>5 DEF Vanish, TypeOK
      <3> QED BY <1>1, <3>1
    <2>6. ASSUME NEW e \in Endpoints, NEW h \in Calls \cup {Supervisor}, Started(h, e) PROVE G
      <3>1. lock = Nobody /\ lock' = h
        BY <2>6 DEF Started, Launch
      <3>2. pc[r] # "starting"
        BY <1>0, <1>1, <3>1 DEF Starting
      <3>3. CASE h = Supervisor
        BY <1>1, <2>6, <3>1, <3>2, <3>3 DEF Started
      <3>4. CASE h # Supervisor
        BY <1>0, <1>1, <2>6, <3>1, <3>2, <3>4 DEF Started, TypeOK
      <3> QED BY <3>3, <3>4
    <2> HIDE DEF G
    <2>7. G
      BY <1>0, <2>2, <2>3, <2>4, <2>5, <2>6, Steps DEF RequestStep, G
    <2> QED BY <2>7 DEF G
  <1>4. (making # NoProc => state[making] # "unused" /\ ~HasWorker(home[making]))'
    <2> SUFFICES ASSUME making' # NoProc
                 PROVE  (state[making] # "unused" /\ ~HasWorker(home[making]))'
      OBVIOUS
    <2>1. ASSUME NEW e \in Endpoints, ~HasWorker(e), slot'[e] = slot[e]
          PROVE  ~HasWorker(e)'
      <3>1. CASE slot[e] = NoProc
        BY <2>1, <3>1 DEF HasWorker
      <3>2. CASE slot[e] # NoProc
        <4>1. slot[e] \in Procs /\ ~Alive(slot[e])
          BY <1>0, <2>1, <3>2 DEF TypeOK, HasWorker
        <4>2. Settled(slot[e])
          BY <1>0, <3>2 DEF Made
        <4>3. state[slot[e]] # "unused"
          BY <4>2 DEF Settled
        <4>4. state'[slot[e]] \notin {"starting", "running"}
          BY <1>0, <4>1, <4>3, HomeStays DEF Alive
        <4> QED BY <2>1, <4>4 DEF HasWorker, Alive
      <3> QED BY <3>1, <3>2
    <2>2. CASE UNCHANGED slots
      <3>1. making' = making /\ making \in Procs /\ state[making] # "unused" /\ ~HasWorker(home[making])
        BY <1>0, <2>2 DEF slots, Starting, TypeOK
      <3>2. home'[making] = home[making] /\ state'[making] # "unused" /\ home[making] \in Endpoints
        BY <1>0, <3>1, HomeStays DEF TypeOK
      <3>3. ~HasWorker(home[making])'
        BY <2>1, <2>2, <3>1, <3>2 DEF slots, HasWorker
      <3> QED BY <3>1, <3>2, <3>3
    <2>3. CASE StartSucceeds \/ StartGivenUp \/ Vanish
      BY <1>0, <2>3, ResumeEffect DEF Vanish
    <2>4. ASSUME NEW e \in Endpoints, NEW h \in Calls \cup {Supervisor}, Started(h, e)
          PROVE  (state[making] # "unused" /\ ~HasWorker(home[making]))'
      <3>1. /\ making' = NewProc /\ NewProc \in Procs /\ slot' = slot /\ ~HasWorker(e)
            /\ state' = [state EXCEPT ![NewProc] = "starting"] /\ home' = [home EXCEPT ![NewProc] = e]
        BY <2>4, NewProcess DEF Started, Launch
      <3>2. state'[making'] # "unused" /\ home'[making'] = e
        BY <1>0, <3>1 DEF TypeOK
      <3>3. ~HasWorker(e)'
        BY <2>1, <3>1
      <3> QED BY <3>2, <3>3 DEF HasWorker
    <2> QED BY <1>0, <2>2, <2>3, <2>4, SlotStep
  <1> QED BY <1>1, <1>2, <1>3, <1>4 DEF Starting

-----------------------------------------------------------------------------
(* The answers that are still to come.                                       *)

\* A reader thread that ended does not come back, unless the broker does.
LEMMA UnheardStep ==
    ASSUME TypeOK, OneCaller, [Next]_vars, ~Vanish, NEW p \in Procs, p \notin unheard'
    PROVE  p \notin unheard
  <1>1. CASE WorkerStep
    BY <1>1 DEF WorkerStep, Ready1, Killed, Ends, Garbled, Execute, Reply
  <1>2. CASE Aside \/ RequestStep \/ StartSucceeds \/ StartGivenUp
    BY <1>2 DEF Aside, RequestStep, Found, Denied, Abandoned, Writes, Told, Receive, TimeOut, StartSucceeds,
       StartGivenUp, workers, procs
  <1>3. ASSUME NEW e \in Endpoints, NEW h \in Calls \cup {Supervisor}, Started(h, e)
        PROVE  p \notin unheard
    BY <1>3 DEF Started, Launch
  <1> QED BY <1>1, <1>2, <1>3, Steps

\* A new answer to come is that of a command that is written.
LEMMA PendingStep ==
    ASSUME CallInv, [Next]_vars, NEW p \in Procs, NEW c \in Requests, Pending(c, p)'
    PROVE  ~Vanish /\ (Pending(c, p) \/ (Told(c) /\ p = target[c]))
  <1>0. TypeOK /\ OneCaller /\ PlacesOf(p) /\ TypeOK' /\ c # Nobody
    BY TypeStep, BrokerAssumption DEF CallInv, Places, PlacesOf
  <1>1. ~Vanish
    <2> SUFFICES ASSUME Vanish
                 PROVE  FALSE
      OBVIOUS
    <2>1. replies'[p] = <<>> /\ input' = input /\ job' = job /\ (p \in unheard' <=> state[p] # "unused")
      BY DEF Vanish
    <2>2. state[p] = "unused" /\ (c \in input[p] \/ job[p] = c)
      BY <2>1 DEF Pending, First
    <2> QED BY <1>0, <2>2 DEF PlacesOf
  <1>2. CASE First(p, c)'
    BY <1>1, <1>2, FirstStep DEF Pending
  <1>3. CASE p \notin unheard' /\ (c \in input'[p] \/ job'[p] = c)
    <2>1. p \notin unheard
      BY <1>0, <1>1, <1>3, UnheardStep
    <2>2. c \in input[p] \/ job[p] = c \/ (Told(c) /\ p = target[c])
      BY <1>0, <1>3, CommandStep
    <2> QED BY <1>1, <2>1, <2>2 DEF Pending
  <1> QED BY <1>2, <1>3 DEF Pending

LEMMA OwnStep == CallInv /\ [Next]_vars => Own'
  <1> SUFFICES ASSUME CallInv, [Next]_vars, NEW p \in Procs, NEW c \in Requests,
                      p \in open' \/ \E r \in Requests : Calling(r, p)', Pending(c, p)'
               PROVE  Calling(c, p)'
    BY DEF Own
  <1>0. /\ TypeOK /\ OneCaller /\ PlacesOf(p) /\ Starting /\ Own /\ TypeOK' /\ Made' /\ OneCaller'
        /\ c # Nobody /\ c # Stopped
    BY TypeStep, MadeStep, OneCallerStep, BrokerAssumption DEF CallInv, Places, PlacesOf
  <1>1. ~Vanish /\ (Pending(c, p) \/ (Told(c) /\ p = target[c]))
    BY PendingStep
  <1>2. CASE Told(c) /\ p = target[c]
    <2>1. CASE Called(c)
      BY <1>0, <1>2, <2>1 DEF Told, Called, TypeOK, Calling
    <2>2. CASE Spilled(c)
      <3>1. p \notin open' /\ pc'[c] = "writing" /\ target'[c] = p
        BY <1>2, <2>2 DEF Told, Spilled
      <3>2. PICK r \in Requests : pc'[r] = "calling" /\ target'[r] = p
        BY <3>1 DEF Calling
      <3>3. r = c
        BY <1>0, <3>1, <3>2 DEF OneCaller
      <3> QED BY <3>1, <3>2, <3>3
    <2> QED BY <1>2, <2>1, <2>2 DEF Told
  <1>3. CASE Pending(c, p)
    <2>1. state[p] # "unused"
      <3> SUFFICES ASSUME state[p] = "unused"
                   PROVE  FALSE
        OBVIOUS
      <3>1. input[p] = {} /\ job[p] = Nobody /\ (replies[p] = <<>> \/ replies[p] = <<Stopped>>)
        BY <1>0 DEF PlacesOf
      <3>2. Head(<<Stopped>>) = Stopped
        BY ShortQueues
      <3> QED BY <1>0, <1>3, <3>1, <3>2 DEF Pending, First
    <2>2. Calling(c, p)
      BY <1>0, <1>3, <2>1, OpenStep DEF Own
    <2>3. ~Writes(c) /\ ~Told(c) /\ ~Finds(c) /\ ~Waits(c)
      BY <2>2 DEF Calling, Writes, Told, Finds, Waits
    <2>4. CASE Stays(c)
      BY <1>0, <2>2, <2>4 DEF Stays, Calling, Made
    <2>5. ~TimeOut(c)
      <3> SUFFICES ASSUME TimeOut(c)
                   PROVE  FALSE
        OBVIOUS
      <3>1. p \notin open' /\ pc'[c] = "stopping" /\ target'[c] = p
        BY <1>0, <2>2 DEF TimeOut, Calling, TypeOK
      <3>2. PICK r \in Requests : pc'[r] = "calling" /\ target'[r] = p
        BY <3>1 DEF Calling
      <3>3. r = c
        BY <1>0, <3>1, <3>2 DEF OneCaller
      <3> QED BY <3>1, <3>2, <3>3
    <2>6. ~Receive(c)
      <3> SUFFICES ASSUME Receive(c)
                   PROVE  FALSE
        OBVIOUS
      <3>1. /\ replies'[p] = Tail(replies[p]) /\ replies[p] # <<>>
            /\ UNCHANGED <<input, job, state, unheard>>
        BY <1>0, <2>2 DEF Receive, Calling, TypeOK
      <3>2. /\ replies'[p] = <<>> \/ replies'[p] = <<Stopped>>
            /\ p \notin unheard => input[p] = {} /\ job[p] = Nobody
        BY <1>0, <3>1, FirstTaken
      <3>3. Head(<<Stopped>>) = Stopped
        BY ShortQueues
      <3> QED BY <1>0, <3>1, <3>2, <3>3 DEF Pending, First
    <2>7. ~Finishes(c)
      BY <1>1, <2>2, <2>6 DEF Finishes, Calling
    <2> QED BY <1>0, <2>3, <2>4, <2>5, <2>7, ThreadStep
  <1> QED BY <1>1, <1>2, <1>3

-----------------------------------------------------------------------------
(* Calls.                                                                    *)

LEMMA CallInit == Init => CallInv
  <1> SUFFICES ASSUME Init
               PROVE  CallInv
    OBVIOUS
  <1>1. TypeOK
    BY TypeInit
  <1>2. Places
    BY BrokerAssumption DEF Init, Places, Said
  <1>3. Made /\ OneCaller
    BY DEF Init, Made, OneCaller
  <1>4. Executions
    BY BrokerAssumption DEF Init, Executions, First
  <1>5. Untold
    BY DEF Init, Untold, Kept
  <1>6. Own
    BY BrokerAssumption DEF Init, Own, Pending, First
  <1>7. Starting
    BY BrokerAssumption DEF Init, Starting, Requests
  <1> QED BY <1>1, <1>2, <1>3, <1>4, <1>5, <1>6, <1>7 DEF CallInv

\* Where a command is, who may be answered and who waits for a start, over any run of
\* the broker and its workers.
THEOREM CallsInvariant == Spec => []CallInv
  <1>1. CallInv /\ [Next]_vars => CallInv'
    BY TypeStep, PlacesStep, MadeStep, ExecutionsStep, UntoldStep, OneCallerStep, OwnStep, StartingStep
    DEF CallInv
  <1> QED BY <1>1, CallInit, PTL DEF Spec

\* The variables keep their types; endpoints.json never holds more than MaxEndpoints.
THEOREM TypeCorrect == Spec => []TypeOK
  <1>1. CallInv => TypeOK
    BY DEF CallInv
  <1> QED BY <1>1, CallsInvariant, PTL

\* A request is executed at most once: an interrupted call is not replayed by call(), by a
\* worker that is started again or after a crash of the broker. One that was told busy is
\* never executed, and one that was refused only if close() flushed its command between the
\* write and the flush of its call.
THEOREM NoReplay == Spec => []ExecutedAsTold
  <1>1. CallInv => ExecutedAsTold
    BY DEF CallInv, Executions, Untold, Kept, ExecutedAsTold
  <1> QED BY <1>1, CallsInvariant, PTL

LEMMA AnswersStep == CallInv /\ AnswersAreOwn /\ [Next]_vars => AnswersAreOwn'
  <1> SUFFICES ASSUME CallInv, AnswersAreOwn, [Next]_vars, NEW r \in Requests, outcome'[r] = "answered"
               PROVE  answer'[r] = r /\ ran'[r] = 1
    BY DEF AnswersAreOwn
  <1>0. TypeOK /\ OneCaller /\ Starting /\ Made /\ Executions /\ Untold
    BY DEF CallInv
  <1>1. CASE Receive(r)
    <2>1. pc[r] = "calling" /\ replies[target[r]] # <<>> /\ ran' = ran
      BY <1>1 DEF Receive
    <2>2. Head(replies[target[r]]) # Stopped /\ answer' = [answer EXCEPT ![r] = Head(replies[target[r]])]
      BY <1>0, <1>1 DEF Receive, End, TypeOK
    <2>3. Head(replies[target[r]]) = r /\ target[r] \in Procs
      BY <1>0, <2>1, <2>2, FirstIsRequest DEF Made, TypeOK
    <2>4. ran[r] = 1
      BY <1>0, <2>1, <2>3 DEF Executions, First
    <2> QED BY <1>0, <2>1, <2>2, <2>3, <2>4 DEF TypeOK
  <1>2. CASE ~Receive(r)
    <2>1. outcome[r] = "answered"
      BY <1>0, <1>2, ThreadStep DEF Stays, Finds, Waits, Writes, Told, TimeOut, Finishes
    <2>2. answer[r] = r /\ ran[r] = 1
      BY <2>1 DEF AnswersAreOwn
    <2>3. ran'[r] = ran[r]
      BY <1>0, <2>2, RanStep DEF TypeOK, Executions
    <2>4. answer'[r] = answer[r]
      <3>1. ASSUME NEW c \in Requests, Receive(c)
            PROVE  answer'[r] = answer[r]
        BY <1>0, <1>2, <3>1 DEF Receive, TypeOK
      <3>2. CASE ~\E c \in Requests : Receive(c)
        BY <1>0, <3>2, Steps DEF Aside, WorkerStep, RequestStep, Found, Denied, Abandoned, Writes, Told, TimeOut,
           StartSucceeds, StartGivenUp, Vanish, Started, threads
      <3> QED BY <3>1, <3>2
    <2> QED BY <2>2, <2>3, <2>4
  <1> QED BY <1>1, <1>2

\* A caller that gets an answer gets that of its own request, which was executed once: the late
\* answer of a call that timed out, or that of a worker's first lines, is never taken for it.
THEOREM OwnAnswers == Spec => []AnswersAreOwn
  <1>1. Init => AnswersAreOwn
    BY DEF Init, AnswersAreOwn
  <1> QED BY <1>1, AnswersStep, CallsInvariant, PTL DEF Spec

-----------------------------------------------------------------------------
(* Live workers.                                                             *)

\* What closes the broker.
LEMMA PhaseStep ==
    ASSUME [Next]_vars
    PROVE  \/ UNCHANGED <<phase, closing>> \/ BeginClose \/ Vanish
           \/ phase # "closed" /\ phase' # "closed"
  <1>1. CASE Next
    BY <1>1 DEF Next, broker, StartUp, Execute, Reply, Garble, Exit, CrashWorker, StartSucceeds, StartFails,
       StartGivenUp, FindWorker, LookUp, GiveWay, Refuse, Enter, Flush, Receive, TimeOut, StopReturns, Start,
       Restored, Scan, StopBroker, CloseWorker, Closed, CrashBroker, Recover, Elapse
  <1>2. CASE UNCHANGED vars
    BY <1>2 DEF vars, broker
  <1> QED BY <1>1, <1>2

LEMMA SupervisedStep == CallInv /\ Supervised /\ [Next]_vars => Supervised'
  <1> SUFFICES ASSUME CallInv, Supervised, [Next]_vars, TypeOK'
               PROVE  Supervised'
    BY TypeStep
  <1> SUFFICES ASSUME NEW p \in Procs, p \in open', state'[p] \in {"starting", "running"}
               PROVE  IF phase' = "closed" THEN p \in closing' ELSE p \in {making', slot'[home'[p]]}
    BY DEF Supervised, Alive, TypeOK
  <1>0. TypeOK /\ OneCaller /\ Starting /\ Made /\ p # NoProc
    BY BrokerAssumption DEF CallInv
  <1>1. ASSUME NEW e \in Endpoints, NEW h \in Calls \cup {Supervisor}, Started(h, e)
        PROVE  phase' # "closed" /\ p \in {making', slot'[home'[p]]}
    <2>1. phase' # "closed" /\ lock = Nobody /\ making = NoProc /\ slot' = slot
      BY <1>0, <1>1 DEF Started, Starting
    <2>2. /\ making' = NewProc /\ open' = (open \ {slot[e]}) \cup {NewProc}
          /\ state' = [state EXCEPT ![NewProc] = "starting"] /\ home' = [home EXCEPT ![NewProc] = e]
      BY <1>1 DEF Started, Launch
    <2>3. CASE p # NewProc
      <3>1. p \in open /\ Alive(p) /\ home'[p] = home[p]
        BY <1>0, <2>2, <2>3 DEF TypeOK, Alive
      <3> QED BY <1>0, <1>1, <2>1, <3>1 DEF Supervised, Started
    <2> QED BY <2>1, <2>2, <2>3
  <1>2. CASE ~\E e \in Endpoints, h \in Calls \cup {Supervisor} : Started(h, e)
    <2>1. p \in open /\ state[p] # "unused"
      <3>1. CASE Aside \/ RequestStep \/ StartSucceeds \/ StartGivenUp \/ Vanish
        BY <1>0, <3>1 DEF Aside, RequestStep, Found, Denied, Abandoned, Writes, Told, Called, Spilled,
           Receive, TimeOut,
           StartSucceeds, StartGivenUp, Vanish, procs, workers
      <3>2. ASSUME NEW q \in Procs, Ready1(q) \/ Killed(q) \/ Garbled(q) \/ Execute(q) \/ Reply(q), open' = open
            PROVE  p \in open /\ state[p] # "unused"
        BY <1>0, <3>2 DEF Ready1, Killed, Ends, Alive, Garbled, Execute, Reply, TypeOK
      <3> QED BY <1>0, <1>2, <3>1, <3>2, Steps DEF WorkerStep
    <2>2. Alive(p) /\ home'[p] = home[p]
      BY <1>0, <2>1, HomeStays DEF Alive
    <2>3. IF phase = "closed" THEN p \in closing ELSE p \in {making, slot[home[p]]}
      BY <2>1, <2>2 DEF Supervised
    <2>4. CASE Vanish
      BY <2>4 DEF Vanish
    <2>5. CASE BeginClose
      <3>1. making = NoProc /\ phase # "closed" /\ closing' = {slot[e] : e \in Endpoints} \ {NoProc}
        BY <1>0, <2>5 DEF BeginClose, Starting
      <3>2. phase' = "closed" /\ p = slot[home[p]] /\ home[p] \in Endpoints
        BY <1>0, <2>3, <2>5, <3>1 DEF BeginClose, TypeOK
      <3> QED BY <1>0, <3>1, <3>2
    <2>6. CASE UNCHANGED <<phase, closing>> /\ phase = "closed"
      BY <2>3, <2>6
    <2>7. CASE phase # "closed" /\ phase' # "closed" /\ ~Vanish
      <3>1. CASE UNCHANGED slots
        BY <2>2, <2>3, <2>7, <3>1 DEF slots
      <3>2. CASE StartSucceeds
        <4>1. slot' = [slot EXCEPT ![home[making]] = making] /\ making # NoProc
          BY <3>2 DEF StartSucceeds
        <4>2. CASE p = making
          BY <1>0, <2>2, <2>7, <4>1, <4>2 DEF TypeOK
        <4>3. CASE p = slot[home[p]]
          <5>1. home[p] # home[making]
            BY <1>0, <2>2, <4>1, <4>3 DEF Starting, HasWorker
          <5> QED BY <1>0, <2>2, <2>7, <4>1, <4>3, <5>1 DEF TypeOK
        <4> QED BY <2>3, <2>7, <4>2, <4>3
      <3>3. CASE StartGivenUp
        <4>1. slot' = slot /\ p # making
          BY <2>2, <3>3 DEF StartGivenUp
        <4> QED BY <2>2, <2>3, <2>7, <4>1
      <3> QED BY <1>0, <1>2, <2>7, <3>1, <3>2, <3>3, SlotStep
    <2> QED BY <2>4, <2>5, <2>6, <2>7, PhaseStep
  <1> QED BY <1>1, <1>2

\* A live worker whose pipe the broker holds open is in the table, or is being started, and
\* close() stops every one of them: a start and close() exclude each other.
THEOREM WorkersAreSupervised == Spec => []Supervised
  <1>1. Init => Supervised
    BY DEF Init, Supervised
  <1> QED BY <1>1, SupervisedStep, CallsInvariant, PTL DEF Spec

=============================================================================
