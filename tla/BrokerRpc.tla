------------------------------ MODULE BrokerRpc ------------------------------
(***************************************************************************)
(* Requests of a frontend to the broker over loopback (request in          *)
(* broker_rpc.py; RpcServer, RpcHandler and the checks of dispatch in      *)
(* broker.py). A frame names the instance of the broker and the time. A    *)
(* frame may reach a broker more than once, or late. Brokers stop, crash   *)
(* and start again with an empty memory, on a port that may be the one of  *)
(* the last. What a request then does is the subject of BrokerWorkers.     *)
(*                                                                         *)
(* Both ends run on one host and read one clock, which is not set back.    *)
(***************************************************************************)
EXTENDS Naturals, FiniteSets

CONSTANTS
    Requests, Slots,     \* requests, and the threads that serve connections (32)
    Window, Retention,   \* how old a request may be (30 s), how long it is remembered (60 s)
    MaxSeen,             \* requests remembered (10000)
    NoRequest,
    MaxTime, MaxInstances    \* bounds of the model

ASSUME BrokerRpcAssumption ==
    /\ NoRequest \notin Requests
    /\ {Window, Retention, MaxSeen} \subseteq Nat
    /\ {MaxTime, MaxInstances} \subseteq Nat \ {0}

VARIABLES
    now,
    instance, up, \* the broker's; instances are numbered
    announced,    \* the instance in running.json, or 0
    frame,        \* of each request: instance and time, once it is sent
    serving, checked, \* of each thread: its request, and when its time was checked
    mine,         \* threads that serve the client's own connection
    seen,         \* when each request was remembered; 0 if it is not
    outcome,      \* of each request, for its client
    ran,          \* history: how often it was let through
    again         \* history: requests that arrived once more

threads == <<serving, checked, mine>>
vars == <<now, instance, up, announced, frame, threads, seen, outcome, ran, again>>

Unsent == [instance |-> 0, time |-> 0]

TypeOK ==
    /\ now \in 1 .. MaxTime /\ instance \in 1 .. MaxInstances /\ up \in BOOLEAN
    /\ announced \in 0 .. instance
    /\ frame \in [Requests -> [instance : 0 .. instance, time : 0 .. now]]
    /\ serving \in [Slots -> Requests \cup {NoRequest}] /\ checked \in [Slots -> 0 .. now]
    /\ mine \subseteq Slots
    /\ seen \in [Requests -> 0 .. now]
    /\ outcome \in [Requests -> {"none", "waiting", "done", "refused", "unknown"}]
    /\ ran \in [Requests -> Nat] /\ again \subseteq Requests

Init ==
    /\ now = 1 /\ instance = 1 /\ up = TRUE /\ announced = 1
    /\ frame = [c \in Requests |-> Unsent]
    /\ serving = [s \in Slots |-> NoRequest] /\ checked = [s \in Slots |-> 0] /\ mine = {}
    /\ seen = [c \in Requests |-> 0]
    /\ outcome = [c \in Requests |-> "none"] /\ ran = [c \in Requests |-> 0] /\ again = {}

-----------------------------------------------------------------------------
(* Time and the broker.                                                     *)

\* Also while threads wait for the lock of the broker, which has no time limit.
Tick ==
    /\ now < MaxTime /\ now' = now + 1
    /\ UNCHANGED <<instance, up, announced, frame, threads, seen, outcome, ran, again>>

NoThreads ==
    serving' = [s \in Slots |-> NoRequest] /\ checked' = [s \in Slots |-> 0] /\ mine' = {}

\* close(), which removes running.json, or a crash, which does not.
Down(removes) ==
    /\ up /\ up' = FALSE /\ NoThreads
    /\ announced' = IF removes THEN 0 ELSE announced
    /\ UNCHANGED <<now, instance, frame, seen, outcome, ran, again>>

Start ==
    /\ ~up /\ instance < MaxInstances
    /\ up' = TRUE /\ instance' = instance + 1 /\ announced' = instance' /\ seen' = [c \in Requests |-> 0]
    /\ UNCHANGED <<now, frame, threads, outcome, ran, again>>

-----------------------------------------------------------------------------
(* The client.                                                              *)

Send(c) ==
    /\ outcome[c] = "none"
    /\ IF announced = 0 THEN outcome' = [outcome EXCEPT ![c] = "unknown"] /\ UNCHANGED frame
       ELSE /\ outcome' = [outcome EXCEPT ![c] = "waiting"]
            /\ frame' = [frame EXCEPT ![c] = [instance |-> announced, time |-> now]]
    /\ UNCHANGED <<now, instance, up, announced, threads, seen, ran, again>>

\* Mutant: the client sends the request again.
GiveUpRetries(c) ==
    /\ outcome[c] = "waiting" /\ outcome' = [outcome EXCEPT ![c] = "none"]
    /\ UNCHANGED <<now, instance, up, announced, frame, threads, seen, ran, again>>

\* No connection, no answer in time, or not one to this request. It is never sent again.
GiveUp(c) ==
    /\ outcome[c] = "waiting" /\ outcome' = [outcome EXCEPT ![c] = "unknown"]
    /\ UNCHANGED <<now, instance, up, announced, frame, threads, seen, ran, again>>

-----------------------------------------------------------------------------
(* The threads of the server.                                               *)

\* A frame arrives: on its client's connection, or once more.
Receive(s, c, own) ==
    /\ up /\ serving[s] = NoRequest /\ frame[c] # Unsent
    /\ own => outcome[c] = "waiting" /\ \A other \in mine : serving[other] # c
    /\ serving' = [serving EXCEPT ![s] = c] /\ mine' = IF own THEN mine \cup {s} ELSE mine
    /\ again' = IF own THEN again ELSE again \cup {c}
    /\ UNCHANGED <<now, instance, up, announced, frame, checked, seen, outcome, ran>>

\* The thread answers and ends; the client may have left.
Answer(s, o) ==
    /\ serving' = [serving EXCEPT ![s] = NoRequest] /\ checked' = [checked EXCEPT ![s] = 0]
    /\ mine' = mine \ {s}
    /\ outcome' = [c \in Requests |->
                      IF s \in mine /\ c = serving[s] /\ outcome[c] = "waiting" THEN o ELSE outcome[c]]

Valid(c) == frame[c].instance = instance /\ now <= frame[c].time + Window

\* The checks before the lock.
Check(s) ==
    /\ serving[s] # NoRequest /\ checked[s] = 0
    /\ IF Valid(serving[s]) THEN checked' = [checked EXCEPT ![s] = now] /\ UNCHANGED <<serving, mine, outcome>>
       ELSE Answer(s, "refused")
    /\ UNCHANGED <<now, instance, up, announced, frame, seen, ran, again>>

\* Mutant: requests are remembered as long as they are valid.
RememberedForWindow == [c \in Requests |-> IF seen[c] + Window > now THEN seen[c] ELSE 0]

Remembered == [c \in Requests |-> IF seen[c] + Retention > now THEN seen[c] ELSE 0]

MayRun(c) == Remembered[c] = 0 /\ Cardinality({d \in Requests : Remembered[d] # 0}) < MaxSeen

\* Under the lock, old requests are forgotten and this one is remembered. The tool call
\* then answers, some time; its failures are not told apart here.
Admit(s) ==
    /\ checked[s] # 0
    /\ LET c == serving[s] IN
       IF MayRun(c)
       THEN /\ seen' = [Remembered EXCEPT ![c] = now]
            /\ ran' = [ran EXCEPT ![c] = @ + 1]
            /\ Answer(s, "done")
       ELSE seen' = Remembered /\ UNCHANGED ran /\ Answer(s, "refused")
    /\ UNCHANGED <<now, instance, up, announced, frame, again>>

\* The thread ends without an answer: a bad frame, a timeout of the connection.
Drop(s) ==
    /\ serving[s] # NoRequest /\ checked[s] = 0
    /\ serving' = [serving EXCEPT ![s] = NoRequest] /\ mine' = mine \ {s}
    /\ UNCHANGED <<now, instance, up, announced, frame, checked, seen, outcome, ran, again>>

Next ==
    \/ Tick \/ Start \/ \E b \in BOOLEAN : Down(b)
    \/ \E c \in Requests : Send(c) \/ GiveUp(c)
    \/ \E s \in Slots : Check(s) \/ Admit(s) \/ Drop(s) \/ \E c \in Requests, b \in BOOLEAN : Receive(s, c, b)

Spec == Init /\ [][Next]_vars

-----------------------------------------------------------------------------
(* Properties.                                                              *)

\* The thread has waited for the lock so long that a request which was still valid before
\* the wait may be forgotten after it.
Outwaited(s) == now + Window >= checked[s] + Retention

\* "Replay rejection" (README.md), as far as it goes: a request that ran is let through
\* again, by whatever broker, only by a thread that waited for the lock at least Retention -
\* Window between the check of its time and the look at what is remembered.
ReplayNeedsWait ==
    [][\A c \in Requests : ran[c] # 0 /\ ran'[c] # ran[c] =>
           \E s \in Slots : serving[s] = c /\ checked[s] # 0 /\ checked'[s] = 0 /\ Outwaited(s)]_vars

\* A client that has a result was served, one that was refused was not, unless its
\* frame arrived twice; "unknown" says nothing.
AnswerIsTrue ==
    \A c \in Requests :
        /\ outcome[c] = "done" => ran[c] # 0
        /\ outcome[c] = "refused" /\ ran[c] # 0 => c \in again

=============================================================================
