-------------------------- MODULE BrokerRpc_proof --------------------------
(***************************************************************************)
(* Proofs about BrokerRpc, for any requests, threads and time limits that  *)
(* satisfy BrokerRpcAssumption.                                            *)
(***************************************************************************)
EXTENDS BrokerRpc, TLAPS

Idling(s) == serving[s] = NoRequest /\ checked[s] = 0

\* A thread serves a frame that was sent; one that passed the first check did so while the
\* frame was young enough.
Serving ==
    \A s \in Slots :
        /\ serving[s] \in Requests => frame[serving[s]] # Unsent
        /\ checked[s] # 0 =>
              /\ serving[s] \in Requests /\ frame[serving[s]].instance = instance
              /\ checked[s] <= frame[serving[s]].time + Window

\* A broker that is down serves nobody.
DownIsIdle == ~up => \A s \in Slots : Idling(s)

\* What was sent is not sent again; what ran was sent.
SentOnce ==
    \A c \in Requests :
        /\ frame[c] # Unsent => outcome[c] # "none"
        /\ ran[c] # 0 => frame[c] # Unsent

\* A request that ran is remembered by the broker that it names for Retention at least,
\* counted from when its frame was sent.
Memory ==
    \A c \in Requests :
        ran[c] # 0 /\ frame[c].instance = instance =>
            \/ seen[c] # 0 /\ seen[c] >= frame[c].time
            \/ now >= frame[c].time + Retention

RpcInv == TypeOK /\ Serving /\ DownIsIdle /\ SentOnce /\ Memory

\* A thread of the client's connection is the only one, and the client waits for it or has
\* given up. Whatever else serves a request, a copy of its frame arrived.
Connections ==
    /\ \A s \in mine : serving[s] \in Requests /\ outcome[serving[s]] \in {"waiting", "unknown"}
    /\ \A s, o \in mine : serving[s] = serving[o] => s = o
    /\ \A s \in Slots \ mine : serving[s] \in Requests => serving[s] \in again

\* A request that ran although its client still waits, ran for a copy of its frame.
RanForCopy ==
    \A c \in Requests : ran[c] # 0 =>
        /\ outcome[c] = "waiting" => c \in again
        /\ \A s \in mine : serving[s] = c => c \in again

AnswerInv == Connections /\ RanForCopy /\ AnswerIsTrue

-----------------------------------------------------------------------------

\* Types, which need only the assumption on the bounds.
LEMMA TypeStep == RpcInv /\ [Next]_vars => TypeOK'
  <1> SUFFICES ASSUME RpcInv, [Next]_vars PROVE TypeOK'
    OBVIOUS
  <1> USE BrokerRpcAssumption
  <1>0. TypeOK
    BY DEF RpcInv
  <1>1. CASE Tick
    <2>1. now' \in 1 .. MaxTime /\ now \in 1 .. MaxTime /\ \A n \in 0 .. now : n \in 0 .. now'
      BY <1>0, <1>1 DEF Tick, TypeOK
    <2> QED BY <1>0, <1>1, <2>1 DEF Tick, TypeOK, threads
  <1>2. CASE Start
    <2>1. instance' \in 1 .. MaxInstances /\ instance \in 1 .. MaxInstances /\ instance' = instance + 1
      BY <1>0, <1>2 DEF Start, TypeOK
    <2>2. \A n \in 0 .. instance : n \in 0 .. instance'
      BY <2>1
    <2>3. frame' \in [Requests -> [instance : 0 .. instance', time : 0 .. now']]
      BY <1>0, <1>2, <2>2 DEF Start, TypeOK
    <2> QED BY <1>0, <1>2, <2>1, <2>3 DEF Start, TypeOK, threads
  <1>3. ASSUME NEW b \in BOOLEAN, Down(b) PROVE TypeOK'
    <2>1. 0 \in 0 .. now /\ 0 \in 0 .. instance
      BY <1>0 DEF TypeOK
    <2>2. /\ serving' \in [Slots -> Requests \cup {NoRequest}] /\ checked' \in [Slots -> 0 .. now]
          /\ mine' \subseteq Slots
      BY <1>3, <2>1 DEF Down, NoThreads
    <2>3. announced' \in 0 .. instance /\ up' \in BOOLEAN
      BY <1>0, <1>3, <2>1 DEF Down, TypeOK
    <2> QED BY <1>0, <1>3, <2>2, <2>3 DEF Down, TypeOK
  <1>4. ASSUME NEW c \in Requests, Send(c) PROVE TypeOK'
    <2>1. now \in 0 .. now /\ announced \in 0 .. instance
      BY <1>0 DEF TypeOK
    <2>2. frame' \in [Requests -> [instance : 0 .. instance, time : 0 .. now]]
      BY <1>0, <1>4, <2>1 DEF Send, TypeOK
    <2>3. outcome' \in [Requests -> {"none", "waiting", "done", "refused", "unknown"}]
      BY <1>0, <1>4 DEF Send, TypeOK
    <2> QED BY <1>0, <1>4, <2>2, <2>3 DEF Send, TypeOK, threads
  <1>5. ASSUME NEW c \in Requests, GiveUp(c) PROVE TypeOK'
    BY <1>0, <1>5 DEF GiveUp, TypeOK, threads
  <1>6. ASSUME NEW s \in Slots, NEW c \in Requests, NEW b \in BOOLEAN, Receive(s, c, b) PROVE TypeOK'
    BY <1>0, <1>6 DEF Receive, TypeOK
  <1>7. ASSUME NEW s \in Slots, Check(s) PROVE TypeOK'
    <2>1. now \in 0 .. now /\ 0 \in 0 .. now
      BY <1>0 DEF TypeOK
    <2>2. CASE Valid(serving[s])
      BY <1>0, <1>7, <2>1, <2>2 DEF Check, TypeOK
    <2>3. CASE ~Valid(serving[s])
      <3>1. Answer(s, "refused")
        BY <1>7, <2>3 DEF Check
      <3>2. outcome' \in [Requests -> {"none", "waiting", "done", "refused", "unknown"}]
        BY <1>0, <3>1 DEF Answer, TypeOK
      <3>3. /\ serving' \in [Slots -> Requests \cup {NoRequest}] /\ checked' \in [Slots -> 0 .. now]
            /\ mine' \subseteq Slots
        BY <1>0, <2>1, <3>1 DEF Answer, TypeOK
      <3> QED BY <1>0, <1>7, <3>2, <3>3 DEF Check, TypeOK
    <2> QED BY <2>2, <2>3
  <1>8. ASSUME NEW s \in Slots, Admit(s) PROVE TypeOK'
    <2>1. serving[s] \in Requests
      BY <1>8 DEF Admit, RpcInv, Serving
    <2>2. Remembered \in [Requests -> 0 .. now]
      BY <1>0 DEF Remembered, TypeOK
    <2>3. now \in 0 .. now
      BY <1>0 DEF TypeOK
    <2>4. seen' \in [Requests -> 0 .. now] /\ ran' \in [Requests -> Nat]
      BY <1>0, <1>8, <2>1, <2>2, <2>3 DEF Admit, TypeOK
    <2>5. outcome' \in [Requests -> {"none", "waiting", "done", "refused", "unknown"}]
      BY <1>0, <1>8 DEF Admit, Answer, TypeOK
    <2>6. /\ serving' \in [Slots -> Requests \cup {NoRequest}] /\ checked' \in [Slots -> 0 .. now]
          /\ mine' \subseteq Slots
      BY <1>0, <1>8, <2>3 DEF Admit, Answer, TypeOK
    <2> QED BY <1>0, <1>8, <2>4, <2>5, <2>6 DEF Admit, TypeOK
  <1>9. ASSUME NEW s \in Slots, Drop(s) PROVE TypeOK'
    BY <1>0, <1>9 DEF Drop, TypeOK
  <1>10. CASE UNCHANGED vars
    BY <1>0, <1>10 DEF vars, threads, TypeOK
  <1> QED
    BY <1>1, <1>2, <1>3, <1>4, <1>5, <1>6, <1>7, <1>8, <1>9, <1>10 DEF Next

\* A request that ran is remembered when a thread gets the lock that has not waited too long.
LEMMA RanIsRemembered ==
  ASSUME RpcInv, NEW s \in Slots, checked[s] # 0, ran[serving[s]] # 0, ~Outwaited(s)
  PROVE  Remembered[serving[s]] # 0
  <1> DEFINE c == serving[s]
  <1> USE BrokerRpcAssumption
  <1>1. c \in Requests /\ frame[c].instance = instance /\ checked[s] <= frame[c].time + Window
    BY DEF RpcInv, Serving
  <1>2. now \in Nat /\ frame[c].time \in Nat /\ seen[c] \in Nat /\ checked[s] \in Nat
    BY <1>1 DEF RpcInv, TypeOK
  <1>3. ran[c] # 0
    OBVIOUS
  <1> HIDE DEF c
  <1>4. now < frame[c].time + Retention
    BY <1>1, <1>2 DEF Outwaited
  <1>5. seen[c] # 0 /\ seen[c] >= frame[c].time
    BY <1>1, <1>2, <1>3, <1>4 DEF RpcInv, Memory
  <1>6. Remembered[c] = seen[c]
    BY <1>1, <1>2, <1>4, <1>5 DEF Remembered
  <1> QED BY <1>5, <1>6 DEF c

\* A thread ends without having let its request through, or starts: what others do and
\* what was remembered is not touched.
LEMMA ThreadStep ==
  ASSUME RpcInv, TypeOK', NEW s \in Slots,
         \A o \in Slots \ {s} : serving'[o] = serving[o] /\ checked'[o] = checked[o],
         checked'[s] = 0, serving'[s] \in Requests => frame[serving'[s]] # Unsent,
         serving'[s] = NoRequest \/ up,
         \A c \in Requests : outcome[c] # "none" => outcome'[c] # "none",
         UNCHANGED <<now, instance, up, frame, seen, ran>>
  PROVE  RpcInv'
  <1>1. Serving'
    BY DEF RpcInv, Serving
  <1>2. DownIsIdle'
    BY DEF RpcInv, DownIsIdle, Idling
  <1>3. SentOnce'
    BY DEF RpcInv, SentOnce
  <1>4. Memory'
    BY DEF RpcInv, Memory
  <1> QED BY <1>1, <1>2, <1>3, <1>4 DEF RpcInv

\* At first nothing was sent.
LEMMA RpcInit == Init => RpcInv
  <1> SUFFICES ASSUME Init PROVE RpcInv
    OBVIOUS
  <1>1. TypeOK
    <2>1. now \in 1 .. MaxTime /\ instance \in 1 .. MaxInstances /\ 0 \in 0 .. instance /\ 0 \in 0 .. now
          /\ announced \in 0 .. instance
      BY BrokerRpcAssumption DEF Init
    <2> QED BY <2>1 DEF Init, TypeOK, Unsent
  <1>2. Serving /\ DownIsIdle /\ SentOnce /\ Memory
    BY BrokerRpcAssumption DEF Init, Serving, DownIsIdle, SentOnce, Memory
  <1> QED BY <1>1, <1>2 DEF RpcInv

\* One step per action.
LEMMA RpcStep == RpcInv /\ [Next]_vars => RpcInv'
  <1> SUFFICES ASSUME RpcInv, [Next]_vars PROVE RpcInv'
    OBVIOUS
  <1> USE BrokerRpcAssumption
  <1>0. TypeOK /\ TypeOK' /\ Serving /\ DownIsIdle /\ SentOnce /\ Memory
    BY TypeStep DEF RpcInv
  <1>1. CASE Tick
    <2>0. now \in Nat /\ now' = now + 1 /\ UNCHANGED <<instance, up, frame, serving, checked, seen, outcome, ran>>
      BY <1>0, <1>1 DEF Tick, TypeOK, threads
    <2>1. Serving'
      BY <1>0, <2>0 DEF Serving
    <2>2. Memory'
      <3> SUFFICES ASSUME NEW c \in Requests, now >= frame[c].time + Retention
                   PROVE  now + 1 >= frame[c].time + Retention
        BY <1>0, <2>0 DEF Memory
      <3> QED BY <1>0, <2>0 DEF TypeOK
    <2> QED BY <1>0, <2>0, <2>1, <2>2 DEF RpcInv, DownIsIdle, Idling, SentOnce
  <1>2. CASE Start
    <2>1. Serving' /\ DownIsIdle' /\ SentOnce'
      BY <1>0, <1>2 DEF Start, Serving, DownIsIdle, Idling, SentOnce, threads
    <2>2. \A c \in Requests : frame[c].instance # instance'
      BY <1>0, <1>2 DEF Start, TypeOK
    <2>3. Memory'
      BY <1>2, <2>2 DEF Start, Memory
    <2> QED BY <1>0, <2>1, <2>3 DEF RpcInv
  <1>3. ASSUME NEW b \in BOOLEAN, Down(b) PROVE RpcInv'
    <2>1. /\ UNCHANGED <<now, instance, frame, seen, outcome, ran>>
          /\ serving' = [s \in Slots |-> NoRequest] /\ checked' = [s \in Slots |-> 0]
      BY <1>3 DEF Down, NoThreads
    <2>2. Serving' /\ DownIsIdle'
      BY <2>1 DEF Serving, DownIsIdle, Idling
    <2>3. SentOnce' /\ Memory'
      BY <1>0, <2>1 DEF SentOnce, Memory
    <2> QED BY <1>0, <2>2, <2>3 DEF RpcInv
  <1>4. ASSUME NEW c \in Requests, Send(c) PROVE RpcInv'
    <2>1. outcome[c] = "none" /\ frame[c] = Unsent /\ ran[c] = 0
      BY <1>0, <1>4 DEF Send, SentOnce
    <2>2. /\ UNCHANGED <<now, instance, up, serving, checked, seen, ran>>
          /\ \A d \in Requests \ {c} : frame'[d] = frame[d] /\ outcome'[d] = outcome[d]
          /\ outcome'[c] # "none"
      BY <1>0, <1>4 DEF Send, TypeOK, threads
    <2>3. \A s \in Slots : serving[s] # c
      BY <1>0, <2>1 DEF Serving
    <2>4. Serving' /\ DownIsIdle'
      BY <1>0, <2>2, <2>3 DEF Serving, DownIsIdle, Idling
    <2>5. SentOnce' /\ Memory'
      BY <1>0, <2>1, <2>2 DEF SentOnce, Memory
    <2> QED BY <1>0, <2>4, <2>5 DEF RpcInv
  <1>5. ASSUME NEW c \in Requests, GiveUp(c) PROVE RpcInv'
    <2>1. /\ UNCHANGED <<now, instance, up, frame, serving, checked, seen, ran>>
          /\ \A d \in Requests : outcome[d] # "none" => outcome'[d] # "none"
      BY <1>0, <1>5 DEF GiveUp, TypeOK, threads
    <2> QED
      BY <1>0, <2>1 DEF RpcInv, Serving, DownIsIdle, Idling, SentOnce, Memory
  <1>6. ASSUME NEW s \in Slots, NEW c \in Requests, NEW b \in BOOLEAN, Receive(s, c, b) PROVE RpcInv'
    <2>1. checked[s] = 0
      BY <1>0, <1>6 DEF Receive, Serving
    <2> QED BY <1>0, <1>6, <2>1, ThreadStep DEF Receive, TypeOK
  <1>7. ASSUME NEW s \in Slots, Check(s) PROVE RpcInv'
    <2>1. CASE Valid(serving[s])
      <3>1. /\ UNCHANGED <<now, instance, up, frame, serving, seen, outcome, ran>>
            /\ checked' = [checked EXCEPT ![s] = now]
        BY <1>7, <2>1 DEF Check
      <3>2. serving[s] \in Requests /\ up
        BY <1>0, <1>7 DEF Check, TypeOK, DownIsIdle, Idling
      <3>3. frame[serving[s]].instance = instance /\ now <= frame[serving[s]].time + Window
        BY <2>1 DEF Valid
      <3>6. Serving'
        BY <1>0, <3>1, <3>2, <3>3 DEF Serving, TypeOK
      <3>7. DownIsIdle' /\ SentOnce' /\ Memory'
        BY <1>0, <3>1, <3>2 DEF DownIsIdle, SentOnce, Memory
      <3> QED BY <1>0, <3>6, <3>7 DEF RpcInv
    <2>2. CASE ~Valid(serving[s])
      <3>1. Answer(s, "refused") /\ UNCHANGED <<now, instance, up, frame, seen, ran>>
        BY <1>7, <2>2 DEF Check
      <3>2. /\ \A o \in Slots \ {s} : serving'[o] = serving[o] /\ checked'[o] = checked[o]
            /\ checked'[s] = 0 /\ serving'[s] = NoRequest
        BY <1>0, <3>1 DEF Answer, TypeOK
      <3>3. \A c \in Requests : outcome[c] # "none" => outcome'[c] # "none"
        BY <3>1 DEF Answer
      <3> QED BY <1>0, <3>1, <3>2, <3>3, ThreadStep
    <2> QED BY <2>1, <2>2
  <1>8. ASSUME NEW s \in Slots, Admit(s) PROVE RpcInv'
    <2> DEFINE c == serving[s]
    <2>1. c \in Requests /\ frame[c] # Unsent /\ frame[c].instance = instance
      BY <1>0, <1>8 DEF Admit, Serving
    <2>2. PICK o \in {"done", "refused"} : Answer(s, o)
      BY <1>8 DEF Admit
    <2>3. UNCHANGED <<now, instance, up, frame>>
      BY <1>8 DEF Admit
    <2>4. /\ \A t \in Slots \ {s} : serving'[t] = serving[t] /\ checked'[t] = checked[t]
          /\ checked'[s] = 0 /\ serving'[s] = NoRequest
      BY <1>0, <2>2 DEF Answer, TypeOK
    <2>5. Serving'
      BY <1>0, <2>3, <2>4 DEF Serving
    <2>6. DownIsIdle'
      BY <1>0, <2>3, <2>4 DEF DownIsIdle, Idling
    <2>7. \A d \in Requests : outcome[d] # "none" => outcome'[d] # "none"
      BY <2>2 DEF Answer
    <2>8. \A d \in Requests : Remembered[d] = seen[d] \/ (Remembered[d] = 0 /\ now >= seen[d] + Retention)
      BY <1>0 DEF Remembered, TypeOK
    <2>9. ASSUME NEW d \in Requests, ran[d] # 0, frame[d].instance = instance
          PROVE  (Remembered[d] # 0 /\ Remembered[d] >= frame[d].time) \/ now >= frame[d].time + Retention
      <3>1. now \in Nat /\ seen[d] \in Nat /\ frame[d].time \in Nat
        BY <1>0 DEF TypeOK
      <3>2. (seen[d] # 0 /\ seen[d] >= frame[d].time) \/ now >= frame[d].time + Retention
        BY <1>0, <2>9 DEF Memory
      <3> QED BY <2>8, <3>1, <3>2
    <2>10. CASE MayRun(c)
      <3>1. seen' = [Remembered EXCEPT ![c] = now] /\ ran' = [ran EXCEPT ![c] = @ + 1]
        BY <1>8, <2>10 DEF Admit
      <3>3. now \in Nat \ {0} /\ now >= frame[c].time
        BY <1>0, <2>1 DEF TypeOK
      <3>4. /\ seen'[c] = now
            /\ \A d \in Requests \ {c} : seen'[d] = Remembered[d] /\ ran'[d] = ran[d]
        BY <1>0, <2>1, <3>1 DEF TypeOK, Remembered
      <3> HIDE DEF c
      <3>6. Memory'
        BY <2>3, <2>9, <3>3, <3>4 DEF Memory
      <3>7. SentOnce'
        BY <1>0, <2>1, <2>3, <2>7, <3>4 DEF SentOnce
      <3> QED BY <1>0, <2>5, <2>6, <3>6, <3>7 DEF RpcInv
    <2>11. CASE ~MayRun(c)
      <3>1. seen' = Remembered /\ ran' = ran
        BY <1>8, <2>11 DEF Admit
      <3>2. Memory' /\ SentOnce'
        BY <1>0, <2>3, <2>7, <2>9, <3>1 DEF Memory, SentOnce
      <3> QED BY <1>0, <2>5, <2>6, <3>2 DEF RpcInv
    <2> QED BY <2>10, <2>11
  <1>9. ASSUME NEW s \in Slots, Drop(s) PROVE RpcInv'
    BY <1>0, <1>9, ThreadStep DEF Drop, TypeOK
  <1>10. CASE UNCHANGED vars
    BY <1>0, <1>10 DEF vars, threads, RpcInv, Serving, DownIsIdle, Idling, SentOnce, Memory
  <1> QED
    BY <1>1, <1>2, <1>3, <1>4, <1>5, <1>6, <1>7, <1>8, <1>9, <1>10 DEF Next

-----------------------------------------------------------------------------
(* What a client learns.                                                    *)

\* At first no client waits.
LEMMA AnswerInit == Init => AnswerInv
  BY BrokerRpcAssumption DEF Init, AnswerInv, Connections, RanForCopy, AnswerIsTrue

\* A thread of the client's connection answers, or another one does. The request did not
\* run now, or the answer says so.
LEMMA AnswerStep ==
  ASSUME RpcInv, AnswerInv, NEW s \in Slots, serving[s] \in Requests, NEW o \in {"done", "refused"},
         Answer(s, o), again' = again,
         ran' \in [Requests -> Nat], \A d \in Requests \ {serving[s]} : ran'[d] = ran[d],
         o = "done" => ran'[serving[s]] # 0,
         o = "refused" => ran'[serving[s]] = ran[serving[s]]
  PROVE  AnswerInv'
  <1> DEFINE c == serving[s]
  <1>0. TypeOK /\ Connections /\ RanForCopy /\ AnswerIsTrue /\ SentOnce
    BY DEF RpcInv, AnswerInv
  <1>1. /\ serving' = [serving EXCEPT ![s] = NoRequest] /\ mine' = mine \ {s}
        /\ s \in mine /\ outcome[c] = "waiting" => outcome'[c] = o
        /\ ~(s \in mine /\ outcome[c] = "waiting") => outcome'[c] = outcome[c]
        /\ \A d \in Requests \ {c} : outcome'[d] = outcome[d]
        /\ \A t \in Slots \ {s} : serving'[t] = serving[t]
        /\ serving'[s] = NoRequest /\ mine \subseteq Slots
    BY <1>0 DEF Answer, TypeOK
  <1>2. c \in Requests
    OBVIOUS
  <1>3. s \in mine => (outcome[c] = "waiting" \/ outcome[c] = "unknown") /\ \A t \in mine \ {s} : serving[t] # c
    BY <1>0 DEF Connections
  <1>4. s \notin mine => c \in again
    BY <1>0, <1>2 DEF Connections
  <1>5. /\ \A d \in Requests \ {c} : ran'[d] = ran[d]
        /\ o = "done" => ran'[c] # 0
        /\ o = "refused" => ran'[c] = ran[c]
    OBVIOUS
  <1> HIDE DEF c
  <1>6. Connections'
    <2>1. \A t \in mine' : t # s /\ t \in mine /\ serving'[t] = serving[t] /\ serving[t] \in Requests
      BY <1>0, <1>1 DEF Connections
    <2>2. \A t \in mine' : outcome'[serving[t]] \in {"waiting", "unknown"}
      <3> SUFFICES ASSUME NEW t \in mine' PROVE outcome'[serving[t]] \in {"waiting", "unknown"}
        OBVIOUS
      <3>1. outcome[serving[t]] \in {"waiting", "unknown"}
        BY <1>0, <2>1 DEF Connections
      <3>2. CASE serving[t] = c
        BY <1>1, <1>3, <2>1, <3>1, <3>2
      <3>3. CASE serving[t] # c
        BY <1>1, <2>1, <3>1, <3>3
      <3> QED BY <3>2, <3>3
    <2>3. \A t \in Slots \ mine' : serving'[t] \in Requests => serving'[t] \in again
      <3> SUFFICES ASSUME NEW t \in Slots \ mine', serving'[t] \in Requests PROVE serving'[t] \in again
        OBVIOUS
      <3>1. t # s
        BY <1>1, BrokerRpcAssumption
      <3> QED BY <1>0, <1>1, <3>1 DEF Connections
    <2> QED BY <1>0, <2>1, <2>2, <2>3, again' = again DEF Connections
  <1>7. RanForCopy'
    <2> SUFFICES ASSUME NEW d \in Requests, ran'[d] # 0
                 PROVE  /\ outcome'[d] = "waiting" => d \in again
                        /\ \A t \in mine' : serving'[t] = d => d \in again
      BY again' = again DEF RanForCopy
    <2>1. CASE d # c
      BY <1>0, <1>1, <1>5, <2>1 DEF RanForCopy
    <2>2. CASE d = c /\ s \notin mine
      BY <1>4, <2>2
    <2>3. CASE d = c /\ s \in mine
      <3>1. outcome'[c] # "waiting"
        BY <1>1, <1>3, <2>3
      <3>2. \A t \in mine' : serving'[t] # c
        BY <1>1, <1>3, <2>3
      <3> QED BY <2>3, <3>1, <3>2
    <2> QED BY <2>1, <2>2, <2>3
  <1>8. AnswerIsTrue'
    <2> SUFFICES ASSUME NEW d \in Requests
                 PROVE  /\ outcome'[d] = "done" => ran'[d] # 0
                        /\ outcome'[d] = "refused" /\ ran'[d] # 0 => d \in again
      BY again' = again DEF AnswerIsTrue
    <2>1. CASE d # c
      BY <1>0, <1>1, <1>5, <2>1 DEF AnswerIsTrue
    <2>2. CASE d = c /\ s \in mine
      <3>1. CASE outcome[c] = "waiting"
        <4>1. ran[c] # 0 => c \in again
          BY <1>0, <1>2, <3>1 DEF RanForCopy
        <4> QED BY <1>1, <1>5, <2>2, <3>1, <4>1
      <3>2. CASE outcome[c] = "unknown"
        BY <1>1, <2>2, <3>2
      <3> QED BY <1>3, <2>2, <3>1, <3>2
    <2>3. CASE d = c /\ s \notin mine
      <3>1. outcome'[c] = outcome[c] /\ c \in again
        BY <1>1, <1>4, <2>3
      <3>2. outcome[c] = "done" => ran[c] # 0
        BY <1>0, <1>2 DEF AnswerIsTrue
      <3>3. ran[c] # 0 => ran'[c] # 0
        BY <1>5, o \in {"done", "refused"}
      <3> QED BY <2>3, <3>1, <3>2, <3>3
    <2> QED BY <2>1, <2>2, <2>3
  <1> QED BY <1>6, <1>7, <1>8 DEF AnswerInv

\* One step per action.
LEMMA AnswerInvStep == RpcInv /\ AnswerInv /\ [Next]_vars => AnswerInv'
  <1> SUFFICES ASSUME RpcInv, AnswerInv, [Next]_vars PROVE AnswerInv'
    OBVIOUS
  <1> USE BrokerRpcAssumption
  <1>0. TypeOK /\ Serving /\ SentOnce /\ Connections /\ RanForCopy /\ AnswerIsTrue /\ RpcInv'
    BY RpcStep DEF RpcInv, AnswerInv
  <1>1. CASE Tick \/ Start \/ UNCHANGED vars
    <2>1. UNCHANGED <<serving, mine, outcome, ran, again>>
      BY <1>1 DEF Tick, Start, vars, threads
    <2> QED BY <1>0, <2>1 DEF AnswerInv, Connections, RanForCopy, AnswerIsTrue
  <1>2. ASSUME NEW b \in BOOLEAN, Down(b) PROVE AnswerInv'
    <2>1. UNCHANGED <<outcome, ran, again>> /\ mine' = {} /\ serving' = [s \in Slots |-> NoRequest]
      BY <1>2 DEF Down, NoThreads
    <2> QED BY <1>0, <2>1 DEF AnswerInv, Connections, RanForCopy, AnswerIsTrue
  <1>3. ASSUME NEW c \in Requests, Send(c) PROVE AnswerInv'
    <2>1. outcome[c] = "none" /\ ran[c] = 0 /\ UNCHANGED <<serving, mine, ran, again>>
      BY <1>0, <1>3 DEF Send, SentOnce, threads
    <2>2. \A d \in Requests \ {c} : outcome'[d] = outcome[d]
      BY <1>0, <1>3 DEF Send, TypeOK
    <2>3. outcome'[c] \in {"waiting", "unknown"}
      BY <1>0, <1>3 DEF Send, TypeOK
    <2>4. \A s \in mine : serving[s] # c
      BY <1>0, <2>1 DEF Connections
    <2>5. Connections'
      BY <1>0, <2>1, <2>2, <2>4 DEF Connections
    <2>6. RanForCopy'
      BY <1>0, <2>1, <2>2 DEF RanForCopy
    <2>7. AnswerIsTrue'
      BY <1>0, <2>1, <2>2, <2>3 DEF AnswerIsTrue
    <2> QED BY <2>5, <2>6, <2>7 DEF AnswerInv
  <1>4. ASSUME NEW c \in Requests, GiveUp(c) PROVE AnswerInv'
    <2>1. UNCHANGED <<serving, mine, ran, again>> /\ outcome'[c] = "unknown"
          /\ \A d \in Requests \ {c} : outcome'[d] = outcome[d]
      BY <1>0, <1>4 DEF GiveUp, TypeOK, threads
    <2>2. Connections'
      BY <1>0, <2>1 DEF Connections
    <2>3. RanForCopy' /\ AnswerIsTrue'
      BY <1>0, <2>1 DEF RanForCopy, AnswerIsTrue
    <2> QED BY <2>2, <2>3 DEF AnswerInv
  <1>5. ASSUME NEW s \in Slots, NEW c \in Requests, NEW b \in BOOLEAN, Receive(s, c, b) PROVE AnswerInv'
    <2>1. /\ UNCHANGED <<outcome, ran>> /\ serving'[s] = c /\ serving[s] = NoRequest
          /\ \A t \in Slots \ {s} : serving'[t] = serving[t]
          /\ again \subseteq again' /\ mine \subseteq Slots
      BY <1>0, <1>5 DEF Receive, TypeOK
    <2>2. s \notin mine
      BY <1>0, <2>1 DEF Connections
    <2>3. CASE b
      <3>1. mine' = mine \cup {s} /\ again' = again /\ outcome[c] = "waiting" /\ \A t \in mine : serving[t] # c
        BY <1>5, <2>3 DEF Receive
      <3>2. Connections'
        BY <1>0, <2>1, <2>2, <3>1 DEF Connections
      <3>3. RanForCopy'
        BY <1>0, <2>1, <2>2, <3>1 DEF RanForCopy
      <3> QED BY <1>0, <2>1, <3>1, <3>2, <3>3 DEF AnswerInv, AnswerIsTrue
    <2>4. CASE ~b
      <3>1. mine' = mine /\ again' = again \cup {c}
        BY <1>5, <2>4 DEF Receive
      <3>2. Connections'
        BY <1>0, <2>1, <2>2, <3>1 DEF Connections
      <3>3. RanForCopy' /\ AnswerIsTrue'
        BY <1>0, <2>1, <2>2, <3>1 DEF RanForCopy, AnswerIsTrue
      <3> QED BY <3>2, <3>3 DEF AnswerInv
    <2> QED BY <2>3, <2>4
  <1>6. ASSUME NEW s \in Slots, Check(s) PROVE AnswerInv'
    <2>1. serving[s] \in Requests /\ UNCHANGED <<ran, again>>
      BY <1>0, <1>6 DEF Check, TypeOK
    <2>2. CASE Valid(serving[s])
      <3>1. UNCHANGED <<serving, mine, outcome>>
        BY <1>6, <2>2 DEF Check
      <3> QED BY <1>0, <2>1, <3>1 DEF AnswerInv, Connections, RanForCopy, AnswerIsTrue
    <2>3. CASE ~Valid(serving[s])
      <3>1. Answer(s, "refused") /\ ran' \in [Requests -> Nat]
        BY <1>0, <1>6, <2>1, <2>3 DEF Check, RpcInv, TypeOK
      <3> QED BY <2>1, <3>1, AnswerStep
    <2> QED BY <2>2, <2>3
  <1>7. ASSUME NEW s \in Slots, Admit(s) PROVE AnswerInv'
    <2>1. serving[s] \in Requests /\ again' = again /\ ran' \in [Requests -> Nat]
      BY <1>0, <1>7 DEF Admit, Serving, RpcInv, TypeOK
    <2>2. CASE MayRun(serving[s])
      <3>1. Answer(s, "done") /\ ran' = [ran EXCEPT ![serving[s]] = @ + 1]
        BY <1>7, <2>2 DEF Admit
      <3>2. ran[serving[s]] \in Nat
        BY <1>0, <2>1 DEF TypeOK
      <3>3. ran'[serving[s]] # 0 /\ \A d \in Requests \ {serving[s]} : ran'[d] = ran[d]
        BY <1>0, <2>1, <3>1, <3>2 DEF TypeOK
      <3> QED BY <2>1, <3>1, <3>3, AnswerStep
    <2>3. CASE ~MayRun(serving[s])
      <3>1. Answer(s, "refused") /\ ran' = ran
        BY <1>7, <2>3 DEF Admit
      <3> QED BY <2>1, <3>1, AnswerStep
    <2> QED BY <2>2, <2>3
  <1>8. ASSUME NEW s \in Slots, Drop(s) PROVE AnswerInv'
    <2>1. /\ UNCHANGED <<outcome, ran, again>> /\ mine' = mine \ {s} /\ serving'[s] = NoRequest
          /\ \A t \in Slots \ {s} : serving'[t] = serving[t]
          /\ mine \subseteq Slots
      BY <1>0, <1>8 DEF Drop, TypeOK
    <2>2. Connections'
      BY <1>0, <2>1 DEF Connections
    <2>3. RanForCopy' /\ AnswerIsTrue'
      BY <1>0, <2>1 DEF RanForCopy, AnswerIsTrue
    <2> QED BY <2>2, <2>3 DEF AnswerInv
  <1> QED
    BY <1>1, <1>2, <1>3, <1>4, <1>5, <1>6, <1>7, <1>8 DEF Next

-----------------------------------------------------------------------------
(* The theorems.                                                            *)

\* A request that ran is remembered for as long as a frame of it can pass a check, and every
\* thread but the client's own serves a copy.
THEOREM InductiveInvariant == Spec => [](RpcInv /\ AnswerInv)
  BY RpcInit, RpcStep, AnswerInit, AnswerInvStep, PTL DEF Spec

\* No broker lets a request through again, for any time limits, unless the thread waited for
\* the lock so long that it was forgotten meanwhile.
THEOREM ReplaysNeedWaits == Spec => ReplayNeedsWait
  <1>1. RpcInv /\ [Next]_vars =>
            [\A c \in Requests : ran[c] # 0 /\ ran'[c] # ran[c] =>
                 \E s \in Slots : serving[s] = c /\ checked[s] # 0 /\ checked'[s] = 0 /\ Outwaited(s)]_vars
    <2> SUFFICES ASSUME RpcInv, Next, NEW c \in Requests, ran[c] # 0, ran'[c] # ran[c]
                 PROVE  \E s \in Slots : serving[s] = c /\ checked[s] # 0 /\ checked'[s] = 0 /\ Outwaited(s)
      OBVIOUS
    <2>1. PICK s \in Slots : Admit(s)
      BY DEF Next, Tick, Start, Down, Send, GiveUp, Check, Drop, Receive
    <2>2. checked[s] # 0 /\ MayRun(serving[s]) /\ ran' = [ran EXCEPT ![serving[s]] = @ + 1]
      BY <2>1 DEF Admit
    <2>3. serving[s] = c
      BY <2>2 DEF RpcInv, TypeOK
    <2>4. checked'[s] = 0
      BY <2>1, <2>2 DEF Admit, Answer, RpcInv, TypeOK
    <2>5. Outwaited(s)
      BY <2>2, <2>3, RanIsRemembered DEF MayRun
    <2> QED BY <2>2, <2>3, <2>4, <2>5
  <1> QED BY <1>1, InductiveInvariant, PTL DEF Spec, ReplayNeedsWait

\* What a client is told of its request is true, up to copies of its frame.
THEOREM AnswersAreTrue == Spec => []AnswerIsTrue
  <1>1. AnswerInv => AnswerIsTrue
    BY DEF AnswerInv
  <1> QED BY InductiveInvariant, <1>1, PTL
=============================================================================
