--------------------------- MODULE Relays_proof ---------------------------
(***************************************************************************)
(* Proofs about what goes through the relays, for any relays: the          *)
(* publication of messages (Publication), the limits and cooldowns by      *)
(* which relays are selected (RelayHealth), and the subscription of a      *)
(* listener (Subscriptions). These are three specifications side by side,  *)
(* with no variable in common.                                             *)
(***************************************************************************)
EXTENDS Publication, RelayHealth, Subscriptions, FiniteSetTheorems, SequenceTheorems, TLAPS

-----------------------------------------------------------------------------
(* Publication: calls, their results and the history.                       *)

\* The records of a history.
Records == [message : Messages, result : Results \cup {"pending"}]

\* Nothing leaves before Send, once, and only to the relays that were chosen.
SentToChosen ==
    \A m \in Messages, r \in Relays :
        /\ <<m, r>> \in flying => <<m, r>> \notin has
        /\ <<m, r>> \in has \cup flying =>
              /\ step[m] \notin {"new", "started", "selected"}
              /\ step[m] \in {"sending", "answered"} => r \in chosen[m]

\* What the SDK knows of a relay is true, if it is not all that happened.
AnswersAreTrue ==
    \A m \in Messages, r \in Relays :
        /\ answer[m][r] = "accepted" => <<m, r>> \in has
        /\ answer[m][r] = "refused" => <<m, r>> \notin has \cup flying
        /\ step[m] = "answered" /\ r \in chosen[m] => answer[m][r] # "none"
        /\ answer[m][r] # "none" => step[m] \in {"sending", "answered"}

\* A result is true from the moment when the publisher is left.
ResultsAreTrue ==
    \A m \in Messages : step[m] \in {"over", "returned"} => result[m] \in Results /\ Holds(m, result[m])

\* The history has the results of calls that returned, and no others.
RecordsAreResults ==
    \A i \in DOMAIN publications :
        LET p == publications[i] IN
        p.result # "pending" => step[p.message] = "returned" /\ p.result = result[p.message]

\* Every call of a live session is in the history or was dropped from a full one.
CallsAreListed ==
    \A m \in Messages : live /\ step[m] # "new" =>
        \/ m \in MessagesOf(publications)
        \/ m \in lost /\ Len(publications) = MaxRecords

\* The inductive invariant.
PubInv ==
    /\ TypeOK /\ SentToChosen /\ AnswersAreTrue
    /\ ResultsAreTrue /\ RecordsAreResults /\ CallsAreListed

-----------------------------------------------------------------------------
(* The history.                                                             *)

\* The records are those of messages.
LEMMA RecordFacts ==
  ASSUME TypeOK
  PROVE  /\ publications \in Seq(Records) /\ Len(publications) \in Nat /\ Len(publications) <= MaxRecords
         /\ DOMAIN publications = 1 .. Len(publications)
         /\ \A i \in DOMAIN publications : publications[i] \in Records /\ publications[i].message \in Messages
         /\ MessagesOf(publications) \subseteq Messages
  <1>1. publications \in Seq(Records) /\ Len(publications) <= MaxRecords
    BY DEF TypeOK, Records
  <1>2. Len(publications) \in Nat /\ DOMAIN publications = 1 .. Len(publications)
    BY <1>1, LenProperties
  <1>3. \A i \in DOMAIN publications : publications[i] \in Records
    BY <1>1, <1>2, ElementOfSeq
  <1>4. \A i \in DOMAIN publications : publications[i].message \in Messages
    BY <1>3 DEF Records
  <1>5. MessagesOf(publications) \subseteq Messages
    BY <1>4 DEF MessagesOf
  <1> QED BY <1>1, <1>2, <1>3, <1>4, <1>5

\* One record is added, and the oldest is dropped if there are too many.
LEMMA NewestProperties ==
  ASSUME NEW s \in Seq(Records), Len(s) <= MaxRecords, NEW e \in Records,
         NEW new, new = Newest(Append(s, e))
  PROVE  /\ new \in Seq(Records) /\ Len(new) <= MaxRecords
         /\ \A i \in DOMAIN new : new[i] = e \/ \E j \in DOMAIN s : new[i] = s[j]
         /\ e.message \in MessagesOf(new)
         /\ Len(s) = MaxRecords => Len(new) = MaxRecords
         /\ Len(s) # MaxRecords => MessagesOf(s) \subseteq MessagesOf(new)
  <1> DEFINE a == Append(s, e)
             n == Len(s)
  <1>1. /\ a \in Seq(Records) /\ Len(a) = n + 1 /\ DOMAIN a = 1 .. n + 1
        /\ a[n + 1] = e /\ \A i \in 1 .. n : a[i] = s[i]
        /\ n \in Nat /\ DOMAIN s = 1 .. n /\ n <= MaxRecords
    BY AppendProperties, LenProperties
  <1> HIDE DEF a, n
  <1>2. MaxRecords \in Nat \ {0}
    BY PublicationAssumption
  <1>3. CASE n + 1 <= MaxRecords
    <2>1. new = a
      BY <1>1, <1>3 DEF Newest, a
    <2>2. n # MaxRecords
      BY <1>1, <1>2, <1>3
    <2>3. e.message \in MessagesOf(a)
      BY <1>1 DEF MessagesOf
    <2>4. MessagesOf(s) \subseteq MessagesOf(a)
      <3> SUFFICES ASSUME NEW i \in 1 .. n PROVE s[i].message \in MessagesOf(a)
        BY <1>1 DEF MessagesOf
      <3>1. i \in DOMAIN a /\ a[i] = s[i]
        BY <1>1
      <3> QED BY <3>1 DEF MessagesOf
    <2>5. \A i \in DOMAIN a : a[i] = e \/ \E j \in DOMAIN s : a[i] = s[j]
      <3> SUFFICES ASSUME NEW i \in 1 .. n + 1 PROVE a[i] = e \/ \E j \in DOMAIN s : a[i] = s[j]
        BY <1>1
      <3>1. i = n + 1 \/ i \in 1 .. n
        BY <1>1
      <3> QED BY <1>1, <3>1
    <2> QED BY <1>1, <1>3, <2>1, <2>2, <2>3, <2>4, <2>5 DEF n
  <1>4. CASE ~(n + 1 <= MaxRecords)
    <2>1. n = MaxRecords
      BY <1>1, <1>2, <1>4
    <2>2. new = SubSeq(a, 2, n + 1)
      <3>1. Len(a) - MaxRecords + 1 = 2
        BY <1>1, <1>2, <2>1
      <3> QED BY <1>1, <1>4, <3>1 DEF Newest, a
    <2>3. \A i \in 2 .. n + 1 : a[i] \in Records
      BY <1>1, <1>2, ElementOfSeq
    <2>4. /\ new \in Seq(Records) /\ Len(new) = n
          /\ \A i \in 1 .. n : new[i] = a[i + 1]
      <3>1. PICK p \in Int : p = n + 1
        BY <1>1
      <3>2. /\ SubSeq(a, 2, p) \in Seq(Records)
            /\ Len(SubSeq(a, 2, p)) = IF 2 <= p THEN p - 2 + 1 ELSE 0
            /\ \A i \in 1 .. p - 2 + 1 : SubSeq(a, 2, p)[i] = a[2 + i - 1]
        <4>1. \A i \in 2 .. p : a[i] \in Records
          BY <2>3, <3>1
        <4> QED BY <4>1, SubSeqProperties
      <3>3. new = SubSeq(a, 2, p)
        BY <2>2, <3>1
      <3>4. /\ new \in Seq(Records)
            /\ Len(new) = IF 2 <= p THEN p - 2 + 1 ELSE 0
            /\ \A i \in 1 .. p - 2 + 1 : new[i] = a[2 + i - 1]
        BY <3>2, <3>3
      <3>5. n >= 1 /\ p - 2 + 1 = n /\ 2 <= p /\ \A i \in 1 .. n : 2 + i - 1 = i + 1
        BY <1>1, <1>2, <2>1, <3>1
      <3> QED BY <3>4, <3>5
    <2>5. DOMAIN new = 1 .. n
      BY <2>4, LenProperties
    <2>6. e.message \in MessagesOf(new)
      <3>1. n \in DOMAIN new /\ new[n] = e
        BY <1>1, <1>2, <2>1, <2>4, <2>5
      <3> QED BY <3>1 DEF MessagesOf
    <2>7. \A i \in DOMAIN new : new[i] = e \/ \E j \in DOMAIN s : new[i] = s[j]
      <3> SUFFICES ASSUME NEW i \in 1 .. n PROVE new[i] = e \/ \E j \in DOMAIN s : new[i] = s[j]
        BY <2>5
      <3>1. i = n \/ i + 1 \in 1 .. n
        BY <1>1
      <3> QED BY <1>1, <2>4, <3>1
    <2> QED BY <1>1, <2>1, <2>4, <2>6, <2>7 DEF n
  <1> QED BY <1>3, <1>4

\* The result of a call is noted at its record.
LEMMA RecordedProperties ==
  ASSUME TypeOK, NEW m \in Messages, result[m] \in Results
  PROVE  /\ Recorded(m) \in Seq(Records) /\ Len(Recorded(m)) = Len(publications)
         /\ DOMAIN Recorded(m) = DOMAIN publications
         /\ \A i \in DOMAIN publications :
               /\ Recorded(m)[i].message = publications[i].message
               /\ Recorded(m)[i].result =
                     IF publications[i].message = m THEN result[m] ELSE publications[i].result
         /\ MessagesOf(Recorded(m)) = MessagesOf(publications)
  <1>1. publications \in Seq(Records)
    BY DEF TypeOK, Records
  <1>2. DOMAIN publications = 1 .. Len(publications) /\ Len(publications) \in Nat
        /\ \A i \in DOMAIN publications : publications[i] \in Records
    BY <1>1, LenProperties, ElementOfSeq
  <1>3. \A i \in DOMAIN publications :
           Recorded(m)[i] = IF publications[i].message = m THEN [message |-> m, result |-> result[m]]
                            ELSE publications[i]
    BY DEF Recorded
  <1>4. \A i \in DOMAIN publications : Recorded(m)[i] \in Records
    BY <1>2, <1>3 DEF Records
  <1>5. Recorded(m) \in Seq(Records) /\ Len(Recorded(m)) = Len(publications)
        /\ DOMAIN Recorded(m) = DOMAIN publications
    <2>1. DOMAIN Recorded(m) = 1 .. Len(publications)
      BY <1>2 DEF Recorded
    <2>2. Recorded(m) \in [1 .. Len(publications) -> Records]
      BY <1>2, <1>4, <2>1 DEF Recorded
    <2>3. Recorded(m) \in Seq(Records)
      BY <1>2, <2>2, SeqDef
    <2>4. Len(Recorded(m)) = Len(publications)
      BY <1>2, <2>1, <2>3, LenProperties
    <2> QED BY <1>2, <2>1, <2>3, <2>4
  <1>6. MessagesOf(Recorded(m)) = MessagesOf(publications)
    BY <1>3, <1>5 DEF MessagesOf
  <1> QED BY <1>3, <1>5, <1>6

-----------------------------------------------------------------------------
(* The inductive invariant.                                                 *)

\* At first nothing is sent.
LEMMA PubInit == Init => PubInv
  BY PublicationAssumption, EmptySeq
  DEF Init, PubInv, TypeOK, SentToChosen, AnswersAreTrue, ResultsAreTrue, RecordsAreResults,
      CallsAreListed, MessagesOf, NoAnswer, Results

\* A publisher is left with a result that is true.
LEMMA LeaveStep ==
  ASSUME PubInv, NEW m \in Messages, NEW from \in SUBSET {"started", "selected", "sending", "answered"},
         NEW r \in Results, Leave(m, from, r), Holds(m, r)
  PROVE  PubInv'
  <1>0. TypeOK /\ SentToChosen /\ AnswersAreTrue /\ ResultsAreTrue /\ RecordsAreResults /\ CallsAreListed
    BY DEF PubInv
  <1>1. /\ step[m] \in {"started", "selected", "sending", "answered"}
        /\ step' = [step EXCEPT ![m] = "over"] /\ result' = [result EXCEPT ![m] = r]
        /\ chosen' = [chosen EXCEPT ![m] = {}] /\ answer' = [answer EXCEPT ![m] = NoAnswer]
        /\ UNCHANGED <<live, publications, has, flying, lost, crashes>>
    BY DEF Leave, relays
  <1>2. NoAnswer \in [Relays -> {"none", "accepted", "refused", "unclear"}]
    BY DEF NoAnswer
  <1>3. TypeOK'
    BY <1>0, <1>1, <1>2 DEF TypeOK
  <1>4. SentToChosen'
    BY <1>0, <1>1 DEF SentToChosen, TypeOK
  <1>5. AnswersAreTrue'
    <2> SUFFICES ASSUME NEW d \in Messages, NEW o \in Relays
                 PROVE  /\ answer'[d][o] = "accepted" => <<d, o>> \in has
                        /\ answer'[d][o] = "refused" => <<d, o>> \notin has \cup flying
                        /\ step'[d] = "answered" /\ o \in chosen'[d] => answer'[d][o] # "none"
                        /\ answer'[d][o] # "none" => step'[d] \in {"sending", "answered"}
      BY <1>1 DEF AnswersAreTrue
    <2>1. CASE d = m
      <3>1. answer'[m][o] = "none" /\ step'[m] = "over"
        BY <1>0, <1>1 DEF TypeOK, NoAnswer
      <3> QED BY <2>1, <3>1
    <2>2. CASE d # m
      <3>1. answer'[d] = answer[d] /\ step'[d] = step[d] /\ chosen'[d] = chosen[d]
        BY <1>0, <1>1, <2>2 DEF TypeOK
      <3> QED BY <1>0, <3>1 DEF AnswersAreTrue
    <2> QED BY <2>1, <2>2
  <1>6. ResultsAreTrue'
    BY <1>0, <1>1 DEF ResultsAreTrue, TypeOK, Holds, Taken, MayBeTaken
  <1>7. RecordsAreResults'
    <2> SUFFICES ASSUME NEW i \in DOMAIN publications, publications[i].result # "pending"
                 PROVE  /\ step'[publications[i].message] = "returned"
                        /\ publications[i].result = result'[publications[i].message]
      BY <1>1 DEF RecordsAreResults
    <2>1. step[publications[i].message] = "returned" /\ publications[i].result = result[publications[i].message]
      BY <1>0 DEF RecordsAreResults
    <2>2. publications[i].message # m
      BY <1>1, <2>1
    <2> QED BY <1>0, <1>1, <2>1, <2>2 DEF TypeOK
  <1>8. CallsAreListed'
    BY <1>0, <1>1 DEF CallsAreListed, TypeOK
  <1> QED BY <1>3, <1>4, <1>5, <1>6, <1>7, <1>8 DEF PubInv

\* A step of one publisher, of the SDK or of a relay that changes no history.
LEMMA PublisherStep ==
  ASSUME PubInv, TypeOK', NEW m \in Messages,
         \A d \in Messages \ {m} : step'[d] = step[d] /\ chosen'[d] = chosen[d] /\ answer'[d] = answer[d],
         step[m] # "new", step[m] \in {"over", "returned"} => step'[m] = step[m],
         step'[m] \in {"over", "returned"} => step[m] \in {"over", "returned"},
         UNCHANGED <<live, publications, result, lost>>,
         has \subseteq has', \A d \in Messages, r \in Relays : <<d, r>> \in has' \cup flying' =>
                                <<d, r>> \in has \cup flying \/ (d = m /\ step[m] = "selected"),
         SentToChosen', AnswersAreTrue'
  PROVE  PubInv'
  <1>0. TypeOK /\ ResultsAreTrue /\ RecordsAreResults /\ CallsAreListed
    BY DEF PubInv
  <1>1. ResultsAreTrue'
    <2> SUFFICES ASSUME NEW d \in Messages, step'[d] \in {"over", "returned"}
                 PROVE  result[d] \in Results /\ Holds(d, result[d])'
      BY DEF ResultsAreTrue
    <2>1. step[d] \in {"over", "returned"} /\ result[d] \in Results /\ Holds(d, result[d])
      BY <1>0 DEF ResultsAreTrue
    <2>2. Taken(d) => Taken(d)'
      BY DEF Taken
    <2>3. MayBeTaken(d)' => MayBeTaken(d)
      BY <2>1 DEF MayBeTaken
    <2> QED BY <2>1, <2>2, <2>3 DEF Holds
  <1>2. RecordsAreResults'
    <2> SUFFICES ASSUME NEW i \in DOMAIN publications, publications[i].result # "pending"
                 PROVE  /\ step'[publications[i].message] = "returned"
                        /\ publications[i].result = result[publications[i].message]
      BY DEF RecordsAreResults
    <2>1. step[publications[i].message] = "returned" /\ publications[i].result = result[publications[i].message]
      BY <1>0 DEF RecordsAreResults
    <2>2. publications[i].message \in Messages
      BY <1>0, RecordFacts
    <2> QED BY <2>1, <2>2
  <1>3. CallsAreListed'
    <2>1. \A d \in Messages : step'[d] # "new" => step[d] # "new"
      OBVIOUS
    <2> QED BY <1>0, <2>1 DEF CallsAreListed
  <1> QED BY <1>1, <1>2, <1>3 DEF PubInv

\* One step per action.
LEMMA PubStep == PubInv /\ [Next]_vars => PubInv'
  <1> SUFFICES ASSUME PubInv, [Next]_vars PROVE PubInv'
    OBVIOUS
  <1>0. TypeOK /\ SentToChosen /\ AnswersAreTrue /\ ResultsAreTrue /\ RecordsAreResults /\ CallsAreListed
    BY DEF PubInv
  <1>1. ASSUME NEW m \in Messages, Begin(m) PROVE PubInv'
    <2> DEFINE e == [message |-> m, result |-> "pending"]
    <2>1. /\ live /\ step[m] = "new" /\ publications' = Newest(Append(publications, e))
          /\ lost' = lost \cup (MessagesOf(publications) \ MessagesOf(publications'))
          /\ step' = [step EXCEPT ![m] = "started"]
          /\ UNCHANGED <<live, chosen, answer, result, has, flying, crashes>>
      BY <1>1 DEF Begin, relays
    <2>2. e \in Records /\ publications \in Seq(Records) /\ Len(publications) <= MaxRecords
      BY <1>0 DEF TypeOK, Records
    <2>3. e.message = m /\ e.result = "pending"
      OBVIOUS
    <2> HIDE DEF e
    <2>4. /\ publications' \in Seq(Records) /\ Len(publications') <= MaxRecords
          /\ \A i \in DOMAIN publications' :
                publications'[i] = e \/ \E j \in DOMAIN publications : publications'[i] = publications[j]
          /\ m \in MessagesOf(publications')
          /\ Len(publications) = MaxRecords => Len(publications') = MaxRecords
          /\ Len(publications) # MaxRecords => MessagesOf(publications) \subseteq MessagesOf(publications')
      BY <2>1, <2>2, <2>3, NewestProperties
    <2>5. lost' \subseteq Messages
      <3>1. MessagesOf(publications) \subseteq Messages
        BY <1>0, RecordFacts
      <3> QED BY <1>0, <2>1, <3>1 DEF TypeOK
    <2>6. TypeOK'
      BY <1>0, <2>1, <2>4, <2>5 DEF TypeOK, Records
    <2>7. SentToChosen' /\ AnswersAreTrue'
      BY <1>0, <2>1 DEF SentToChosen, AnswersAreTrue, TypeOK
    <2>8. ResultsAreTrue'
      BY <1>0, <2>1 DEF ResultsAreTrue, TypeOK, Holds, Taken, MayBeTaken
    <2>9. RecordsAreResults'
      <3> SUFFICES ASSUME NEW i \in DOMAIN publications', publications'[i].result # "pending"
                   PROVE  /\ step'[publications'[i].message] = "returned"
                          /\ publications'[i].result = result[publications'[i].message]
        BY <2>1 DEF RecordsAreResults
      <3>1. PICK j \in DOMAIN publications : publications'[i] = publications[j]
        BY <2>3, <2>4
      <3>2. step[publications[j].message] = "returned" /\ publications[j].result = result[publications[j].message]
        BY <1>0, <3>1 DEF RecordsAreResults
      <3> QED BY <1>0, <2>1, <3>1, <3>2 DEF TypeOK
    <2>10. CallsAreListed'
      <3> SUFFICES ASSUME NEW d \in Messages, step'[d] # "new"
                   PROVE  \/ d \in MessagesOf(publications')
                          \/ d \in lost' /\ Len(publications') = MaxRecords
        BY DEF CallsAreListed
      <3>1. CASE d = m
        BY <2>4, <3>1
      <3>2. CASE d # m
        <4>1. d \in MessagesOf(publications) \/ (d \in lost /\ Len(publications) = MaxRecords)
          BY <1>0, <2>1, <3>2 DEF CallsAreListed, TypeOK
        <4> QED BY <2>1, <2>4, <4>1
      <3> QED BY <3>1, <3>2
    <2> QED BY <2>6, <2>7, <2>8, <2>9, <2>10 DEF PubInv
  <1>2. ASSUME NEW m \in Messages, NEW rs \in SUBSET Relays, Select(m, rs) PROVE PubInv'
    <2>1. /\ step[m] = "started" /\ step' = [step EXCEPT ![m] = "selected"]
          /\ chosen' = [chosen EXCEPT ![m] = rs]
          /\ UNCHANGED <<live, publications, answer, result, has, flying, lost, crashes>>
      BY <1>2 DEF Select, relays
    <2>2. TypeOK'
      BY <1>0, <2>1 DEF TypeOK
    <2>3. SentToChosen' /\ AnswersAreTrue'
      BY <1>0, <2>1 DEF SentToChosen, AnswersAreTrue, TypeOK
    <2> QED BY <1>0, <2>1, <2>2, <2>3, PublisherStep DEF TypeOK
  <1>3. ASSUME NEW m \in Messages, NEW rs \in SUBSET Relays, Send(m, rs) PROVE PubInv'
    <2>1. /\ step[m] = "selected" /\ step' = [step EXCEPT ![m] = "sending"]
          /\ chosen' = [chosen EXCEPT ![m] = rs] /\ flying' = flying \cup ({m} \X rs)
          /\ UNCHANGED <<live, publications, answer, result, has, lost, crashes>>
      BY <1>3 DEF Send
    <2>2. TypeOK'
      BY <1>0, <2>1 DEF TypeOK
    <2>3. \A r \in Relays : <<m, r>> \notin has \cup flying
      BY <1>0, <2>1 DEF SentToChosen
    <2>4. \A d \in Messages, r \in Relays : <<d, r>> \in flying' <=> <<d, r>> \in flying \/ (d = m /\ r \in rs)
      BY <2>1
    <2>5. SentToChosen'
      BY <1>0, <2>1, <2>3, <2>4 DEF SentToChosen, TypeOK
    <2>6. AnswersAreTrue'
      <3> SUFFICES ASSUME NEW d \in Messages, NEW r \in Relays
                   PROVE  /\ answer[d][r] = "accepted" => <<d, r>> \in has
                          /\ answer[d][r] = "refused" => <<d, r>> \notin has \cup flying'
                          /\ step'[d] = "answered" /\ r \in chosen'[d] => answer[d][r] # "none"
                          /\ answer[d][r] # "none" => step'[d] \in {"sending", "answered"}
        BY <2>1 DEF AnswersAreTrue
      <3>1. CASE d # m
        BY <1>0, <2>1, <2>4, <3>1 DEF AnswersAreTrue, TypeOK
      <3>2. CASE d = m
        <4>1. answer[m][r] = "none"
          BY <1>0, <2>1 DEF AnswersAreTrue
        <4> QED BY <1>0, <2>1, <3>2, <4>1 DEF TypeOK
      <3> QED BY <3>1, <3>2
    <2> QED BY <1>0, <2>1, <2>2, <2>4, <2>5, <2>6, PublisherStep DEF TypeOK
  <1>4. ASSUME NEW m \in Messages, NEW r \in Relays, Arrive(m, r) PROVE PubInv'
    <2>1. PICK taken \in BOOLEAN :
             /\ has' = IF taken THEN has \cup {<<m, r>>} ELSE has
             /\ IF step[m] = "sending" /\ answer[m][r] = "none"
                THEN \E a \in {"unclear", IF taken THEN "accepted" ELSE "refused"} :
                        answer' = [answer EXCEPT ![m][r] = a]
                ELSE UNCHANGED answer
      BY <1>4 DEF Arrive
    <2>2. /\ <<m, r>> \in flying /\ flying' = flying \ {<<m, r>>}
          /\ UNCHANGED <<live, publications, step, chosen, result, lost, crashes>>
      BY <1>4 DEF Arrive
    <2>3. has \subseteq has' /\ has' \subseteq has \cup {<<m, r>>}
      BY <2>1
    <2>4. \A d \in Messages, o \in Relays : answer'[d][o] = answer[d][o] \/
             /\ d = m /\ o = r /\ step[m] = "sending"
             /\ \/ answer'[d][o] = "unclear"
                \/ answer'[d][o] = "accepted" /\ <<m, r>> \in has'
                \/ answer'[d][o] = "refused" /\ has' = has
      <3>1. CASE step[m] = "sending" /\ answer[m][r] = "none" /\ taken
        BY <1>0, <2>1, <3>1 DEF TypeOK
      <3>2. CASE step[m] = "sending" /\ answer[m][r] = "none" /\ ~taken
        BY <1>0, <2>1, <3>2 DEF TypeOK
      <3>3. CASE ~(step[m] = "sending" /\ answer[m][r] = "none")
        BY <2>1, <3>3
      <3> QED BY <3>1, <3>2, <3>3
    <2>5. answer' \in [Messages -> [Relays -> {"none", "accepted", "refused", "unclear"}]]
      <3>1. answer \in [Messages -> [Relays -> {"none", "accepted", "refused", "unclear"}]]
        BY <1>0 DEF TypeOK
      <3>2. CASE step[m] = "sending" /\ answer[m][r] = "none"
        <4>1. PICK a \in {"unclear", "accepted", "refused"} : answer' = [answer EXCEPT ![m][r] = a]
          BY <2>1, <3>2
        <4> QED BY <3>1, <4>1
      <3>3. CASE ~(step[m] = "sending" /\ answer[m][r] = "none")
        BY <2>1, <3>1, <3>3
      <3> QED BY <3>2, <3>3
    <2>6. TypeOK'
      BY <1>0, <2>2, <2>3, <2>5 DEF TypeOK
    <2>7. SentToChosen'
      BY <1>0, <2>2, <2>3 DEF SentToChosen
    <2>9. <<m, r>> \in flying => answer[m][r] # "refused"
      BY <1>0 DEF AnswersAreTrue
    <2>10. AnswersAreTrue'
      <3> SUFFICES ASSUME NEW d \in Messages, NEW o \in Relays
                   PROVE  /\ answer'[d][o] = "accepted" => <<d, o>> \in has'
                          /\ answer'[d][o] = "refused" => <<d, o>> \notin has' \cup flying'
                          /\ step[d] = "answered" /\ o \in chosen[d] => answer'[d][o] # "none"
                          /\ answer'[d][o] # "none" => step[d] \in {"sending", "answered"}
        BY <2>2 DEF AnswersAreTrue
      <3>1. CASE answer'[d][o] = answer[d][o]
        <4>1. answer[d][o] = "refused" => <<d, o>> # <<m, r>>
          BY <2>2, <2>9
        <4> QED BY <1>0, <2>2, <2>3, <3>1, <4>1 DEF AnswersAreTrue
      <3>2. CASE d = m /\ o = r /\ step[m] = "sending" /\ answer'[d][o] = "unclear"
        BY <3>2
      <3>3. CASE d = m /\ o = r /\ step[m] = "sending" /\ answer'[d][o] = "accepted" /\ <<m, r>> \in has'
        BY <3>3
      <3>4. CASE d = m /\ o = r /\ step[m] = "sending" /\ answer'[d][o] = "refused" /\ has' = has
        <4>1. <<m, r>> \notin has
          BY <1>0, <2>2 DEF SentToChosen
        <4> QED BY <2>2, <3>4, <4>1
      <3> QED BY <2>4, <3>1, <3>2, <3>3, <3>4
    <2>11. step[m] # "new"
      BY <1>0, <2>2 DEF SentToChosen
    <2>12. \A d \in Messages \ {m} : answer'[d] = answer[d]
      BY <1>0, <2>1 DEF TypeOK
    <2>13. \A d \in Messages, o \in Relays : <<d, o>> \in has' \cup flying' => <<d, o>> \in has \cup flying
      BY <2>2, <2>3
    <2> QED BY <2>2, <2>3, <2>6, <2>7, <2>10, <2>11, <2>12, <2>13, PublisherStep
  <1>5. ASSUME NEW m \in Messages, NEW r \in Relays, GiveUpOn(m, r) PROVE PubInv'
    <2>1. /\ step[m] = "sending" /\ answer[m][r] = "none" /\ answer' = [answer EXCEPT ![m][r] = "unclear"]
          /\ UNCHANGED <<live, publications, step, chosen, result, has, flying, lost, crashes>>
      BY <1>5 DEF GiveUpOn, relays
    <2>2. TypeOK'
      BY <1>0, <2>1 DEF TypeOK
    <2>3. \A d \in Messages, o \in Relays :
             answer'[d][o] = answer[d][o] \/ (d = m /\ o = r /\ answer'[d][o] = "unclear")
      BY <1>0, <2>1 DEF TypeOK
    <2>4. AnswersAreTrue'
      <3> SUFFICES ASSUME NEW d \in Messages, NEW o \in Relays
                   PROVE  /\ answer'[d][o] = "accepted" => <<d, o>> \in has
                          /\ answer'[d][o] = "refused" => <<d, o>> \notin has \cup flying
                          /\ step[d] = "answered" /\ o \in chosen[d] => answer'[d][o] # "none"
                          /\ answer'[d][o] # "none" => step[d] \in {"sending", "answered"}
        BY <2>1 DEF AnswersAreTrue
      <3>1. CASE answer'[d][o] = answer[d][o]
        BY <1>0, <3>1 DEF AnswersAreTrue
      <3>2. CASE d = m /\ o = r /\ answer'[d][o] = "unclear"
        BY <2>1, <3>2
      <3> QED BY <2>3, <3>1, <3>2
    <2>5. SentToChosen'
      BY <1>0, <2>1 DEF SentToChosen
    <2>6. \A d \in Messages \ {m} : answer'[d] = answer[d]
      BY <1>0, <2>1 DEF TypeOK
    <2> QED BY <2>1, <2>2, <2>4, <2>5, <2>6, PublisherStep
  <1>6. ASSUME NEW m \in Messages, Collect(m) PROVE PubInv'
    <2>1. /\ step[m] = "sending" /\ \A r \in chosen[m] : answer[m][r] # "none"
          /\ step' = [step EXCEPT ![m] = "answered"]
          /\ UNCHANGED <<live, publications, chosen, answer, result, has, flying, lost, crashes>>
      BY <1>6 DEF Collect, relays
    <2>2. TypeOK'
      BY <1>0, <2>1 DEF TypeOK
    <2>3. SentToChosen' /\ AnswersAreTrue'
      BY <1>0, <2>1 DEF SentToChosen, AnswersAreTrue, TypeOK
    <2> QED BY <1>0, <2>1, <2>2, <2>3, PublisherStep DEF TypeOK
  <1>7. ASSUME NEW m \in Messages, NotSent(m) PROVE PubInv'
    <2>1. step[m] \in {"started", "selected"}
      BY <1>7 DEF NotSent, Leave
    <2>2. Holds(m, "not_sent")
      BY <1>0, <2>1 DEF Holds, MayBeTaken, SentToChosen
    <2> QED BY <1>7, <2>2, LeaveStep DEF NotSent, Results
  <1>8. ASSUME NEW m \in Messages, Fail(m) PROVE PubInv'
    <2>1. Holds(m, "failed")
      BY DEF Holds
    <2> QED BY <1>8, <2>1, LeaveStep DEF Fail, Results
  <1>9. ASSUME NEW m \in Messages, SdkRaises(m) \/ TimeOut(m) PROVE PubInv'
    <2>1. Holds(m, "unknown")
      BY DEF Holds
    <2> QED BY <1>9, <2>1, LeaveStep DEF SdkRaises, TimeOut, Results
  <1>10. ASSUME NEW m \in Messages, Classify(m) PROVE PubInv'
    <2>1. step[m] = "answered"
      BY <1>10 DEF Classify, Leave
    <2>2. Verdict(m) \in Results
      BY DEF Verdict, Results
    <2>3. CASE \E r \in chosen[m] : answer[m][r] = "accepted"
      <3>1. Verdict(m) = "published" /\ Taken(m)
        BY <1>0, <2>3 DEF Verdict, Taken, AnswersAreTrue, TypeOK
      <3>2. Holds(m, Verdict(m))
        BY <3>1 DEF Holds
      <3> QED BY <1>10, <2>2, <3>2, LeaveStep DEF Classify
    <2>4. CASE Verdict(m) = "rejected"
      <3>1. \A r \in chosen[m] : answer[m][r] = "refused"
        <4> SUFFICES ASSUME NEW r \in chosen[m] PROVE answer[m][r] = "refused"
          OBVIOUS
        <4>1. answer[m][r] \notin {"accepted", "unclear"}
          BY <2>4 DEF Verdict
        <4>2. r \in Relays /\ answer[m][r] \in {"none", "accepted", "refused", "unclear"}
          BY <1>0 DEF TypeOK
        <4>3. answer[m][r] # "none"
          BY <1>0, <2>1, <4>2 DEF AnswersAreTrue
        <4> QED BY <4>1, <4>2, <4>3
      <3>2. ~MayBeTaken(m)
        BY <1>0, <2>1, <3>1 DEF MayBeTaken, AnswersAreTrue, SentToChosen, TypeOK
      <3>3. Holds(m, Verdict(m))
        BY <2>4, <3>2 DEF Holds
      <3> QED BY <1>10, <2>2, <3>3, LeaveStep DEF Classify
    <2>5. CASE Verdict(m) = "unknown"
      <3>1. Holds(m, Verdict(m))
        BY <2>5 DEF Holds
      <3> QED BY <1>10, <2>2, <3>1, LeaveStep DEF Classify
    <2>6. Verdict(m) = "published" => \E r \in chosen[m] : answer[m][r] = "accepted"
      BY DEF Verdict
    <2> QED BY <2>3, <2>4, <2>5, <2>6 DEF Verdict
  <1>11. ASSUME NEW m \in Messages, Return(m) PROVE PubInv'
    <2>1. /\ step[m] = "over" /\ step' = [step EXCEPT ![m] = "returned"]
          /\ publications' = IF live THEN Recorded(m) ELSE publications
          /\ UNCHANGED <<live, chosen, answer, result, has, flying, lost, crashes>>
      BY <1>11 DEF Return, relays
    <2>2. result[m] \in Results
      BY <1>0, <2>1 DEF ResultsAreTrue
    <2>3. /\ publications' \in Seq(Records) /\ Len(publications') = Len(publications)
          /\ DOMAIN publications' = DOMAIN publications
          /\ \A i \in DOMAIN publications :
                /\ publications'[i].message = publications[i].message
                /\ publications'[i].result = publications[i].result
                   \/ (publications[i].message = m /\ publications'[i].result = result[m])
          /\ MessagesOf(publications') = MessagesOf(publications)
      <3>1. CASE live
        <4>1. publications' = Recorded(m)
          BY <2>1, <3>1
        <4>2. /\ Recorded(m) \in Seq(Records) /\ Len(Recorded(m)) = Len(publications)
              /\ DOMAIN Recorded(m) = DOMAIN publications
              /\ \A i \in DOMAIN publications :
                    /\ Recorded(m)[i].message = publications[i].message
                    /\ Recorded(m)[i].result =
                          IF publications[i].message = m THEN result[m] ELSE publications[i].result
              /\ MessagesOf(Recorded(m)) = MessagesOf(publications)
          BY <1>0, <2>2, RecordedProperties
        <4>3. MessagesOf(publications') = MessagesOf(publications)
          BY <4>1, <4>2, Zenon
        <4> HIDE DEF Recorded, MessagesOf
        <4> QED BY <4>1, <4>2, <4>3
      <3>2. CASE ~live
        <4>1. publications' = publications
          BY <2>1, <3>2
        <4>2. publications \in Seq(Records)
          BY <1>0, RecordFacts
        <4>3. MessagesOf(publications') = MessagesOf(publications)
          BY <4>1, Zenon
        <4> QED BY <4>1, <4>2, <4>3
      <3> QED BY <3>1, <3>2
    <2>4. TypeOK'
      BY <1>0, <2>1, <2>3 DEF TypeOK, Records
    <2>5. SentToChosen' /\ AnswersAreTrue'
      BY <1>0, <2>1 DEF SentToChosen, AnswersAreTrue, TypeOK
    <2>6. ResultsAreTrue'
      BY <1>0, <2>1 DEF ResultsAreTrue, TypeOK, Holds, Taken, MayBeTaken
    <2>7. RecordsAreResults'
      <3> SUFFICES ASSUME NEW i \in DOMAIN publications, publications'[i].result # "pending"
                   PROVE  /\ step'[publications[i].message] = "returned"
                          /\ publications'[i].result = result[publications[i].message]
        BY <2>1, <2>3 DEF RecordsAreResults
      <3>1. CASE publications[i].message = m /\ publications'[i].result = result[m]
        BY <1>0, <2>1, <3>1 DEF TypeOK
      <3>2. CASE publications'[i].result = publications[i].result
        <4>1. step[publications[i].message] = "returned" /\ publications[i].result = result[publications[i].message]
          BY <1>0, <3>2 DEF RecordsAreResults
        <4> QED BY <1>0, <2>1, <3>2, <4>1 DEF TypeOK
      <3> QED BY <2>3, <3>1, <3>2
    <2>8. CallsAreListed'
      BY <1>0, <2>1, <2>3 DEF CallsAreListed, TypeOK
    <2> QED BY <2>4, <2>5, <2>6, <2>7, <2>8 DEF PubInv
  <1>12. CASE Revoke
    <2>1. publications' = <<>> /\ live' = FALSE /\ UNCHANGED <<step, chosen, answer, result, has, flying, lost, crashes>>
      BY <1>12 DEF Revoke, call, relays
    <2>2. <<>> \in Seq([message : Messages, result : Results \cup {"pending"}]) /\ Len(<<>>) = 0 /\ DOMAIN <<>> = {}
      BY EmptySeq
    <2>3. 0 <= MaxRecords
      BY PublicationAssumption
    <2>4. TypeOK'
      BY <1>0, <2>1, <2>2, <2>3 DEF TypeOK
    <2>5. SentToChosen' /\ AnswersAreTrue' /\ ResultsAreTrue'
      BY <1>0, <2>1 DEF SentToChosen, AnswersAreTrue, ResultsAreTrue, Holds, Taken, MayBeTaken
    <2>6. RecordsAreResults' /\ CallsAreListed'
      BY <2>1, <2>2 DEF RecordsAreResults, CallsAreListed
    <2> QED BY <2>4, <2>5, <2>6 DEF PubInv
  <1>13. CASE Crash
    <2>1. /\ crashes < MaxCrashes /\ crashes' = crashes + 1
          /\ step' = [m \in Messages |-> IF step[m] \in {"new", "returned"} THEN step[m] ELSE "crashed"]
          /\ chosen' = [m \in Messages |-> {}] /\ answer' = [m \in Messages |-> NoAnswer]
          /\ UNCHANGED <<live, publications, result, has, flying, lost>>
      BY <1>13 DEF Crash, relays
    <2>2. TypeOK'
      <3>1. crashes' \in 0 .. MaxCrashes
        BY <1>0, <2>1, PublicationAssumption DEF TypeOK
      <3>2. answer' \in [Messages -> [Relays -> {"none", "accepted", "refused", "unclear"}]]
        BY <2>1 DEF NoAnswer
      <3>3. step' \in [Messages -> {"new", "started", "selected", "sending", "answered", "over", "returned", "crashed"}]
            /\ chosen' \in [Messages -> SUBSET Relays]
        BY <1>0, <2>1 DEF TypeOK
      <3> QED BY <1>0, <2>1, <3>1, <3>2, <3>3 DEF TypeOK
    <2>3. SentToChosen' /\ AnswersAreTrue'
      BY <1>0, <2>1 DEF SentToChosen, AnswersAreTrue, NoAnswer
    <2>4. ResultsAreTrue'
      BY <1>0, <2>1 DEF ResultsAreTrue, Holds, Taken, MayBeTaken
    <2>5. RecordsAreResults'
      <3> SUFFICES ASSUME NEW i \in DOMAIN publications, publications[i].result # "pending"
                   PROVE  /\ step'[publications[i].message] = "returned"
                          /\ publications[i].result = result[publications[i].message]
        BY <2>1 DEF RecordsAreResults
      <3>1. publications[i].message \in Messages
        BY <1>0, RecordFacts
      <3>2. step[publications[i].message] = "returned" /\ publications[i].result = result[publications[i].message]
        BY <1>0 DEF RecordsAreResults
      <3> QED BY <2>1, <3>1, <3>2
    <2>6. CallsAreListed'
      BY <1>0, <2>1 DEF CallsAreListed
    <2> QED BY <2>2, <2>3, <2>4, <2>5, <2>6 DEF PubInv
  <1>14. CASE UNCHANGED vars
    <2>1. UNCHANGED <<live, publications, step, chosen, answer, result, flying, has, lost, crashes>>
      BY <1>14 DEF vars, call, relays
    <2>2. TypeOK'
      BY <1>0, <2>1 DEF TypeOK
    <2>3. SentToChosen' /\ AnswersAreTrue'
      BY <1>0, <2>1 DEF SentToChosen, AnswersAreTrue
    <2>4. ResultsAreTrue'
      BY <1>0, <2>1 DEF ResultsAreTrue, Holds, Taken, MayBeTaken
    <2>5. RecordsAreResults'
      BY <1>0, <2>1 DEF RecordsAreResults
    <2>6. CallsAreListed'
      BY <1>0, <2>1 DEF CallsAreListed, MessagesOf
    <2> QED BY <2>2, <2>3, <2>4, <2>5, <2>6 DEF PubInv
  <1> QED
    BY <1>1, <1>2, <1>3, <1>4, <1>5, <1>6, <1>7, <1>8, <1>9, <1>10, <1>11, <1>12, <1>13, <1>14 DEF Next

-----------------------------------------------------------------------------
(* The theorems.                                                            *)

\* The answers of relays, the results of calls and the records of the history say no more
\* than what happened.
THEOREM InductiveInvariant == Spec => []PubInv
  BY PubInit, PubStep, PTL DEF Spec

\* Type correctness, of which the bound of the history is part.
THEOREM TypeCorrect == Spec => []TypeOK
  <1>1. PubInv => TypeOK
    BY DEF PubInv
  <1> QED BY InductiveInvariant, <1>1, PTL

\* Whatever the relays, the SDK, time-outs and crashes do, a caller is not told something
\* false about its message.
THEOREM ResultsHold == Spec => []ResultIsTrue
  <1>1. PubInv => ResultIsTrue
    BY DEF PubInv, ResultsAreTrue, ResultIsTrue
  <1> QED BY InductiveInvariant, <1>1, PTL

\* Nor does the history say it later, and it lists what relays may have, up to its bound.
THEOREM HistoryHolds == Spec => []HistoryIsTrue
  <1>1. PubInv => HistoryIsTrue
    <2> SUFFICES ASSUME PubInv PROVE HistoryIsTrue
      OBVIOUS
    <2>1. \A i \in DOMAIN publications : Holds(publications[i].message, publications[i].result)
      <3> SUFFICES ASSUME NEW i \in DOMAIN publications
                   PROVE  Holds(publications[i].message, publications[i].result)
        OBVIOUS
      <3>1. publications[i].message \in Messages
        BY RecordFacts DEF PubInv
      <3>2. CASE publications[i].result = "pending"
        BY <3>2 DEF Holds
      <3>3. CASE publications[i].result # "pending"
        BY <3>1, <3>3 DEF PubInv, RecordsAreResults, ResultsAreTrue
      <3> QED BY <3>2, <3>3
    <2>2. ASSUME NEW m \in Messages, live, MayBeTaken(m), m \notin MessagesOf(publications)
          PROVE  m \in lost /\ Len(publications) = MaxRecords
      <3>1. step[m] # "new"
        BY <2>2 DEF PubInv, SentToChosen, MayBeTaken
      <3> QED BY <2>2, <3>1 DEF PubInv, CallsAreListed
    <2> QED BY <2>1, <2>2 DEF HistoryIsTrue
  <1> QED BY InductiveInvariant, <1>1, PTL

-----------------------------------------------------------------------------
(* RelayHealth: limits, cooldowns and two clocks.                           *)

\* Limits are recorded by the wall clock of that time, at most a fetch after the relay gave
\* them.
Dated(h) == \E k \in Skews : h.checked - k \in h.said .. h.said + MaxFetch

\* A thread is in no step for longer than it may take, and selects by limits that were in the
\* cache when it began to, or that were stored since.
Timely(t) ==
    t.step # "idle" =>
        /\ t.since <= now
        /\ now <= t.since + (IF t.step = "selecting" THEN MaxPublish ELSE MaxFetch)
        /\ t.step = "answered" => t.said \in t.since .. now
        /\ t.step = "selecting" => t.since - health[t.relay].said < CacheSeconds + MaxFetch + Drift

LimitsInv == (\A r \in Relays : Dated(health[r])) /\ (\A t \in Threads : Timely(thread[t]))

\* An entry without a cooldown, or with one that a refusal of its own serial number set.
Cooldown(h) ==
    \/ h.until = NoUntil /\ h.wait = 0
    \/ /\ h.until.serial \in 1 .. results /\ h.refused <= now
       /\ \E k \in Skews : h.until.time = h.refused + k + h.wait

\* A deadline of a process is about a refusal of the past; if it is about the one on file, it
\* keeps its wait, and ends.
Kept(d, h) ==
    /\ d.until.serial <= results
    /\ d.until = NoUntil => d.end <= now
    /\ d.until = h.until /\ d.until # NoUntil =>
          /\ d.end >= h.refused + h.wait - Drift
          /\ d.end <= now \/ d.end <= h.refused + MaxCooldown + Drift

CooldownInv ==
    /\ \A r \in Relays : Cooldown(health[r])
    /\ \A p \in Processes, r \in Relays : Kept(deadlines[p][r], health[r])

\* An entry that is written.
LEMMA EntryWritten ==
    ASSUME NEW r \in Relays, NEW e \in Entries, e.wait <= MaxCooldown, HealthTypeOK,
           known' = known \cup {r}, health' = [health EXCEPT ![r] = e]
    PROVE  /\ known' \subseteq Relays /\ health' \in [Relays -> Entries]
           /\ \A q \in Relays : health'[q].wait <= MaxCooldown /\ (q \notin known' => health'[q] = NoEntry)
  BY DEF HealthTypeOK

\* A refusal writes a wait that is capped, and a cooldown of its own number.
RefusedBy(r, s, w) ==
    [health[r] EXCEPT !.strikes = s, !.refused = now, !.wait = w,
                      !.until = [serial |-> results + 1, time |-> wall + w]]

LEMMA RefusedEntry ==
    ASSUME HealthTypeOK, results < MaxResults,
           NEW r \in Relays, NEW c \in Categories, Refused(r, c)
    PROVE  \E s \in 0 .. MaxStrikes, w \in Int :
              w <= MaxCooldown /\ health' = [health EXCEPT ![r] = RefusedBy(r, s, w)]
  <1> DEFINE s == Smaller(MaxStrikes, health[r].strikes + 1)
             w == Wait(c, s)
  <1>1. health \in [Relays -> Entries] /\ health[r] \in Entries
    BY DEF HealthTypeOK
  <1>2. s \in 1 .. MaxStrikes /\ s \in 0 .. MaxStrikes
    BY <1>1, RelayHealthAssumption DEF Entries, Smaller
  <1>3. w \in Int /\ w <= MaxCooldown
    <2>1. Base(c) * 2 ^ (s - 1) \in Int
      <3>1. 2 ^ (s - 1) \in Int
        BY <1>2
      <3> HIDE DEF s
      <3> QED BY <3>1, RelayHealthAssumption
    <2> HIDE DEF s
    <2> QED BY <2>1, RelayHealthAssumption DEF Wait, Smaller
  <1>4. health' = [health EXCEPT ![r] = RefusedBy(r, s, w)]
    BY DEF Refused, RefusedBy
  <1> HIDE DEF s, w
  <1> QED BY <1>2, <1>3, <1>4

\* Types of the file, the clocks, the deadlines and the threads.
LEMMA HealthTypes ==
    ASSUME HealthTypeOK, [HealthNext]_healthVars
    PROVE  HealthTypeOK'
  <1>1. CASE Tick
    BY <1>1, RelayHealthAssumption DEF HealthTypeOK, Tick, file
  <1>2. CASE SetClock
    BY <1>2, RelayHealthAssumption DEF HealthTypeOK, SetClock, file
  <1>3. ASSUME NEW p \in Processes, Forget(p) PROVE HealthTypeOK'
    BY <1>3 DEF HealthTypeOK, Forget, file, clocks, Deadlines
  <1>4. ASSUME NEW p \in Processes, NEW r \in Relays, Look(p, r) PROVE HealthTypeOK'
    <2>1. Deadline(p, r) \in Deadlines
      <3> DEFINE left == health[r].until.time - wall
                 end == now + Smaller(MaxCooldown, IF left < 0 THEN 0 ELSE left)
      <3>1. health[r].until \in Untils /\ health[r].until.time \in Int /\ now \in Int /\ skew \in Int
        BY RelayHealthAssumption DEF HealthTypeOK, Entries, Untils
      <3>2. end \in Int
        BY <3>1, RelayHealthAssumption DEF Smaller, wall
      <3>3. Deadline(p, r) \in {deadlines[p][r], [until |-> health[r].until, end |-> end]}
        BY DEF Deadline
      <3> HIDE DEF end
      <3> QED BY <3>1, <3>2, <3>3 DEF HealthTypeOK, Deadlines
    <2> QED BY <1>4, <2>1 DEF HealthTypeOK, Look, file, clocks
  <1>5. ASSUME NEW t \in Threads, NEW s \in {Idle} \cup Works, thread' = [thread EXCEPT ![t] = s],
               UNCHANGED <<clocks, file, deadlines, results>>
        PROVE HealthTypeOK'
    BY <1>5 DEF HealthTypeOK, file, clocks
  <1>6. ASSUME NEW t \in Threads, Answer(t) \/ End(t) \/ \E r \in Relays : Discover(t, r)
        PROVE  HealthTypeOK'
    <2>1. CASE Answer(t)
      <3>1. thread[t] \in Works /\ now \in Int
        BY <2>1 DEF HealthTypeOK, Answer, Idle
      <3>2. [thread[t] EXCEPT !.step = "answered", !.said = now] \in Works
        BY <3>1 DEF Works
      <3> QED BY <1>5, <2>1, <3>2 DEF Answer
    <2>2. CASE End(t)
      BY <1>5, <2>2 DEF End
    <2>3. ASSUME NEW r \in Relays, Discover(t, r) PROVE HealthTypeOK'
      <3>1. [relay |-> r, since |-> now, step |-> IF Fresh(r) THEN "selecting" ELSE "fetching",
             said |-> Never] \in Works
        BY DEF HealthTypeOK, Works, Never
      <3> QED BY <1>5, <2>3, <3>1 DEF Discover
    <2> QED BY <1>6, <2>1, <2>2, <2>3
  <1>7. ASSUME NEW t \in Threads, Store(t) PROVE HealthTypeOK'
    <2>1. CASE NoRoom(thread[t].relay)
      BY <1>5, <1>7, <2>1 DEF Store
    <2>2. CASE ~NoRoom(thread[t].relay)
      <3> DEFINE r == thread[t].relay
                 e == [health[r] EXCEPT !.checked = wall, !.said = thread[t].said]
                 s == [thread[t] EXCEPT !.step = "selecting", !.since = now]
      <3>0. thread[t] \in Works /\ now \in 0 .. MaxTime /\ skew \in Int
        BY <1>7, RelayHealthAssumption DEF HealthTypeOK, Store, Idle
      <3>1. r \in Relays /\ s \in Works
        BY <3>0 DEF Works
      <3>3. health[r] \in Entries /\ health[r].wait <= MaxCooldown
        BY <3>1 DEF HealthTypeOK
      <3>4. wall \in Int /\ thread[t].said \in Int
        BY <3>0 DEF Works, wall
      <3>5. e \in Entries /\ e.wait <= MaxCooldown
        BY <3>3, <3>4 DEF Entries
      <3>2. /\ known' = known \cup {r} /\ health' = [health EXCEPT ![r] = e]
            /\ thread' = [thread EXCEPT ![t] = s] /\ UNCHANGED <<clocks, deadlines, results>>
        BY <1>7, <2>2 DEF Store
      <3> HIDE DEF r, e, s
      <3> QED BY <3>1, <3>2, <3>5, EntryWritten DEF HealthTypeOK, clocks
    <2> QED BY <2>1, <2>2
  <1>8. ASSUME NEW r \in Relays, Observe(r) PROVE HealthTypeOK'
    <2>1. results' \in 0 .. MaxResults /\ results < MaxResults /\ UNCHANGED <<clocks, deadlines, thread>>
      BY <1>8, RelayHealthAssumption DEF HealthTypeOK, Observe
    <2>2. CASE UNCHANGED file
      BY <2>1, <2>2 DEF HealthTypeOK, file, clocks
    <2>3. ASSUME NEW e \in Entries, e.wait <= MaxCooldown, known' = known \cup {r},
                 health' = [health EXCEPT ![r] = e]
          PROVE  HealthTypeOK'
      BY <2>1, <2>3, EntryWritten DEF HealthTypeOK, clocks
    <2>4. CASE Accepted(r)
      <3> DEFINE e == [health[r] EXCEPT !.strikes = 0, !.until = NoUntil, !.refused = Never,
                                        !.wait = 0]
      <3>1. health[r] \in Entries
        BY DEF HealthTypeOK
      <3>2. /\ NoUntil \in Untils /\ Never \in Int
            /\ 0 \in 0 .. MaxStrikes /\ 0 \in Int /\ 0 <= MaxCooldown
        BY RelayHealthAssumption DEF NoUntil, Untils, Never
      <3>3. e \in Entries /\ e.wait <= MaxCooldown
        BY <3>1, <3>2 DEF Entries
      <3> QED BY <2>3, <2>4, <3>3 DEF Accepted
    <2>5. ASSUME NEW c \in Categories, Refused(r, c) PROVE HealthTypeOK'
      <3>1. PICK s \in 0 .. MaxStrikes, w \in Int :
                w <= MaxCooldown /\ health' = [health EXCEPT ![r] = RefusedBy(r, s, w)]
        BY <2>1, <2>5, RefusedEntry
      <3>3. health[r] \in Entries /\ now \in Int /\ wall \in Int /\ results + 1 \in 0 .. MaxResults
        BY <2>1, RelayHealthAssumption DEF HealthTypeOK, wall
      <3>4. [serial |-> results + 1, time |-> wall + w] \in Untils
        BY <3>3 DEF Untils
      <3>2. RefusedBy(r, s, w) \in Entries /\ RefusedBy(r, s, w).wait <= MaxCooldown
        BY <3>1, <3>3, <3>4 DEF RefusedBy, Entries
      <3> QED BY <2>3, <2>5, <3>1, <3>2 DEF Refused
    <2> QED BY <1>8, <2>2, <2>4, <2>5 DEF Observe
  <1>9. CASE UNCHANGED healthVars
    BY <1>9 DEF HealthTypeOK, healthVars, clocks, file
  <1> QED BY <1>1, <1>2, <1>3, <1>4, <1>6, <1>7, <1>8, <1>9 DEF HealthNext

-----------------------------------------------------------------------------

\* What a step does to the time and to the entries.
LEMMA HealthStep ==
    ASSUME HealthTypeOK, [HealthNext]_healthVars
    PROVE  /\ now' = now \/ (now' = now + 1 /\ Tick)
           /\ \/ UNCHANGED health
              \/ \E t \in Threads : Store(t) /\ ~NoRoom(thread[t].relay)
              \/ \E r \in Relays :
                    /\ results' = results + 1 /\ UNCHANGED <<clocks, deadlines, thread>>
                    /\ Accepted(r) \/ \E s \in 0 .. MaxStrikes, w \in Int :
                          w <= MaxCooldown /\ health' = [health EXCEPT ![r] = RefusedBy(r, s, w)]
  <1>1. CASE Tick \/ SetClock
    BY <1>1 DEF Tick, SetClock, file
  <1>2. ASSUME NEW p \in Processes, Forget(p) \/ \E r \in Relays : Look(p, r)
        PROVE  UNCHANGED <<now, health>>
    BY <1>2 DEF Forget, Look, clocks, file
  <1>3. ASSUME NEW t \in Threads, Answer(t) \/ End(t) \/ \E r \in Relays : Discover(t, r)
        PROVE  UNCHANGED <<now, health>>
    BY <1>3 DEF Answer, End, Discover, clocks, file
  <1>4. ASSUME NEW t \in Threads, Store(t)
        PROVE  UNCHANGED now /\ (UNCHANGED health \/ ~NoRoom(thread[t].relay))
    BY <1>4 DEF Store, clocks, file
  <1>5. ASSUME NEW r \in Relays, Observe(r)
        PROVE  /\ UNCHANGED now
               /\ \/ UNCHANGED health
                  \/ /\ results' = results + 1 /\ UNCHANGED <<clocks, deadlines, thread>>
                     /\ Accepted(r) \/ \E s \in 0 .. MaxStrikes, w \in Int :
                           w <= MaxCooldown /\ health' = [health EXCEPT ![r] = RefusedBy(r, s, w)]
    BY <1>5, RefusedEntry DEF Observe, clocks, file
  <1>6. CASE UNCHANGED healthVars
    BY <1>6 DEF healthVars, clocks, file
  <1> QED BY <1>1, <1>2, <1>3, <1>4, <1>5, <1>6 DEF HealthNext

\* Limits are stored at most a fetch after they were given.
LEMMA LimitsStored ==
    ASSUME HealthTypeOK, LimitsInv, [HealthNext]_healthVars,
           NEW r \in Relays
    PROVE  /\ Dated(health'[r])
           /\ health'[r].said = health[r].said \/ (health'[r].said \in now - MaxFetch .. now)
  <1>0. health \in [Relays -> Entries] /\ now \in Int /\ skew \in Skews /\ skew \in Int
    <2>1. Skews \subseteq Int /\ MaxTime \in Nat
      BY RelayHealthAssumption
    <2>2. health \in [Relays -> Entries]
      BY DEF HealthTypeOK
    <2>3. now \in Int
      BY <2>1 DEF HealthTypeOK
    <2>4. skew \in Skews
      BY DEF HealthTypeOK
    <2> QED BY <2>1, <2>2, <2>3, <2>4
  <1>1. Dated(health[r])
    BY DEF LimitsInv
  <1>2. CASE health'[r].checked = health[r].checked /\ health'[r].said = health[r].said
    BY <1>1, <1>2 DEF Dated
  <1>3. ASSUME NEW t \in Threads, Store(t), ~NoRoom(thread[t].relay), r = thread[t].relay
        PROVE  Dated(health'[r]) /\ health'[r].said \in now - MaxFetch .. now
    <2>1. thread[t] \in Works /\ thread[t].step = "answered"
      BY <1>3 DEF HealthTypeOK, Store, Idle
    <2>2. thread[t].said \in Int /\ thread[t].since \in Int
      BY <2>1 DEF Works
    <2>3. thread[t].since <= thread[t].said /\ thread[t].said <= now /\ now <= thread[t].since + MaxFetch
      BY <2>1, <2>2, <1>0 DEF LimitsInv, Timely
    <2>4. health'[r].checked = now + skew /\ health'[r].said = thread[t].said
      BY <1>0, <1>3 DEF Store, wall, Entries
    <2>5. health'[r].checked - skew = now
      BY <1>0, <2>4
    <2> QED BY <1>0, <2>2, <2>3, <2>4, <2>5, RelayHealthAssumption DEF Dated
  <1>4. CASE UNCHANGED health
    BY <1>2, <1>4
  <1>5. ASSUME NEW t \in Threads, Store(t), ~NoRoom(thread[t].relay), r # thread[t].relay
        PROVE  UNCHANGED health[r]
    BY <1>0, <1>5 DEF Store
  <1>6. ASSUME NEW q \in Relays,
               Accepted(q) \/ \E s \in 0 .. MaxStrikes, w \in Int :
                   w <= MaxCooldown /\ health' = [health EXCEPT ![q] = RefusedBy(q, s, w)]
        PROVE  health'[r].checked = health[r].checked /\ health'[r].said = health[r].said
    <2>1. CASE r # q
      BY <1>0, <1>6, <2>1 DEF Accepted
    <2>2. CASE r = q /\ Accepted(q)
      BY <1>0, <2>2 DEF Accepted, Entries
    <2>3. ASSUME NEW s \in 0 .. MaxStrikes, NEW w \in Int, r = q, health' = [health EXCEPT ![q] = RefusedBy(q, s, w)]
          PROVE  health'[r].checked = health[r].checked /\ health'[r].said = health[r].said
      <3>1. health'[r] = RefusedBy(r, s, w) /\ health[r] \in Entries
        BY <1>0, <2>3
      <3> QED BY <3>1 DEF RefusedBy, Entries
    <2> QED BY <1>6, <2>1, <2>2, <2>3
  <1> QED BY <1>2, <1>3, <1>4, <1>5, <1>6, HealthStep


\* A thread selects by limits that are recent enough, whatever others store meanwhile.
LEMMA LimitsStep ==
    ASSUME HealthTypeOK, LimitsInv, [HealthNext]_healthVars
    PROVE  LimitsInv'
  <1>1. \A r \in Relays : Dated(health[r])'
    BY LimitsStored DEF Dated
  <1> SUFFICES ASSUME NEW t \in Threads PROVE Timely(thread[t])'
    BY <1>1 DEF LimitsInv
  <1>2. /\ now \in Int /\ skew \in Skews /\ skew \in Int /\ thread \in [Threads -> {Idle} \cup Works]
        /\ health \in [Relays -> Entries]
        /\ CacheSeconds \in Nat \ {0} /\ MaxFetch \in Nat \ {0} /\ MaxPublish \in Nat \ {0} /\ Drift \in Nat
    BY RelayHealthAssumption DEF HealthTypeOK
  <1>3. HealthTypeOK' /\ Timely(thread[t]) /\ (thread[t].step # "idle" => thread[t] \in Works)
    BY <1>2, HealthTypes DEF LimitsInv, Idle
  \* Nothing happens to t but that time passes, or that its limits are stored again.
  <1>4. ASSUME thread'[t] = thread[t],
               thread[t].step # "idle" =>
                   now' <= thread[t].since + (IF thread[t].step = "selecting" THEN MaxPublish ELSE MaxFetch)
        PROVE  Timely(thread[t])'
    <2> SUFFICES ASSUME thread[t].step # "idle" PROVE Timely(thread[t])'
      BY <1>4 DEF Timely
    <2>1. thread[t].since \in Int /\ thread[t].said \in Int /\ thread[t].relay \in Relays
      BY <1>3 DEF Works
    <2>2. now' \in Int /\ now <= now'
      BY <1>2, HealthStep
    <2>3. ASSUME thread[t].step = "selecting"
          PROVE  thread[t].since - health'[thread[t].relay].said < CacheSeconds + MaxFetch + Drift
      <3> DEFINE r == thread[t].relay
      <3>1. health[r].said \in Int /\ health'[r].said \in Int
        BY <1>2, <1>3, <2>1 DEF HealthTypeOK, Entries
      <3>2. thread[t].since <= now /\ thread[t].since - health[r].said < CacheSeconds + MaxFetch + Drift
        BY <1>3, <2>3 DEF Timely
      <3>3. health'[r].said = health[r].said \/ (health'[r].said \in now - MaxFetch .. now)
        BY <2>1, LimitsStored
      <3> HIDE DEF r
      <3> QED BY <1>2, <2>1, <3>1, <3>2, <3>3 DEF r
    <2> QED BY <1>2, <1>3, <1>4, <2>1, <2>2, <2>3 DEF Timely
  <1>5. CASE Tick
    <2>1. thread'[t] = thread[t]
      BY <1>5 DEF Tick
    <2>2. ASSUME thread[t].step # "idle"
          PROVE  now' <= thread[t].since + (IF thread[t].step = "selecting" THEN MaxPublish ELSE MaxFetch)
      <3>1. thread[t].since \in Int
        BY <1>3, <2>2 DEF Works
      <3>2. /\ now < thread[t].since + (IF thread[t].step = "selecting" THEN MaxPublish ELSE MaxFetch)
            /\ now' = now + 1
        BY <1>5, <2>2 DEF Tick
      <3> QED BY <1>2, <3>1, <3>2
    <2> QED BY <1>4, <2>1, <2>2
  <1>6. CASE thread'[t] = thread[t] /\ UNCHANGED now
    BY <1>3, <1>4, <1>6 DEF Timely
  <1>7. CASE Answer(t)
    <2>1. thread[t] \in Works /\ thread[t].step = "fetching"
      BY <1>3, <1>7 DEF Answer
    <2>2. /\ thread'[t].since = thread[t].since /\ thread'[t].step = "answered" /\ thread'[t].said = now
          /\ now' = now /\ thread[t].since \in Int
      BY <1>2, <1>7, <2>1 DEF Answer, Works, clocks
    <2> QED BY <1>2, <1>3, <2>1, <2>2 DEF Timely
  <1>8. CASE thread'[t] = Idle
    BY <1>8 DEF Idle, Timely
  <1>9. CASE Store(t) /\ thread'[t] # Idle
    <2>1. thread[t] \in Works /\ thread[t].step = "answered"
      BY <1>3, <1>9 DEF Store
    <2>2. thread[t].said \in Int /\ thread[t].since \in Int /\ thread[t].relay \in Relays
      BY <2>1 DEF Works
    <2>3. ~NoRoom(thread[t].relay)
      BY <1>2, <1>9 DEF Store
    <2>4. /\ thread' = [thread EXCEPT ![t].step = "selecting", ![t].since = now] /\ now' = now
          /\ health' = [health EXCEPT ![thread[t].relay] =
                                [@ EXCEPT !.checked = wall, !.said = thread[t].said]]
      BY <1>9, <2>3 DEF Store, clocks
    <2>5. thread'[t].since = now /\ thread'[t].step = "selecting" /\ thread'[t].relay = thread[t].relay
      BY <1>2, <2>1, <2>4 DEF Works
    <2>6. health'[thread[t].relay].said = thread[t].said
      BY <1>2, <2>2, <2>4 DEF Entries
    <2>7. now - thread[t].said <= MaxFetch
      BY <1>2, <1>3, <2>1, <2>2 DEF Timely
    <2>8. now - health'[thread'[t].relay].said < CacheSeconds + MaxFetch + Drift
      <3>1. health'[thread'[t].relay].said = thread[t].said
        BY <2>5, <2>6
      <3> QED BY <1>2, <2>2, <2>7, <3>1
    <2>9. now <= now + MaxPublish /\ now' = now
      BY <1>2, <2>4
    <2> QED BY <1>2, <2>5, <2>8, <2>9 DEF Timely
  <1>10. ASSUME NEW r \in Relays, Discover(t, r) PROVE Timely(thread[t])'
    <2>1. /\ thread'[t].since = now /\ thread'[t].relay = r /\ now' = now /\ health' = health
          /\ thread'[t].step = IF Fresh(r) THEN "selecting" ELSE "fetching"
      BY <1>2, <1>10 DEF Discover, clocks, file
    <2>2. ASSUME Fresh(r) PROVE now - health[r].said < CacheSeconds + MaxFetch + Drift
      <3>1. health[r].checked \in Int /\ health[r].said \in Int
        BY <1>2 DEF Entries
      <3>2. PICK k \in Skews : health[r].checked - k \in health[r].said .. health[r].said + MaxFetch
        BY DEF LimitsInv, Dated
      <3>3. k \in Int /\ k - skew <= Drift
        BY <1>2, <3>2, RelayHealthAssumption
      <3>4. (now + skew) - health[r].checked < CacheSeconds
        BY <2>2 DEF Fresh, wall
      <3> QED BY <1>2, <3>1, <3>2, <3>3, <3>4
    <2> QED BY <1>2, <2>1, <2>2 DEF Timely
  <1>11. ASSUME NEW u \in Threads,
                Answer(u) \/ Store(u) \/ End(u) \/ \E r \in Relays : Discover(u, r)
         PROVE  u = t \/ (thread'[t] = thread[t] /\ UNCHANGED now)
    BY <1>2, <1>11 DEF Answer, Store, End, Discover, clocks
  <1>12. ASSUME End(t) PROVE thread'[t] = Idle
    BY <1>2, <1>12 DEF End
  <1>13. CASE UNCHANGED <<thread, now>>
    BY <1>6, <1>13
  <1>14. ASSUME NEW p \in Processes, Forget(p) \/ \E r \in Relays : Look(p, r)
         PROVE  UNCHANGED <<thread, now>>
    BY <1>14 DEF Forget, Look, clocks
  <1>15. ASSUME NEW r \in Relays, Observe(r) PROVE UNCHANGED <<thread, now>>
    BY <1>15 DEF Observe, clocks
  <1>16. SetClock \/ UNCHANGED healthVars => UNCHANGED <<thread, now>>
    BY DEF SetClock, healthVars, clocks
  <1> QED
    BY <1>5, <1>6, <1>7, <1>8, <1>9, <1>10, <1>11, <1>12, <1>13, <1>14, <1>15, <1>16 DEF HealthNext

-----------------------------------------------------------------------------

\* What a step does to the cooldown of an entry: nothing, it ends or a new one begins.
SameCooldown(r) ==
    /\ health'[r].until = health[r].until /\ health'[r].refused = health[r].refused
    /\ health'[r].wait = health[r].wait

NewCooldown(r) ==
    /\ now' = now /\ deadlines' = deadlines /\ results' = results + 1
    /\ \/ health'[r].until = NoUntil /\ health'[r].wait = 0
       \/ /\ health'[r].until = [serial |-> results + 1, time |-> now + skew + health'[r].wait]
          /\ health'[r].refused = now

LEMMA CooldownEffect ==
    ASSUME HealthTypeOK, [HealthNext]_healthVars, NEW r \in Relays
    PROVE  SameCooldown(r) \/ NewCooldown(r)
  <1>1. health \in [Relays -> Entries] /\ health[r] \in Entries /\ now \in Int /\ skew \in Int
    <2>1. now \in Int /\ health \in [Relays -> Entries]
      BY DEF HealthTypeOK
    <2>2. skew \in Int
      BY RelayHealthAssumption DEF HealthTypeOK
    <2> QED BY <2>1, <2>2
  <1>2. CASE UNCHANGED health
    BY <1>2 DEF SameCooldown
  <1>3. ASSUME NEW t \in Threads, Store(t), ~NoRoom(thread[t].relay) PROVE SameCooldown(r)
    <2>1. health' = [health EXCEPT ![thread[t].relay] = [@ EXCEPT !.checked = wall, !.said = thread[t].said]]
      BY <1>3 DEF Store
    <2>2. CASE r # thread[t].relay
      BY <1>1, <2>1, <2>2 DEF SameCooldown
    <2>3. CASE r = thread[t].relay
      BY <1>1, <2>1, <2>3 DEF SameCooldown, Entries
    <2> QED BY <2>2, <2>3
  <1>4. ASSUME NEW q \in Relays, q # r,
               Accepted(q) \/ \E s \in 0 .. MaxStrikes, w \in Int :
                   w <= MaxCooldown /\ health' = [health EXCEPT ![q] = RefusedBy(q, s, w)]
        PROVE  SameCooldown(r)
    BY <1>1, <1>4 DEF SameCooldown, Accepted
  <1>5. ASSUME Accepted(r), results' = results + 1, UNCHANGED <<clocks, deadlines, thread>>
        PROVE  NewCooldown(r)
    BY <1>1, <1>5 DEF NewCooldown, Accepted, Entries, clocks
  <1>6. ASSUME NEW s \in 0 .. MaxStrikes, NEW w \in Int, health' = [health EXCEPT ![r] = RefusedBy(r, s, w)],
               results' = results + 1, UNCHANGED <<clocks, deadlines, thread>>
        PROVE  NewCooldown(r)
    <2>1. health'[r] = RefusedBy(r, s, w)
      BY <1>1, <1>6
    <2>2. /\ health'[r].wait = w /\ health'[r].refused = now
          /\ health'[r].until = [serial |-> results + 1, time |-> wall + w]
      BY <1>1, <2>1 DEF RefusedBy, Entries
    <2> QED BY <1>6, <2>2 DEF NewCooldown, clocks, wall
  <1> QED BY <1>2, <1>3, <1>4, <1>5, <1>6, HealthStep

\* What a step does to a deadline.
LEMMA DeadlineEffect ==
    ASSUME HealthTypeOK, [HealthNext]_healthVars,
           NEW p \in Processes, NEW r \in Relays
    PROVE  \/ deadlines'[p][r] = deadlines[p][r]
           \/ deadlines'[p][r] = NoDeadline /\ UNCHANGED <<health, now>>
           \/ deadlines'[p][r] = Deadline(p, r) /\ UNCHANGED <<health, now>>
  <1>1. deadlines \in [Processes -> [Relays -> Deadlines]]
    BY DEF HealthTypeOK
  <1>2. ASSUME NEW q \in Processes, Forget(q)
        PROVE  /\ UNCHANGED <<health, now>>
               /\ deadlines'[p][r] = deadlines[p][r] \/ deadlines'[p][r] = NoDeadline
    BY <1>1, <1>2 DEF Forget, clocks, file
  <1>3. ASSUME NEW q \in Processes, NEW s \in Relays, Look(q, s)
        PROVE  /\ UNCHANGED <<health, now>>
               /\ deadlines'[p][r] = deadlines[p][r] \/ deadlines'[p][r] = Deadline(p, r)
    BY <1>1, <1>3 DEF Look, clocks, file
  <1>4. ASSUME NEW t \in Threads,
               Answer(t) \/ Store(t) \/ End(t) \/ \E s \in Relays : Discover(t, s)
        PROVE  UNCHANGED deadlines
    BY <1>4 DEF Answer, Store, End, Discover
  <1>5. ASSUME NEW s \in Relays, Observe(s) PROVE UNCHANGED deadlines
    BY <1>5 DEF Observe
  <1>6. Tick \/ SetClock \/ UNCHANGED healthVars => UNCHANGED deadlines
    BY DEF Tick, SetClock, healthVars
  <1> QED BY <1>2, <1>3, <1>4, <1>5, <1>6 DEF HealthNext

\* A deadline that a process makes of the cooldown on file: the clock was set by Drift at most
\* since.
LEMMA DeadlineMade ==
    ASSUME HealthTypeOK, CooldownInv, NEW p \in Processes, NEW r \in Relays
    PROVE  Kept(Deadline(p, r), health[r])
  <1>1. /\ health[r] \in Entries /\ health[r].wait <= MaxCooldown /\ now \in Nat /\ skew \in Skews
        /\ skew \in Int /\ MaxCooldown \in Nat \ {0} /\ Drift \in Nat
    BY RelayHealthAssumption DEF HealthTypeOK
  <1>2. CASE deadlines[p][r].until = health[r].until
    BY <1>2 DEF CooldownInv, Deadline
  <1>3. CASE deadlines[p][r].until # health[r].until
    <2> DEFINE h == health[r]
               left == h.until.time - (now + skew)
               end == now + Smaller(MaxCooldown, IF left < 0 THEN 0 ELSE left)
    <2>1. h.until \in Untils /\ h.wait \in Int /\ h.refused \in Int /\ h.wait <= MaxCooldown
      BY <1>1 DEF Entries
    <2>2. h.until.time \in Int
      BY <2>1 DEF Untils
    <2>3. Deadline(p, r).until = h.until /\ Deadline(p, r).end = end
      BY <1>3 DEF Deadline, wall
    <2>4. Cooldown(h) /\ results \in Nat
      BY RelayHealthAssumption DEF CooldownInv, HealthTypeOK
    <2> HIDE DEF h
    <2>5. CASE h.until = NoUntil
      <3>1. left < 0
        BY <1>1, <2>5, RelayHealthAssumption DEF NoUntil, Never
      <3>2. end = now
        BY <1>1, <3>1 DEF Smaller
      <3>3. h.until.serial <= results
        BY <2>4, <2>5 DEF NoUntil
      <3> QED BY <1>1, <2>3, <2>5, <3>2, <3>3 DEF Kept, h
    <2>6. CASE h.until # NoUntil
      <3>1. PICK k \in Skews : h.until.time = h.refused + k + h.wait
        BY <2>4, <2>6 DEF Cooldown
      <3>2. h.until.serial \in 1 .. results /\ h.refused <= now
        BY <2>4, <2>6 DEF Cooldown
      <3>3. k \in Int /\ k - skew <= Drift /\ skew - k <= Drift
        BY <1>1, <3>1, RelayHealthAssumption
      <3>4. left = (h.refused + h.wait - now) + (k - skew)
        BY <1>1, <2>1, <3>1, <3>3
      <3>5. end >= h.refused + h.wait - Drift
        BY <1>1, <2>1, <3>2, <3>3, <3>4 DEF Smaller
      <3>6. end <= now \/ end <= h.refused + MaxCooldown + Drift
        BY <1>1, <2>1, <3>2, <3>3, <3>4 DEF Smaller
      <3>7. h.until.serial <= results
        BY <2>4, <3>2
      <3> HIDE DEF end
      <3> QED BY <2>3, <2>6, <3>5, <3>6, <3>7 DEF Kept, h
    <2> QED BY <2>5, <2>6
  <1> QED BY <1>2, <1>3

\* Cooldowns and deadlines in every step.
LEMMA CooldownStep ==
    ASSUME HealthTypeOK, CooldownInv, [HealthNext]_healthVars
    PROVE  CooldownInv'
  <1> SUFFICES ASSUME NEW r \in Relays
               PROVE  Cooldown(health[r])' /\ \A p \in Processes : Kept(deadlines[p][r], health[r])'
    BY DEF CooldownInv
  <1>1. /\ HealthTypeOK' /\ now \in Nat /\ now' \in Nat /\ now <= now'
        /\ results \in Nat /\ results' \in Nat /\ results <= results'
    <2>1. HealthTypeOK'
      BY HealthTypes
    <2>2. results' = results \/ results' = results + 1
      BY DEF HealthNext, Tick, SetClock, Forget, Look, Answer, Store,
         End, Discover, Observe, healthVars
    <2> QED BY <2>1, <2>2, HealthStep, RelayHealthAssumption DEF HealthTypeOK
  <1>2. /\ health[r] \in Entries /\ health'[r] \in Entries /\ skew \in Skews /\ skew \in Int
        /\ health'[r].wait \in Int /\ health[r].refused \in Int /\ health[r].wait \in Int
        /\ health[r].until \in Untils /\ health'[r].until \in Untils
    BY <1>1, RelayHealthAssumption DEF HealthTypeOK, Entries
  <1>3. Cooldown(health[r])'
    <2>1. CASE SameCooldown(r)
      <3>1. Cooldown(health[r])
        BY DEF CooldownInv
      <3>2. health[r].until.serial \in 1 .. results => health[r].until.serial \in 1 .. results'
        BY <1>1
      <3> QED BY <1>1, <1>2, <2>1, <3>1, <3>2 DEF SameCooldown, Cooldown
    <2>2. CASE NewCooldown(r)
      <3>1. CASE health'[r].until = NoUntil /\ health'[r].wait = 0
        BY <3>1 DEF Cooldown
      <3>2. CASE /\ health'[r].until = [serial |-> results + 1, time |-> now + skew + health'[r].wait]
                 /\ health'[r].refused = now
        <4>1. health'[r].until.serial \in 1 .. results' /\ health'[r].refused <= now'
          BY <1>1, <2>2, <3>2 DEF NewCooldown
        <4>2. health'[r].until.time = health'[r].refused + skew + health'[r].wait
          BY <3>2
        <4> QED BY <1>2, <4>1, <4>2 DEF Cooldown
      <3> QED BY <2>2, <3>1, <3>2 DEF NewCooldown
    <2> QED BY <2>1, <2>2, CooldownEffect
  <1>4. ASSUME NEW p \in Processes PROVE Kept(deadlines[p][r], health[r])'
    <2>1. /\ Kept(deadlines[p][r], health[r]) /\ deadlines[p][r] \in Deadlines
          /\ deadlines[p][r].end \in Int /\ deadlines[p][r].until.serial \in Int
      <3>1. deadlines[p][r] \in Deadlines
        BY DEF HealthTypeOK
      <3> QED BY <3>1 DEF CooldownInv, Deadlines, NoDeadline, Untils
    <2>2. CASE deadlines'[p][r] = deadlines[p][r] /\ SameCooldown(r)
      <3>1. deadlines[p][r].end <= now => deadlines[p][r].end <= now'
        BY <1>1, <2>1
      <3>2. deadlines[p][r].until.serial <= results'
        BY <1>1, <2>1 DEF Kept
      <3> QED BY <2>1, <2>2, <3>1, <3>2 DEF Kept, SameCooldown
    <2>3. CASE deadlines'[p][r] = deadlines[p][r] /\ NewCooldown(r)
      <3>1. deadlines[p][r].until # health'[r].until \/ health'[r].until = NoUntil
        BY <1>1, <2>1, <2>3 DEF NewCooldown, Kept
      <3>2. deadlines[p][r].until.serial <= results'
        BY <1>1, <2>1 DEF Kept
      <3> QED BY <2>1, <2>3, <3>1, <3>2 DEF Kept, NewCooldown
    <2>4. CASE deadlines'[p][r] = NoDeadline
      BY <1>1, <1>2, <2>4 DEF Kept, NoDeadline, NoUntil, Untils
    <2>5. CASE deadlines'[p][r] = Deadline(p, r) /\ UNCHANGED <<health, now>>
      <3>1. Kept(Deadline(p, r), health[r])
        BY DeadlineMade
      <3>2. deadlines'[p][r].until.serial \in Int
        <4>1. deadlines'[p][r] \in Deadlines
          BY <1>1 DEF HealthTypeOK
        <4> QED BY <4>1 DEF Deadlines, NoDeadline, Untils
      <3>3. deadlines'[p][r].until.serial <= results'
        BY <1>1, <2>5, <3>1, <3>2 DEF Kept
      <3> QED BY <2>5, <3>1, <3>3 DEF Kept
    <2> QED BY <2>2, <2>3, <2>4, <2>5, CooldownEffect, DeadlineEffect
  <1> QED BY <1>3, <1>4

\* The invariant of the file and the deadlines.
LEMMA HealthInvariant ==
    HealthSpec => [](HealthTypeOK /\ LimitsInv /\ CooldownInv)
  <1>1. HealthInit => HealthTypeOK /\ LimitsInv /\ CooldownInv
    <2> SUFFICES ASSUME HealthInit PROVE HealthTypeOK /\ LimitsInv /\ CooldownInv
      OBVIOUS
    <2>1. NoEntry \in Entries
      BY RelayHealthAssumption DEF NoEntry, Entries, NoUntil, Never, Untils
    <2>2. HealthTypeOK
      BY <2>1, RelayHealthAssumption DEF HealthInit, HealthTypeOK, Deadlines, NoEntry
    <2>3. LimitsInv
      <3>1. Dated(NoEntry)
        <4>1. 0 \in Skews /\ MaxFetch \in Nat
          BY RelayHealthAssumption
        <4> QED BY <4>1 DEF Dated, NoEntry, Never
      <3> QED BY <3>1 DEF HealthInit, LimitsInv, Timely, Idle
    <2>4. CooldownInv
      BY DEF HealthInit, CooldownInv, Cooldown, Kept, NoEntry, NoDeadline, NoUntil
    <2> QED BY <2>2, <2>3, <2>4
  <1>2. HealthTypeOK /\ LimitsInv /\ CooldownInv /\ [HealthNext]_healthVars
        => (HealthTypeOK /\ LimitsInv /\ CooldownInv)'
    BY HealthTypes, LimitsStep, CooldownStep
  <1> QED BY <1>1, <1>2, PTL DEF HealthSpec

\* A publication selects by limits that the relay gave at most CacheSeconds before, but for
\* the fetch, the publication and the setting of the clock.
THEOREM LimitsHold == HealthSpec => []LimitsAreRecent
  <1>1. HealthTypeOK /\ LimitsInv => LimitsAreRecent
    <2> SUFFICES ASSUME HealthTypeOK, LimitsInv, NEW t \in Threads, thread[t].step = "selecting"
                 PROVE  now - health[thread[t].relay].said < CacheSeconds + MaxFetch + MaxPublish + Drift
      BY DEF LimitsAreRecent
    <2>1. thread[t] \in Works
      BY DEF HealthTypeOK, Idle
    <2>2. thread[t].since \in Int /\ thread[t].relay \in Relays
      BY <2>1 DEF Works
    <2>3. health[thread[t].relay].said \in Int
      BY <2>2 DEF HealthTypeOK, Entries
    <2>4. now <= thread[t].since + MaxPublish
          /\ thread[t].since - health[thread[t].relay].said < CacheSeconds + MaxFetch + Drift
      BY DEF LimitsInv, Timely
    <2>5. now \in Int /\ CacheSeconds \in Int /\ MaxFetch \in Int /\ MaxPublish \in Int /\ Drift \in Int
      BY RelayHealthAssumption DEF HealthTypeOK
    <2> QED BY <2>2, <2>3, <2>4, <2>5
  <1> QED BY <1>1, HealthInvariant, PTL

\* A process that does not exclude a relay has waited, or would have but for the setting of
\* the clock; and one that excludes it does so for a bounded time.
LEMMA CooldownsKept ==
    ASSUME HealthTypeOK, CooldownInv
    PROVE  WaitIsKept /\ CooldownEnds
  <1> SUFFICES ASSUME NEW p \in Processes, NEW r \in known
               PROVE  /\ health[r].wait > 0 /\ ~Cooling(p, r) => now >= health[r].refused + health[r].wait - Drift
                      /\ Cooling(p, r) => now < health[r].refused + MaxCooldown + Drift
    BY DEF WaitIsKept, CooldownEnds
  <1>1. r \in Relays /\ health[r] \in Entries /\ now \in Int /\ MaxCooldown \in Int /\ Drift \in Int
    BY RelayHealthAssumption DEF HealthTypeOK
  <1>2. health[r].wait \in Int /\ health[r].refused \in Int /\ health[r].until \in Untils
    BY <1>1 DEF Entries
  <1>3. Kept(Deadline(p, r), health[r]) /\ Cooldown(health[r])
    BY <1>1, DeadlineMade DEF CooldownInv
  <1>4. Deadline(p, r).until = health[r].until
    BY DEF Deadline
  <1>5. Deadline(p, r).end \in Int
    <2>1. deadlines[p][r] \in Deadlines
      BY <1>1 DEF HealthTypeOK
    <2>2. CASE deadlines[p][r].until = health[r].until
      BY <2>1, <2>2 DEF Deadline, Deadlines, NoDeadline
    <2>3. CASE deadlines[p][r].until # health[r].until
      <3>1. skew \in Int /\ health[r].until.time \in Int
        BY <1>2, RelayHealthAssumption DEF HealthTypeOK, Untils
      <3> QED BY <1>1, <2>3, <3>1 DEF Deadline, Smaller, wall
    <2> QED BY <2>2, <2>3
  <1>6. CASE health[r].until = NoUntil
    BY <1>1, <1>3, <1>4, <1>5, <1>6 DEF Kept, Cooldown, Cooling, NoUntil
  <1>7. CASE health[r].until # NoUntil
    BY <1>1, <1>2, <1>3, <1>4, <1>5, <1>7 DEF Kept, Cooling
  <1> QED BY <1>6, <1>7

\* No process selects a relay before the wait that it was given.
THEOREM WaitsAreKept == HealthSpec => []WaitIsKept
  BY CooldownsKept, HealthInvariant, PTL

\* No process excludes a relay longer than MaxCooldown after its last refusal.
THEOREM CooldownsEnd == HealthSpec => []CooldownEnds
  BY CooldownsKept, HealthInvariant, PTL

-----------------------------------------------------------------------------
(* Subscriptions: what a listener notes, and what relays have.             *)

\* A topic that is not used yet is nowhere.
Unused ==
    \A t \in fresh :
        /\ t \notin topics \cup listening \cup todo
        /\ \A k \in Tasks : t \notin calls[k].topics /\ topic[k] # t

\* A coroutine has a call under way only while it waits for one, each call once.
Waiting ==
    /\ \A k \in Tasks : calls[k].status = "asked" <=> \E i \in DOMAIN order : order[i] = k
    /\ \A k \in Tasks : calls[k].status # "none" =>
          (k = Main /\ loop = "starting") \/ position[k] \in {"refreshing", "subscribing"}
    /\ loop # "running" => \A k \in Tasks : position[k] = "idle"
    /\ loop = "starting" => calls[Main].topics = listening

\* What a coroutine asks for, every later call asks for as well, as long as it is active.
LaterCalls ==
    \A t \in topics : \A i, j \in DOMAIN order :
        i < j /\ t \in calls[order[i]].topics => t \in calls[order[j]].topics

\* A coroutine that subscribes for a topic asked for it.
AskedFor ==
    \A k \in Tasks : position[k] = "subscribing" /\ topic[k] \in topics => topic[k] \in calls[k].topics

\* What was noted, or returned, or is published for, is at a relay, and in every call to come.
Noted(t) ==
    \/ loop = "running" /\ t \in listening
    \/ \E k \in Tasks : calls[k].status = "taken" /\ t \in calls[k].topics
    \/ \E k \in Tasks : position[k] = "publishing" /\ topic[k] = t

NotedStays ==
    \A t \in topics : Noted(t) =>
        Covered(t) /\ \A k \in Tasks : calls[k].status = "asked" => t \in calls[k].topics

SubInv == Unused /\ Waiting /\ LaterCalls /\ AskedFor /\ NotedStays

\* What a step does to the calls: none, one is made, takes effect or returns, or all are lost.
Asked(k, set) == Ask(k, set) /\ calls[k].status = "none" /\ topics' \subseteq set /\ set \cap fresh' = {}

Ended(k) ==
    calls' = [calls EXCEPT ![k] = NoCall] /\ UNCHANGED <<at, order>> /\ calls[k].status \in {"taken", "failed"}

LEMMA CallsEffect ==
    ASSUME ListenerTypeOK, Unused, Waiting, ListenerNext
    PROVE  \/ UNCHANGED relay
           \/ \E k \in Tasks, set \in SUBSET Topics : Asked(k, set)
           \/ \E rs \in SUBSET Relays : TakeEffect(rs)
           \/ \E k \in Tasks : Ended(k)
           \/ Die
  <1> USE DEF ListenerTypeOK
  <1>0. Main \in Tasks /\ Refresher \in Tasks /\ Handler \in Tasks /\ topics \cap fresh = {}
    BY DEF Tasks, Unused
  <1>1. ASSUME NEW t \in Topics, RemoveTopic(t) \/ \E b \in BOOLEAN : AddTopic(t, b) PROVE UNCHANGED relay
    BY <1>1 DEF AddTopic, RemoveTopic
  <1>2. ASSUME NEW k \in Tasks, NEW t \in Topics, NEW set \in SUBSET Topics, Subscribe(k, t, set),
               position[k] \in {"idle", "requesting"}, loop = "running", topics' \subseteq set, set \cap fresh' = {}
        PROVE  UNCHANGED relay \/ Asked(k, set)
    <2>1. calls[k].status = "none"
      BY <1>2 DEF Waiting
    <2> QED BY <1>2, <2>1 DEF Subscribe, Asked
  <1>3. ASSUME NEW t \in Topics, Request(t)
        PROVE  UNCHANGED relay \/ \E k \in Tasks, set \in SUBSET Topics : Asked(k, set)
    BY <1>0, <1>2, <1>3 DEF Request, At, registry
  <1>4. ASSUME NEW t \in Topics, Grant(t)
        PROVE  UNCHANGED relay \/ \E k \in Tasks, set \in SUBSET Topics : Asked(k, set)
    <2>1. (topics \cup {t}) \cap fresh' = {} /\ topics' = topics \cup {t} /\ topics \cup {t} \in SUBSET Topics
      BY <1>0, <1>4 DEF Grant
    <2> QED BY <1>0, <1>2, <1>4, <2>1 DEF Grant, At
  <1>5. ASSUME NEW k \in Tasks, Subscribed(k) \/ Finish(k) PROVE UNCHANGED relay \/ Ended(k)
    BY <1>5 DEF Subscribed, Finish, Returned, Raised, Ended, relay
  <1>6. CASE Start
    <2>1. calls[Main].status = "none"
      BY <1>0, <1>6 DEF Start, Waiting
    <2> QED BY <1>0, <1>6, <2>1 DEF Start, Asked, registry
  <1>7. CASE Started
    BY <1>0, <1>7 DEF Started, Returned, Raised, Ended
  <1>8. CASE Pass
    <2>1. calls[Refresher].status = "none"
      BY <1>0, <1>8, SubscriptionsAssumption DEF Pass, At, Waiting
    <2> QED BY <1>0, <1>8, <2>1 DEF Pass, Asked, registry
  <1>9. CASE Refreshed
    BY <1>0, <1>9 DEF Refreshed, Returned, Raised, Ended
  <1> QED BY <1>1, <1>3, <1>4, <1>5, <1>6, <1>7, <1>8, <1>9 DEF ListenerNext

\* What becomes active was not used before.
LEMMA TopicsEffect ==
    ASSUME ListenerTypeOK, Unused, [ListenerNext]_listenerVars
    PROVE  /\ topics' \subseteq topics \cup fresh /\ fresh' \subseteq fresh
           /\ topics' \cap fresh' = {}
  <1>0. topics \cap fresh = {}
    BY DEF Unused
  <1>1. ASSUME NEW t \in Topics, (\E b \in BOOLEAN : AddTopic(t, b)) \/ RemoveTopic(t) \/ Grant(t)
        PROVE  topics' \subseteq topics \cup fresh /\ fresh' \subseteq fresh /\ topics' \cap fresh' = {}
    BY <1>0, <1>1 DEF ListenerTypeOK, AddTopic, RemoveTopic, Grant
  <1>2. CASE UNCHANGED <<fresh, topics>>
    BY <1>0, <1>2
  <1>3. ASSUME NEW t \in Topics, Request(t) PROVE UNCHANGED <<fresh, topics>>
    BY <1>3 DEF Request, registry
  <1>4. ASSUME NEW rs \in SUBSET Relays, TakeEffect(rs) PROVE UNCHANGED <<fresh, topics>>
    BY <1>4 DEF TakeEffect, registry
  <1>5. ASSUME NEW k \in Tasks, Subscribed(k) \/ Finish(k) PROVE UNCHANGED <<fresh, topics>>
    BY <1>5 DEF Subscribed, Finish, registry
  <1>6. Start \/ Started \/ Die \/ Pass \/ Refreshed \/ UNCHANGED listenerVars => UNCHANGED <<fresh, topics>>
    BY DEF Start, Started, Die, Pass, Refreshed, listenerVars, registry
  <1> QED BY <1>1, <1>2, <1>3, <1>4, <1>5, <1>6 DEF ListenerNext

\* The calls under way: made at the end, taken from the front.
Calls == [topics : SUBSET Topics, status : {"none", "asked", "taken", "failed"}]

Ordered == order \in Seq(Tasks) /\ \A i, j \in 1 .. Len(order) : order[i] = order[j] => i = j

LEMMA CallsTypes ==
    ASSUME ListenerTypeOK, Unused, Waiting, [ListenerNext]_listenerVars
    PROVE  at' \in [Relays -> SUBSET Topics] /\ calls' \in [Tasks -> Calls] /\ Ordered'
  <1>1. at \in [Relays -> SUBSET Topics] /\ calls \in [Tasks -> Calls] /\ Ordered
    BY DEF ListenerTypeOK, Calls, Ordered
  <1>2. NoCall \in Calls
    BY DEF NoCall, Calls
  <1>3. CASE UNCHANGED relay
    BY <1>1, <1>3 DEF relay, Ordered
  <1>4. ASSUME NEW k \in Tasks, NEW set \in SUBSET Topics, Asked(k, set)
        PROVE  at' \in [Relays -> SUBSET Topics] /\ calls' \in [Tasks -> Calls] /\ Ordered'
    <2>1. [topics |-> set, status |-> "asked"] \in Calls
      BY DEF Calls
    <2>2. at' = at /\ calls' \in [Tasks -> Calls] /\ order' = Append(order, k)
      BY <1>1, <1>4, <2>1 DEF Asked, Ask
    <2>3. \A i \in 1 .. Len(order) : order[i] # k
      BY <1>1, <1>4 DEF Asked, Waiting, Ordered
    <2> QED BY <1>1, <2>2, <2>3 DEF Ordered
  <1>5. ASSUME NEW rs \in SUBSET Relays, TakeEffect(rs)
        PROVE  at' \in [Relays -> SUBSET Topics] /\ calls' \in [Tasks -> Calls] /\ Ordered'
    <2>1. Head(order) \in Tasks /\ calls[Head(order)] \in Calls /\ order' = Tail(order) /\ order # <<>>
      BY <1>1, <1>5 DEF TakeEffect, Ordered
    <2>2. calls[Head(order)].topics \in SUBSET Topics
      BY <2>1 DEF Calls
    <2>3. at' \in [Relays -> SUBSET Topics]
      BY <1>1, <1>5, <2>2 DEF TakeEffect
    <2>4. \A s \in {"taken", "failed"} : [calls[Head(order)] EXCEPT !.status = s] \in Calls
      BY <2>1 DEF Calls
    <2>5. calls' \in [Tasks -> Calls]
      BY <1>1, <1>5, <2>1, <2>4 DEF TakeEffect
    <2> QED BY <1>1, <2>1, <2>3, <2>5 DEF Ordered
  <1>6. ASSUME NEW k \in Tasks, Ended(k)
        PROVE  at' \in [Relays -> SUBSET Topics] /\ calls' \in [Tasks -> Calls] /\ Ordered'
    BY <1>1, <1>2, <1>6 DEF Ended, Ordered
  <1>7. CASE Die
    BY <1>2, <1>7 DEF Die, Ordered
  <1>8. CASE UNCHANGED listenerVars
    BY <1>3, <1>8 DEF listenerVars
  <1> QED BY <1>3, <1>4, <1>5, <1>6, <1>7, <1>8, CallsEffect

\* Types of the registry, the calls and the coroutines.
LEMMA SubTypes ==
    ASSUME ListenerTypeOK, Unused, Waiting, [ListenerNext]_listenerVars
    PROVE  ListenerTypeOK'
  <1> DEFINE Positions == {"idle", "refreshing", "requesting", "subscribing", "publishing"}
  <1>0. /\ Main \in Tasks /\ Refresher \in Tasks /\ Handler \in Tasks
        /\ at' \in [Relays -> SUBSET Topics] /\ calls' \in [Tasks -> Calls] /\ Ordered'
    BY CallsTypes DEF Tasks
  <1>1. /\ fresh \subseteq Topics /\ topics \subseteq Topics /\ connecting \subseteq topics /\ granted \subseteq topics
        /\ listening \subseteq Topics /\ todo \subseteq Topics /\ loop \in {"down", "starting", "running"}
        /\ position \in [Tasks -> Positions]
        /\ topic \in [Tasks -> Topics \cup {NoTopic}] /\ deaths \in 0 .. MaxDeaths
        /\ \A k \in Tasks : calls[k].topics \subseteq Topics
    BY DEF ListenerTypeOK
  <1>2. /\ fresh' \subseteq Topics /\ topics' \subseteq Topics /\ connecting' \subseteq topics'
        /\ granted' \subseteq topics'
    <2>1. ASSUME NEW t \in Topics, (\E b \in BOOLEAN : AddTopic(t, b)) \/ RemoveTopic(t) \/ Grant(t)
          PROVE  /\ fresh' \subseteq Topics /\ topics' \subseteq Topics /\ connecting' \subseteq topics'
                 /\ granted' \subseteq topics'
      BY <1>1, <2>1 DEF AddTopic, RemoveTopic, Grant
    <2>2. ASSUME NEW t \in Topics, Request(t) PROVE UNCHANGED registry
      BY <2>2 DEF Request
    <2>3. ASSUME NEW rs \in SUBSET Relays, TakeEffect(rs) PROVE UNCHANGED registry
      BY <2>3 DEF TakeEffect
    <2>4. ASSUME NEW k \in Tasks, Subscribed(k) \/ Finish(k) PROVE UNCHANGED registry
      BY <2>4 DEF Subscribed, Finish
    <2>5. Start \/ Started \/ Die \/ Pass \/ Refreshed \/ UNCHANGED listenerVars => UNCHANGED registry
      BY DEF Start, Started, Die, Pass, Refreshed, listenerVars
    <2>6. CASE UNCHANGED registry
      BY <1>1, <2>6 DEF registry
    <2> QED BY <2>1, <2>2, <2>3, <2>4, <2>5, <2>6 DEF ListenerNext
  <1>3. /\ listening' \subseteq Topics /\ todo' \subseteq Topics /\ loop' \in {"down", "starting", "running"}
        /\ position' \in [Tasks -> Positions]
        /\ topic' \in [Tasks -> Topics \cup {NoTopic}] /\ deaths' \in 0 .. MaxDeaths
    <2> DEFINE Typed == /\ listening' \subseteq Topics /\ todo' \subseteq Topics
                        /\ loop' \in {"down", "starting", "running"}
                        /\ position' \in [Tasks -> Positions] /\ topic' \in [Tasks -> Topics \cup {NoTopic}]
                        /\ deaths' \in 0 .. MaxDeaths
    <2>1. ASSUME NEW k \in Tasks, NEW s \in Positions, NEW t \in Topics \cup {NoTopic}, Go(k, s, t)
          PROVE  position' \in [Tasks -> Positions] /\ topic' \in [Tasks -> Topics \cup {NoTopic}]
      BY <1>1, <2>1 DEF Go
    <2>2. ASSUME NEW t \in Topics, (\E b \in BOOLEAN : AddTopic(t, b)) \/ RemoveTopic(t) PROVE Typed
      BY <1>1, <2>2 DEF AddTopic, RemoveTopic, tasks
    <2>3. ASSUME NEW t \in Topics, Request(t) \/ Grant(t) PROVE Typed
      <3>1. position' \in [Tasks -> Positions] /\ topic' \in [Tasks -> Topics \cup {NoTopic}]
        BY <1>0, <2>1, <2>3 DEF Request, Grant, Subscribe
      <3>2. UNCHANGED <<listening, loop, deaths>> /\ todo' \subseteq todo
        BY <2>3 DEF Request, Grant
      <3> QED BY <1>1, <3>1, <3>2
    <2>4. ASSUME NEW rs \in SUBSET Relays, TakeEffect(rs) PROVE Typed
      BY <1>1, <2>4 DEF TakeEffect, tasks
    <2>5. ASSUME NEW k \in Tasks, Subscribed(k) \/ Finish(k) PROVE Typed
      <3>1. position' \in [Tasks -> Positions] /\ topic' \in [Tasks -> Topics \cup {NoTopic}]
        BY <1>1, <2>1, <2>5 DEF Subscribed, Finish
      <3>2. UNCHANGED <<todo, loop, deaths>> /\ listening' \subseteq Topics
        BY <1>1, <2>5 DEF Subscribed, Finish
      <3> QED BY <1>1, <3>1, <3>2
    <2>6. CASE Start \/ Started
      BY <1>1, <2>6 DEF Start, Started, tasks
    <2>7. CASE Die
      <3>1. deaths' \in 0 .. MaxDeaths
        BY <1>1, <2>7, SubscriptionsAssumption DEF Die
      <3> QED BY <1>1, <2>7, <3>1 DEF Die
    <2>8. ASSUME CollectDue PROVE todo' \subseteq Topics /\ position' \in [Tasks -> Positions]
                               /\ topic' \in [Tasks -> Topics \cup {NoTopic}]
      <3>1. PICK due \in SUBSET connecting :
                todo' = due /\ Go(Refresher, IF due = {} THEN "idle" ELSE "requesting", NoTopic)
        BY <2>8 DEF CollectDue
      <3> QED BY <1>0, <1>1, <2>1, <3>1
    <2>9. CASE Pass
      <3>1. UNCHANGED <<listening, loop, deaths>>
        BY <2>9 DEF Pass
      <3>2. CASE CollectDue
        BY <1>1, <2>8, <3>1, <3>2
      <3>3. CASE Go(Refresher, "refreshing", NoTopic) /\ UNCHANGED todo
        BY <1>0, <1>1, <2>1, <3>1, <3>3
      <3> QED BY <2>9, <3>2, <3>3 DEF Pass
    <2>10. CASE Refreshed
      <3>1. UNCHANGED <<loop, deaths>> /\ listening' \subseteq Topics
        BY <1>0, <1>1, <2>10 DEF Refreshed
      <3>2. CASE CollectDue
        BY <1>1, <2>8, <3>1, <3>2
      <3>3. CASE Go(Refresher, "idle", NoTopic) /\ UNCHANGED todo
        BY <1>0, <1>1, <2>1, <3>1, <3>3
      <3> QED BY <2>10, <3>2, <3>3 DEF Refreshed
    <2>11. CASE UNCHANGED listenerVars
      BY <1>1, <2>11 DEF listenerVars, tasks
    <2> QED BY <2>2, <2>3, <2>4, <2>5, <2>6, <2>7, <2>9, <2>10, <2>11 DEF ListenerNext
  <1> QED BY <1>0, <1>2, <1>3 DEF ListenerTypeOK, Calls, Ordered

\* Topics that are noted, due or worked for were active, or asked for, before.
LEMMA NotesEffect ==
    ASSUME ListenerTypeOK, [ListenerNext]_listenerVars
    PROVE  /\ listening' \in {listening, topics} \cup {calls[k].topics : k \in Tasks}
           /\ todo' \subseteq todo \cup topics
           /\ \A k \in Tasks : topic'[k] \in {topic[k], NoTopic} \cup todo \cup topics'
  <1> DEFINE Effect == /\ listening' \in {listening, topics} \cup {calls[k].topics : k \in Tasks}
                       /\ todo' \subseteq todo \cup topics
                       /\ \A k \in Tasks : topic'[k] \in {topic[k], NoTopic} \cup todo \cup topics'
  <1>0. /\ topic \in [Tasks -> Topics \cup {NoTopic}] /\ connecting \subseteq topics
        /\ Main \in Tasks /\ Refresher \in Tasks /\ Handler \in Tasks
    BY DEF ListenerTypeOK, Tasks
  <1>1. CASE UNCHANGED <<listening, todo, topic>>
    BY <1>1
  <1>2. ASSUME NEW t \in Topics, (\E b \in BOOLEAN : AddTopic(t, b)) \/ RemoveTopic(t)
        PROVE  UNCHANGED <<listening, todo, topic>>
    BY <1>2 DEF AddTopic, RemoveTopic, tasks
  <1>3. ASSUME NEW t \in Topics, Request(t) PROVE Effect
    BY <1>0, <1>3 DEF Request, Subscribe, Go
  <1>4. ASSUME NEW t \in Topics, Grant(t) PROVE Effect
    BY <1>0, <1>4 DEF Grant, Subscribe, Go
  <1>5. ASSUME NEW rs \in SUBSET Relays, TakeEffect(rs) PROVE UNCHANGED <<listening, todo, topic>>
    BY <1>5 DEF TakeEffect, tasks
  <1>6. ASSUME NEW k \in Tasks, Subscribed(k) \/ Finish(k) PROVE Effect
    BY <1>0, <1>6 DEF Subscribed, Finish, Go
  <1>7. CASE Start \/ Started
    BY <1>7 DEF Start, Started, tasks
  <1>8. CASE Die
    BY <1>0, <1>8 DEF Die
  <1>9. CASE Pass \/ Refreshed
    BY <1>0, <1>9 DEF Pass, Refreshed, CollectDue, Go
  <1>10. CASE UNCHANGED listenerVars
    BY <1>1, <1>10 DEF listenerVars, tasks
  <1> QED BY <1>1, <1>2, <1>3, <1>4, <1>5, <1>6, <1>7, <1>8, <1>9, <1>10 DEF ListenerNext

LEMMA UnusedStep ==
    ASSUME ListenerTypeOK, Unused, Waiting, [ListenerNext]_listenerVars
    PROVE  Unused'
  <1> SUFFICES ASSUME NEW t \in fresh' PROVE /\ t \notin topics' \cup listening' \cup todo'
                                             /\ \A k \in Tasks : t \notin calls'[k].topics /\ topic'[k] # t
    BY DEF Unused
  <1>1. t \in fresh /\ t \notin topics' /\ t # NoTopic /\ t \notin topics
    BY TopicsEffect, SubscriptionsAssumption DEF ListenerTypeOK, Unused
  <1>2. t \notin listening' /\ t \notin todo' /\ \A k \in Tasks : topic'[k] # t
    BY <1>1, NotesEffect DEF Unused
  <1>3. calls \in [Tasks -> Calls] /\ at \in [Relays -> SUBSET Topics] /\ order \in Seq(Tasks)
    BY DEF ListenerTypeOK, Calls
  <1>4. ASSUME NEW k \in Tasks PROVE t \notin calls'[k].topics
    <2>1. t \notin calls[k].topics /\ calls[k] \in Calls
      BY <1>1, <1>3 DEF Unused
    <2>2. CASE UNCHANGED calls
      BY <2>1, <2>2
    <2>3. ASSUME NEW c \in Tasks, NEW set \in SUBSET Topics, Asked(c, set) PROVE t \notin calls'[k].topics
      BY <1>3, <2>1, <2>3 DEF Asked, Ask
    <2>4. ASSUME NEW rs \in SUBSET Relays, TakeEffect(rs) PROVE t \notin calls'[k].topics
      <3>1. calls'[k].topics = calls[k].topics
        <4>1. Head(order) \in Tasks
          BY <1>3, <2>4 DEF TakeEffect
        <4> QED BY <1>3, <2>1, <2>4, <4>1 DEF TakeEffect, Calls
      <3> QED BY <2>1, <3>1
    <2>5. ASSUME NEW c \in Tasks, Ended(c) PROVE t \notin calls'[k].topics
      BY <1>3, <2>1, <2>5 DEF Ended, NoCall
    <2>6. CASE Die
      BY <2>6 DEF Die, NoCall
    <2>7. UNCHANGED relay \/ UNCHANGED listenerVars => UNCHANGED calls
      BY DEF relay, listenerVars
    <2> QED BY <2>2, <2>3, <2>4, <2>5, <2>6, <2>7, CallsEffect
  <1> QED BY <1>1, <1>2, <1>4

\* What is said of the calls of a step that takes effect.
LEMMA TakenCalls ==
    ASSUME ListenerTypeOK, Waiting, NEW rs \in SUBSET Relays, TakeEffect(rs)
    PROVE  /\ Head(order) \in Tasks /\ calls[Head(order)].status = "asked"
           /\ \A k \in Tasks : calls'[k].topics = calls[k].topics
           /\ \A k \in Tasks : calls'[k].status =
                 IF k # Head(order) THEN calls[k].status
                 ELSE IF rs # {} \/ calls[k].topics = {} THEN "taken" ELSE "failed"
           /\ DOMAIN order' = 1 .. Len(order) - 1 /\ DOMAIN order = 1 .. Len(order) /\ Len(order) \in Nat \ {0}
           /\ \A i \in DOMAIN order' : order'[i] = order[i + 1] /\ order[i + 1] # Head(order)
           /\ Head(order) = order[1]
  <1>1. order \in Seq(Tasks) /\ order # <<>> /\ order' = Tail(order) /\ calls \in [Tasks -> Calls]
    BY DEF ListenerTypeOK, TakeEffect, Calls
  <1>2. /\ DOMAIN order' = 1 .. Len(order) - 1 /\ DOMAIN order = 1 .. Len(order) /\ Len(order) \in Nat \ {0}
        /\ \A i \in DOMAIN order' : order'[i] = order[i + 1]
        /\ Head(order) = order[1] /\ Head(order) \in Tasks
    BY <1>1
  <1>3. \A i \in DOMAIN order' : order[i + 1] # order[1]
    BY <1>2 DEF ListenerTypeOK
  <1>4. calls[Head(order)].status = "asked"
    BY <1>2 DEF Waiting
  <1>5. calls' = [calls EXCEPT ![Head(order)].status =
                    IF rs # {} \/ calls[Head(order)].topics = {} THEN "taken" ELSE "failed"]
    BY DEF TakeEffect
  <1>6. \A k \in Tasks : calls[k] \in Calls
    BY <1>1
  <1>7. \A k \in Tasks : calls'[k].topics = calls[k].topics
    BY <1>1, <1>2, <1>5, <1>6 DEF Calls
  <1>8. \A k \in Tasks : calls'[k].status =
                 IF k # Head(order) THEN calls[k].status
                 ELSE IF rs # {} \/ calls[k].topics = {} THEN "taken" ELSE "failed"
    BY <1>1, <1>2, <1>5, <1>6 DEF Calls
  <1> QED BY <1>2, <1>3, <1>4, <1>7, <1>8

\* The same of a call that is made, or has ended.
LEMMA MadeCall ==
    ASSUME ListenerTypeOK, Waiting, NEW k \in Tasks, NEW set \in SUBSET Topics, Asked(k, set)
    PROVE  /\ calls'[k].topics = set /\ calls'[k].status = "asked"
           /\ \A c \in Tasks \ {k} : calls'[c] = calls[c]
           /\ DOMAIN order' = 1 .. Len(order) + 1 /\ DOMAIN order = 1 .. Len(order) /\ Len(order) \in Nat
           /\ \A i \in DOMAIN order : order'[i] = order[i] /\ order[i] # k
           /\ order'[Len(order) + 1] = k /\ at' = at
  <1>1. order \in Seq(Tasks) /\ order' = Append(order, k) /\ calls \in [Tasks -> Calls] /\ at' = at
    BY DEF ListenerTypeOK, Asked, Ask, Calls
  <1>2. /\ DOMAIN order' = 1 .. Len(order) + 1 /\ DOMAIN order = 1 .. Len(order) /\ Len(order) \in Nat
        /\ \A i \in DOMAIN order : order'[i] = order[i]
        /\ order'[Len(order) + 1] = k
    BY <1>1
  <1>3. \A i \in DOMAIN order : order[i] # k
    BY DEF Asked, Waiting
  <1>4. calls' = [calls EXCEPT ![k] = [topics |-> set, status |-> "asked"]]
    BY DEF Asked, Ask
  <1>5. calls'[k].topics = set /\ calls'[k].status = "asked" /\ \A c \in Tasks \ {k} : calls'[c] = calls[c]
    BY <1>1, <1>4
  <1> QED BY <1>1, <1>2, <1>3, <1>5

LEMMA EndedCall ==
    ASSUME ListenerTypeOK, Waiting, NEW k \in Tasks, Ended(k)
    PROVE  /\ calls'[k].topics = {} /\ calls'[k].status = "none" /\ UNCHANGED <<at, order>>
           /\ \A c \in Tasks \ {k} : calls'[c] = calls[c]
           /\ \A i \in DOMAIN order : order[i] # k
  <1>1. calls \in [Tasks -> Calls]
    BY DEF ListenerTypeOK, Calls
  <1> QED BY <1>1 DEF Ended, NoCall, Waiting

\* Later calls ask for what earlier ones did.
LEMMA LaterCallsStep ==
    ASSUME ListenerTypeOK, Unused, Waiting, LaterCalls, [ListenerNext]_listenerVars
    PROVE  LaterCalls'
  <1> SUFFICES ASSUME NEW t \in topics', NEW i \in DOMAIN order', NEW j \in DOMAIN order',
                      i < j, t \in calls'[order'[i]].topics
               PROVE  t \in calls'[order'[j]].topics
    BY DEF LaterCalls
  <1>1. t \in topics \/ t \in fresh
    BY TopicsEffect
  <1>2. order \in Seq(Tasks) /\ \A n \in DOMAIN order : order[n] \in Tasks
    BY DEF ListenerTypeOK
  <1>3. ASSUME NEW n \in DOMAIN order, NEW m \in DOMAIN order, n < m, t \in calls[order[n]].topics
        PROVE  t \in calls[order[m]].topics
    BY <1>1, <1>2, <1>3 DEF LaterCalls, Unused
  <1>4. CASE UNCHANGED relay
    BY <1>3, <1>4 DEF relay
  <1>5. ASSUME NEW k \in Tasks, NEW set \in SUBSET Topics, Asked(k, set) PROVE t \in calls'[order'[j]].topics
    <2>1. t \in set
      BY <1>5 DEF Asked
    <2>2. CASE j = Len(order) + 1
      BY <1>5, <2>1, <2>2, MadeCall
    <2>3. CASE j # Len(order) + 1
      <3>1. i \in DOMAIN order /\ j \in DOMAIN order
        BY <1>5, <2>3, MadeCall
      <3> QED BY <1>2, <1>3, <1>5, <3>1, MadeCall
    <2> QED BY <2>2, <2>3
  <1>6. ASSUME NEW rs \in SUBSET Relays, TakeEffect(rs) PROVE t \in calls'[order'[j]].topics
    <2>1. i + 1 \in DOMAIN order /\ j + 1 \in DOMAIN order /\ i + 1 < j + 1
      BY <1>6, TakenCalls
    <2>2. order'[i] = order[i + 1] /\ order'[j] = order[j + 1]
      BY <1>6, TakenCalls
    <2>3. /\ calls'[order'[i]].topics = calls[order[i + 1]].topics
          /\ calls'[order'[j]].topics = calls[order[j + 1]].topics
      BY <1>2, <1>6, <2>1, <2>2, TakenCalls
    <2> QED BY <1>3, <2>1, <2>3
  <1>7. ASSUME NEW k \in Tasks, Ended(k) PROVE t \in calls'[order'[j]].topics
    BY <1>2, <1>3, <1>7, EndedCall
  <1>8. CASE Die
    BY <1>8 DEF Die
  <1> QED BY <1>4, <1>5, <1>6, <1>7, <1>8, CallsEffect DEF listenerVars, relay

\* The calls in the queue are those that were asked for and did not take effect.
LEMMA QueueStep ==
    ASSUME ListenerTypeOK, Unused, Waiting, [ListenerNext]_listenerVars
    PROVE  \A k \in Tasks : calls'[k].status = "asked" <=> \E i \in DOMAIN order' : order'[i] = k
  <1> SUFFICES ASSUME NEW k \in Tasks
               PROVE  calls'[k].status = "asked" <=> \E i \in DOMAIN order' : order'[i] = k
    OBVIOUS
  <1>1. calls[k].status = "asked" <=> \E i \in DOMAIN order : order[i] = k
    BY DEF Waiting
  <1>2. CASE UNCHANGED relay
    BY <1>1, <1>2 DEF relay
  <1>3. ASSUME NEW c \in Tasks, NEW set \in SUBSET Topics, Asked(c, set)
        PROVE  calls'[k].status = "asked" <=> \E i \in DOMAIN order' : order'[i] = k
    <2>1. CASE k = c
      BY <1>3, <2>1, MadeCall
    <2>2. CASE k # c
      BY <1>1, <1>3, <2>2, MadeCall
    <2> QED BY <2>1, <2>2
  <1>4. ASSUME NEW rs \in SUBSET Relays, TakeEffect(rs)
        PROVE  calls'[k].status = "asked" <=> \E i \in DOMAIN order' : order'[i] = k
    <2>1. CASE k = Head(order)
      BY <1>4, <2>1, TakenCalls
    <2>2. CASE k # Head(order)
      <3>1. ASSUME NEW i \in DOMAIN order, order[i] = k PROVE \E j \in DOMAIN order' : order'[j] = k
        <4>1. i - 1 \in DOMAIN order'
          BY <1>4, <2>2, <3>1, TakenCalls
        <4> QED BY <1>4, <3>1, <4>1, TakenCalls
      <3>2. ASSUME NEW j \in DOMAIN order', order'[j] = k PROVE \E i \in DOMAIN order : order[i] = k
        <4>1. j + 1 \in DOMAIN order
          BY <1>4, TakenCalls
        <4> QED BY <1>4, <3>2, <4>1, TakenCalls
      <3>3. calls'[k].status = calls[k].status
        BY <1>4, <2>2, TakenCalls
      <3> QED BY <1>1, <3>1, <3>2, <3>3
    <2> QED BY <2>1, <2>2
  <1>5. ASSUME NEW c \in Tasks, Ended(c)
        PROVE  calls'[k].status = "asked" <=> \E i \in DOMAIN order' : order'[i] = k
    <2>1. CASE k = c
      BY <1>5, <2>1, EndedCall
    <2>2. CASE k # c
      BY <1>1, <1>5, <2>2, EndedCall
    <2> QED BY <2>1, <2>2
  <1>6. CASE Die
    BY <1>6 DEF Die, NoCall
  <1> QED BY <1>2, <1>3, <1>4, <1>5, <1>6, CallsEffect DEF listenerVars

\* A coroutine waits for the call that it made.
LEMMA WaitingStep ==
    ASSUME ListenerTypeOK, Unused, Waiting, [ListenerNext]_listenerVars
    PROVE  Waiting'
  <1> DEFINE Waits == /\ \A k \in Tasks : calls'[k].status # "none" =>
                            (k = Main /\ loop' = "starting") \/ position'[k] \in {"refreshing", "subscribing"}
                      /\ loop' # "running" => \A k \in Tasks : position'[k] = "idle"
                      /\ loop' = "starting" => calls'[Main].topics = listening'
  <1> SUFFICES Waits
    BY QueueStep DEF Waiting
  <1>0. /\ Main \in Tasks /\ Refresher \in Tasks /\ Handler \in Tasks
        /\ position \in [Tasks -> {"idle", "refreshing", "requesting", "subscribing", "publishing"}]
        /\ calls \in [Tasks -> Calls]
    BY DEF Tasks, ListenerTypeOK, Calls
  <1>1. /\ \A k \in Tasks : calls[k].status # "none" =>
              (k = Main /\ loop = "starting") \/ position[k] \in {"refreshing", "subscribing"}
        /\ loop # "running" => \A k \in Tasks : position[k] = "idle"
        /\ loop = "starting" => calls[Main].topics = listening
    BY DEF Waiting
  <1>2. CASE UNCHANGED <<relay, position, loop, listening>>
    BY <1>1, <1>2 DEF relay
  <1>3. ASSUME NEW t \in Topics, (\E b \in BOOLEAN : AddTopic(t, b)) \/ RemoveTopic(t)
        PROVE  UNCHANGED <<relay, position, loop, listening>>
    BY <1>3 DEF AddTopic, RemoveTopic, tasks
  <1>4. ASSUME NEW rs \in SUBSET Relays, TakeEffect(rs) PROVE Waits
    <2>1. UNCHANGED <<position, loop, listening>>
      BY <1>4 DEF TakeEffect, tasks
    <2>2. \A k \in Tasks :
             calls'[k].topics = calls[k].topics /\ (calls'[k].status # "none" => calls[k].status # "none")
      BY <1>4, TakenCalls
    <2> QED BY <1>0, <1>1, <2>1, <2>2
  <1>5. ASSUME NEW k \in Tasks, NEW s, NEW t, Go(k, s, t), loop = "running", loop' = loop,
               \A c \in Tasks \ {k} : calls'[c] = calls[c],
               calls'[k].status # "none" => s \in {"refreshing", "subscribing"}
        PROVE  Waits
    BY <1>0, <1>1, <1>5 DEF Go
  <1>6. ASSUME NEW k \in Tasks, NEW t \in Topics, NEW set \in SUBSET Topics, Subscribe(k, t, set),
               position[k] \in {"idle", "requesting"}, loop = "running", loop' = loop
        PROVE  Waits
    <2>1. calls[k].status = "none"
      BY <1>1, <1>6
    <2>2. CASE Ask(k, set) /\ Go(k, "subscribing", t)
      BY <1>0, <1>5, <1>6, <2>2 DEF Ask
    <2>3. CASE UNCHANGED relay /\ Go(k, "publishing", t)
      BY <1>0, <1>5, <1>6, <2>1, <2>3 DEF relay
    <2> QED BY <1>6, <2>2, <2>3 DEF Subscribe
  <1>7. ASSUME NEW t \in Topics, Request(t) PROVE Waits
    <2>1. topics \in SUBSET Topics
      BY DEF ListenerTypeOK
    <2> QED BY <1>0, <1>6, <1>7, <2>1 DEF Request, At
  <1>8. ASSUME NEW t \in Topics, Grant(t) PROVE Waits
    <2>1. topics \cup {t} \in SUBSET Topics
      BY DEF ListenerTypeOK
    <2> QED BY <1>0, <1>6, <1>8, <2>1 DEF Grant, At
  <1>9. ASSUME NEW k \in Tasks, Returned(k) \/ Raised(k)
        PROVE  /\ \A c \in Tasks \ {k} : calls'[c] = calls[c]
               /\ calls'[k].status = "none"
    BY <1>0, <1>9 DEF Returned, Raised, NoCall
  <1>10. ASSUME NEW k \in Tasks, Subscribed(k) PROVE Waits
    BY <1>5, <1>9, <1>10 DEF Subscribed, At
  <1>11. ASSUME NEW k \in Tasks, Finish(k) PROVE Waits
    <2>1. loop = "running" /\ loop' = loop
          /\ Go(k, IF k = Refresher /\ todo # {} THEN "requesting" ELSE "idle", NoTopic)
      BY <1>11 DEF Finish, At
    <2>2. (\A c \in Tasks \ {k} : calls'[c] = calls[c]) /\ calls'[k].status = "none"
      BY <1>0, <1>1, <1>9, <1>11, <2>1 DEF Finish, At, relay
    <2> QED BY <1>5, <2>1, <2>2
  <1>12. CASE Start
    <2>1. \A k \in Tasks : calls[k].status = "none" /\ position[k] = "idle"
      BY <1>0, <1>1, <1>12 DEF Start
    <2>2. position' = position /\ listening' = topics
      BY <1>12 DEF Start, tasks
    <2>3. CASE topics = {}
      BY <1>12, <2>1, <2>2, <2>3 DEF Start, relay
    <2>4. CASE topics # {}
      BY <1>0, <1>12, <2>1, <2>2, <2>4 DEF Start, Ask
    <2> QED BY <2>3, <2>4
  <1>13. CASE Started
    <2>1. \A k \in Tasks : position[k] = "idle" /\ (k # Main => calls[k].status = "none")
      BY <1>0, <1>1, <1>13 DEF Started
    <2>2. position' = position /\ loop' # "starting"
      BY <1>13 DEF Started, tasks
    <2>3. \A k \in Tasks : calls'[k].status = "none"
      BY <1>0, <1>9, <1>13, <2>1 DEF Started
    <2> QED BY <2>1, <2>2, <2>3
  <1>14. CASE Die
    BY <1>14 DEF Die, NoCall
  <1>15. CASE Pass
    <2>1. calls[Refresher].status = "none" /\ loop = "running" /\ loop' = loop
      BY <1>0, <1>1, <1>15, SubscriptionsAssumption DEF Pass, At
    <2>2. CASE Ask(Refresher, topics) /\ Go(Refresher, "refreshing", NoTopic)
      BY <1>0, <1>5, <2>1, <2>2 DEF Ask
    <2>3. CASE CollectDue /\ UNCHANGED relay
      BY <1>0, <1>5, <2>1, <2>3 DEF CollectDue, relay
    <2> QED BY <1>15, <2>2, <2>3 DEF Pass
  <1>16. CASE Refreshed
    <2>1. loop = "running" /\ loop' = loop /\ (Returned(Refresher) \/ Raised(Refresher))
      BY <1>16 DEF Refreshed, At
    <2>2. CASE CollectDue
      BY <1>0, <1>5, <1>9, <2>1, <2>2 DEF CollectDue
    <2>3. CASE Go(Refresher, "idle", NoTopic)
      BY <1>0, <1>5, <1>9, <2>1, <2>3
    <2> QED BY <1>16, <2>2, <2>3 DEF Refreshed
  <1>17. UNCHANGED listenerVars => UNCHANGED <<relay, position, loop, listening>>
    BY DEF listenerVars, tasks
  <1> QED
    BY <1>2, <1>3, <1>4, <1>7, <1>8, <1>10, <1>11, <1>12, <1>13, <1>14, <1>15, <1>16, <1>17 DEF ListenerNext

\* A coroutine subscribes for the topic it works for, as long as that is active.
LEMMA AskedForStep ==
    ASSUME ListenerTypeOK, Unused, Waiting, AskedFor, [ListenerNext]_listenerVars
    PROVE  AskedFor'
  <1>0. /\ Main \in Tasks /\ Refresher \in Tasks /\ Handler \in Tasks
        /\ position \in [Tasks -> {"idle", "refreshing", "requesting", "subscribing", "publishing"}]
        /\ topic \in [Tasks -> Topics \cup {NoTopic}] /\ calls \in [Tasks -> Calls]
        /\ topics' \subseteq topics \cup fresh
    BY TopicsEffect DEF Tasks, ListenerTypeOK, Calls
  <1>1. ASSUME NEW k \in Tasks, position[k] = "subscribing", topic[k] \in topics'
        PROVE  topic[k] \in calls[k].topics
    BY <1>0, <1>1 DEF AskedFor, Unused
  <1>2. CASE UNCHANGED <<calls, position, topic>>
    BY <1>1, <1>2 DEF AskedFor
  <1>3. ASSUME NEW t \in Topics, (\E b \in BOOLEAN : AddTopic(t, b)) \/ RemoveTopic(t)
        PROVE  UNCHANGED <<calls, position, topic>>
    BY <1>3 DEF AddTopic, RemoveTopic, relay, tasks
  <1>4. ASSUME NEW rs \in SUBSET Relays, TakeEffect(rs) PROVE AskedFor'
    <2>1. UNCHANGED <<position, topic>>
      BY <1>4 DEF TakeEffect, tasks
    <2>2. \A k \in Tasks : calls'[k].topics = calls[k].topics
      BY <1>4, TakenCalls
    <2> QED BY <1>1, <2>1, <2>2 DEF AskedFor
  <1>5. ASSUME NEW k \in Tasks, NEW s, NEW t, Go(k, s, t), \A c \in Tasks \ {k} : calls'[c] = calls[c],
               s = "subscribing" /\ t \in topics' => t \in calls'[k].topics
        PROVE  AskedFor'
    BY <1>0, <1>1, <1>5 DEF Go, AskedFor
  <1>6. ASSUME NEW k \in Tasks, NEW t \in Topics, NEW set \in SUBSET Topics, Subscribe(k, t, set),
               t \in topics' => t \in set
        PROVE  AskedFor'
    <2>1. CASE Ask(k, set) /\ Go(k, "subscribing", t)
      BY <1>0, <1>5, <1>6, <2>1 DEF Ask
    <2>2. CASE UNCHANGED relay /\ Go(k, "publishing", t)
      BY <1>0, <1>5, <1>6, <2>2 DEF relay
    <2> QED BY <1>6, <2>1, <2>2 DEF Subscribe
  <1>7. ASSUME NEW t \in Topics, Request(t) PROVE AskedFor'
    <2>1. topics \in SUBSET Topics
      BY DEF ListenerTypeOK
    <2> QED BY <1>0, <1>6, <1>7, <2>1 DEF Request, registry
  <1>8. ASSUME NEW t \in Topics, Grant(t) PROVE AskedFor'
    <2>1. topics \cup {t} \in SUBSET Topics
      BY DEF ListenerTypeOK
    <2> QED BY <1>0, <1>6, <1>8, <2>1 DEF Grant
  <1>9. ASSUME NEW k \in Tasks, Returned(k) \/ Raised(k) PROVE \A c \in Tasks \ {k} : calls'[c] = calls[c]
    BY <1>0, <1>9 DEF Returned, Raised
  <1>10. ASSUME NEW k \in Tasks, Subscribed(k) PROVE AskedFor'
    BY <1>5, <1>9, <1>10 DEF Subscribed
  <1>11. ASSUME NEW k \in Tasks, Finish(k) PROVE AskedFor'
    BY <1>5, <1>9, <1>11 DEF Finish, relay
  <1>12. CASE Start \/ Started
    <2>1. \A k \in Tasks : position'[k] = "idle"
      BY <1>12 DEF Start, Started, tasks, Waiting
    <2> QED BY <2>1 DEF AskedFor
  <1>13. CASE Die
    BY <1>13 DEF Die, AskedFor
  <1>14. CASE Pass
    BY <1>0, <1>5, <1>14 DEF Pass, Ask, CollectDue, relay
  <1>15. CASE Refreshed
    BY <1>0, <1>5, <1>9, <1>15 DEF Refreshed, CollectDue
  <1>16. UNCHANGED listenerVars => UNCHANGED <<calls, position, topic>>
    BY DEF listenerVars, relay, tasks
  <1> QED
    BY <1>2, <1>3, <1>4, <1>7, <1>8, <1>10, <1>11, <1>12, <1>13, <1>14, <1>15, <1>16 DEF ListenerNext

\* A topic becomes noted only when a call for it takes effect at a relay.
TakenFor(t) == \E rs \in SUBSET Relays : TakeEffect(rs) /\ rs # {} /\ t \in calls[Head(order)].topics

LEMMA NotedBefore ==
    ASSUME ListenerTypeOK, Unused, Waiting, AskedFor, [ListenerNext]_listenerVars,
           NEW t \in topics', Noted(t)'
    PROVE  Noted(t) \/ TakenFor(t)
  <1>0. /\ Main \in Tasks /\ Refresher \in Tasks /\ Handler \in Tasks
        /\ position \in [Tasks -> {"idle", "refreshing", "requesting", "subscribing", "publishing"}]
        /\ topic \in [Tasks -> Topics \cup {NoTopic}] /\ calls \in [Tasks -> Calls]
    BY DEF Tasks, ListenerTypeOK, Calls
  \* Taken calls were taken before.
  <1>1. ASSUME NEW k \in Tasks, calls'[k].status = "taken", t \in calls'[k].topics
        PROVE  Noted(t) \/ TakenFor(t)
    <2>1. CASE UNCHANGED relay
      BY <1>1, <2>1 DEF relay, Noted
    <2>2. ASSUME NEW c \in Tasks, NEW set \in SUBSET Topics, Asked(c, set) PROVE Noted(t)
      <3>1. k # c /\ calls'[k] = calls[k]
        BY <1>1, <2>2, MadeCall
      <3> QED BY <1>1, <3>1 DEF Noted
    <2>3. ASSUME NEW rs \in SUBSET Relays, TakeEffect(rs) PROVE Noted(t) \/ TakenFor(t)
      <3>1. t \in calls[k].topics
        BY <1>1, <2>3, TakenCalls
      <3>2. CASE k = Head(order)
        <4>1. rs # {}
          BY <1>1, <2>3, <3>1, <3>2, TakenCalls
        <4> QED BY <2>3, <3>1, <3>2, <4>1 DEF TakenFor
      <3>3. CASE k # Head(order)
        <4>1. calls[k].status = "taken"
          BY <1>1, <2>3, <3>3, TakenCalls
        <4> QED BY <3>1, <4>1 DEF Noted
      <3> QED BY <3>2, <3>3
    <2>4. ASSUME NEW c \in Tasks, Ended(c) PROVE Noted(t)
      <3>1. k # c /\ calls'[k] = calls[k]
        BY <1>1, <2>4, EndedCall
      <3> QED BY <1>1, <3>1 DEF Noted
    <2>5. CASE Die
      BY <1>1, <2>5 DEF Die, NoCall
    <2> QED BY <2>1, <2>2, <2>3, <2>4, <2>5, CallsEffect DEF listenerVars, relay
  \* Only a call that was taken is noted.
  <1>2. ASSUME loop' = "running", t \in listening' PROVE Noted(t)
    <2>1. CASE UNCHANGED <<loop, listening>>
      BY <1>2, <2>1 DEF Noted
    <2>2. ASSUME NEW u \in Topics,
                 (\E b \in BOOLEAN : AddTopic(u, b)) \/ RemoveTopic(u) \/ Request(u) \/ Grant(u)
          PROVE  UNCHANGED <<loop, listening>>
      BY <2>2 DEF AddTopic, RemoveTopic, Request, Grant
    <2>3. ASSUME NEW rs \in SUBSET Relays, TakeEffect(rs) PROVE UNCHANGED <<loop, listening>>
      BY <2>3 DEF TakeEffect
    <2>4. ASSUME NEW k \in Tasks, Subscribed(k) PROVE Noted(t)
      BY <1>2, <2>4 DEF Subscribed, Returned, Noted
    <2>5. ASSUME NEW k \in Tasks, Finish(k) PROVE UNCHANGED <<loop, listening>>
      BY <2>5 DEF Finish
    <2>6. CASE Start
      BY <1>2, <2>6 DEF Start, registry
    <2>7. CASE Started
      BY <1>0, <1>2, <2>7 DEF Started, Returned, Waiting, Noted
    <2>8. CASE Die
      BY <1>2, <2>8 DEF Die
    <2>9. CASE Pass
      BY <2>1, <2>9 DEF Pass
    <2>10. CASE Refreshed
      BY <1>0, <1>2, <2>1, <2>10 DEF Refreshed, Returned, Noted
    <2>11. UNCHANGED listenerVars => UNCHANGED <<loop, listening>>
      BY DEF listenerVars
    <2> QED
      BY <2>1, <2>2, <2>3, <2>4, <2>5, <2>6, <2>7, <2>8, <2>9, <2>10, <2>11 DEF ListenerNext
  \* A control message is published for a topic that is noted, or whose call was taken.
  <1>3. ASSUME NEW k \in Tasks, position'[k] = "publishing", topic'[k] = t PROVE Noted(t)
    <2>1. CASE position'[k] = position[k] /\ topic'[k] = topic[k]
      BY <1>3, <2>1 DEF Noted
    <2>2. ASSUME NEW c \in Tasks, NEW s, NEW u, Go(c, s, u), s # "publishing"
          PROVE  position'[k] = position[k] /\ topic'[k] = topic[k]
      BY <1>0, <1>3, <2>2 DEF Go
    <2>3. ASSUME NEW u \in Topics, (\E b \in BOOLEAN : AddTopic(u, b)) \/ RemoveTopic(u) PROVE UNCHANGED tasks
      BY <2>3 DEF AddTopic, RemoveTopic
    <2>4. ASSUME NEW c \in Tasks, NEW u \in Topics, NEW set \in SUBSET Topics, Subscribe(c, u, set),
                 loop = "running"
          PROVE  Noted(t)
      <3>1. CASE u \notin listening
        BY <2>1, <2>2, <2>4, <3>1 DEF Subscribe
      <3>2. CASE u \in listening /\ k = c
        BY <1>0, <1>3, <2>4, <3>2 DEF Subscribe, Go, Noted
      <3>3. CASE u \in listening /\ k # c
        BY <1>0, <2>1, <2>4, <3>3 DEF Subscribe, Go
      <3> QED BY <3>1, <3>2, <3>3
    <2>5. ASSUME NEW u \in Topics, Request(u) \/ Grant(u) PROVE Noted(t)
      <3>1. topics \in SUBSET Topics /\ topics \cup {u} \in SUBSET Topics
        BY DEF ListenerTypeOK
      <3> QED BY <1>0, <2>4, <2>5, <3>1 DEF Request, Grant, At
    <2>6. ASSUME NEW rs \in SUBSET Relays, TakeEffect(rs) PROVE UNCHANGED tasks
      BY <2>6 DEF TakeEffect
    <2>7. ASSUME NEW c \in Tasks, Subscribed(c) PROVE Noted(t)
      <3>1. CASE k = c
        <4>1. topic[c] = t /\ position[c] = "subscribing" /\ t \in topics /\ calls[c].status = "taken"
          BY <1>0, <1>3, <2>7, <3>1 DEF Subscribed, Go, At, Returned, registry
        <4> QED BY <4>1 DEF AskedFor, Noted
      <3>2. CASE k # c
        BY <1>0, <2>1, <2>7, <3>2 DEF Subscribed, Go
      <3> QED BY <3>1, <3>2
    <2>8. ASSUME NEW c \in Tasks, Finish(c) PROVE Noted(t)
      BY <2>1, <2>2, <2>8 DEF Finish
    <2>9. CASE Start \/ Started
      BY <2>1, <2>9 DEF Start, Started, tasks
    <2>10. CASE Die
      BY <1>3, <2>10 DEF Die
    <2>11. CASE Pass
      BY <1>0, <2>1, <2>2, <2>11 DEF Pass, CollectDue
    <2>12. CASE Refreshed
      BY <1>0, <2>1, <2>2, <2>12 DEF Refreshed, CollectDue
    <2>13. UNCHANGED tasks \/ UNCHANGED listenerVars => position'[k] = position[k] /\ topic'[k] = topic[k]
      BY DEF listenerVars, tasks
    <2> QED
      BY <2>1, <2>3, <2>5, <2>6, <2>7, <2>8, <2>9, <2>10, <2>11, <2>12, <2>13 DEF ListenerNext
  <1>4. \/ loop' = "running" /\ t \in listening'
        \/ \E k \in Tasks : calls'[k].status = "taken" /\ t \in calls'[k].topics
        \/ \E k \in Tasks : position'[k] = "publishing" /\ topic'[k] = t
    BY DEF Noted
  <1> QED BY <1>1, <1>2, <1>3, <1>4

\* A noted topic stays in the subscription, and in every call that will replace it.
LEMMA NotedStep ==
    ASSUME ListenerTypeOK, SubInv, [ListenerNext]_listenerVars
    PROVE  NotedStays'
  <1> USE DEF SubInv
  <1> SUFFICES ASSUME NEW t \in topics', Noted(t)'
               PROVE  Covered(t)' /\ \A k \in Tasks : calls'[k].status = "asked" => t \in calls'[k].topics
    BY DEF NotedStays
  <1> DEFINE Stays == Covered(t)' /\ \A k \in Tasks : calls'[k].status = "asked" => t \in calls'[k].topics
  <1>0. order \in Seq(Tasks) /\ calls \in [Tasks -> Calls] /\ at \in [Relays -> SUBSET Topics]
    BY DEF ListenerTypeOK, Calls
  <1>1. ASSUME Noted(t)
        PROVE  t \in topics /\ Covered(t) /\ \A k \in Tasks : calls[k].status = "asked" => t \in calls[k].topics
    <2>1. t \in topics
      BY <1>1, TopicsEffect DEF Noted, Unused
    <2> QED BY <1>1, <2>1 DEF NotedStays
  <1>2. CASE Noted(t)
    <2>1. CASE UNCHANGED relay
      BY <1>1, <1>2, <2>1 DEF relay, Covered
    <2>2. ASSUME NEW c \in Tasks, NEW set \in SUBSET Topics, Asked(c, set) PROVE Stays
      <3>1. at' = at /\ calls'[c].topics = set /\ \A k \in Tasks \ {c} : calls'[k] = calls[k]
        BY <2>2, MadeCall
      <3>2. t \in set
        BY <2>2 DEF Asked
      <3> QED BY <1>1, <1>2, <3>1, <3>2 DEF Covered
    <2>3. ASSUME NEW rs \in SUBSET Relays, TakeEffect(rs) PROVE Stays
      <3>1. t \in calls[Head(order)].topics
        BY <1>1, <1>2, <2>3, TakenCalls
      <3>2. PICK r \in Relays : t \in at[r]
        BY <1>1, <1>2 DEF Covered
      <3>3. t \in at'[r]
        BY <2>3, <3>1, <3>2 DEF TakeEffect
      <3>4. \A k \in Tasks :
               calls'[k].status = "asked" => calls[k].status = "asked" /\ calls'[k].topics = calls[k].topics
        BY <2>3, TakenCalls
      <3> QED BY <1>1, <1>2, <3>3, <3>4 DEF Covered
    <2>4. ASSUME NEW c \in Tasks, Ended(c) PROVE Stays
      <3>1. at' = at /\ calls'[c].status = "none" /\ \A k \in Tasks \ {c} : calls'[k] = calls[k]
        BY <2>4, EndedCall
      <3> QED BY <1>1, <1>2, <3>1 DEF Covered
    <2>5. CASE Die
      <3>1. loop' = "down" /\ \A k \in Tasks : calls'[k].status = "none" /\ position'[k] = "idle"
        BY <2>5 DEF Die, NoCall
      <3> QED BY <3>1 DEF Noted
    <2> QED BY <2>1, <2>2, <2>3, <2>4, <2>5, CallsEffect DEF listenerVars, relay
  <1>3. CASE TakenFor(t)
    <2>1. PICK rs \in SUBSET Relays : TakeEffect(rs) /\ rs # {} /\ t \in calls[Head(order)].topics
      BY <1>3 DEF TakenFor
    <2>2. PICK r \in rs : TRUE
      BY <2>1
    <2>3. t \in at'[r] /\ t \in topics
      BY <2>1, <2>2 DEF TakeEffect, registry
    <2>4. ASSUME NEW k \in Tasks, calls'[k].status = "asked" PROVE t \in calls'[k].topics
      <3>1. k # Head(order) /\ calls[k].status = "asked" /\ calls'[k].topics = calls[k].topics
        BY <2>1, <2>4, TakenCalls
      <3>2. PICK i \in DOMAIN order : order[i] = k
        BY <3>1 DEF Waiting
      <3>3. 1 \in DOMAIN order /\ 1 < i /\ t \in calls[order[1]].topics
        BY <2>1, <3>1, <3>2, TakenCalls
      <3>4. t \in calls[order[i]].topics
        BY <2>3, <3>3 DEF LaterCalls
      <3> QED BY <3>1, <3>2, <3>4
    <2> QED BY <2>2, <2>3, <2>4 DEF Covered
  <1> QED BY <1>2, <1>3, NotedBefore

\* Types, and what is known of the calls, in every state.
LEMMA SubInvariant ==
    ListenerSpec => [](ListenerTypeOK /\ SubInv)
  <1>1. ListenerInit => ListenerTypeOK /\ SubInv
    <2> SUFFICES ASSUME ListenerInit PROVE ListenerTypeOK /\ SubInv
      OBVIOUS
    <2>1. ListenerTypeOK
      BY SubscriptionsAssumption DEF ListenerInit, ListenerTypeOK, NoCall
    <2>2. Unused
      BY SubscriptionsAssumption DEF ListenerInit, Unused, NoCall
    <2>3. Waiting /\ LaterCalls /\ AskedFor /\ NotedStays
      BY DEF ListenerInit, Waiting, LaterCalls, AskedFor, NotedStays, Noted, NoCall, Tasks
    <2> QED BY <2>1, <2>2, <2>3 DEF SubInv
  <1>2. ListenerTypeOK /\ SubInv /\ [ListenerNext]_listenerVars => (ListenerTypeOK /\ SubInv)'
    BY SubTypes, UnusedStep, WaitingStep, LaterCallsStep, AskedForStep, NotedStep DEF SubInv
  <1> QED BY <1>1, <1>2, PTL DEF ListenerSpec

\* Whatever the listener notes, and however its calls overlap, a request or an acceptance
\* is published only while an answer to it can be received.
THEOREM SubscribesFirst == ListenerSpec => []SubscribedFirst
  <1>1. SubInv => SubscribedFirst
    BY DEF SubInv, NotedStays, Noted, SubscribedFirst
  <1> QED BY <1>1, SubInvariant, PTL

=============================================================================
