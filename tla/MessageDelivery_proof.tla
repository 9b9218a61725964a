----------------------- MODULE MessageDelivery_proof -----------------------
(***************************************************************************)
(* Proofs about MessageDelivery, for every size of the replay window, of   *)
(* the ledger and of the inbox.                                            *)
(***************************************************************************)
EXTENDS MessageDelivery, FiniteSetTheorems, TLAPS

\* Type correctness of the sequence counters, the window and the inbox.
THEOREM TypeCorrect == Spec => []TypeOK
  <1>1. Init => TypeOK
    BY DeliveryAssumption DEF Init, TypeOK, Sequences
  <1>2. TypeOK /\ [Next]_vars => TypeOK'
    <2> SUFFICES ASSUME TypeOK, [Next]_vars PROVE TypeOK'
      OBVIOUS
    <2> USE DeliveryAssumption DEF TypeOK, senderVars, windowVars, inboxVars
    <2>1. CASE Reserve
      <3>1. sendSequence' \in 0 .. MaxSequence /\ sendSequence' = sendSequence + 1
        BY <2>1 DEF Reserve
      <3>2. (1 .. sendSequence) \subseteq (1 .. sendSequence')
        BY <3>1
      <3>3. sending' \subseteq 1 .. sendSequence'
        BY <2>1, <3>1, <3>2 DEF Reserve
      <3>4. wire' \subseteq (1 .. sendSequence') \X Ciphertexts
        BY <2>1, <3>2 DEF Reserve
      <3> QED BY <2>1, <3>1, <3>3, <3>4 DEF Reserve
    <2>2. CASE CrashSender
      BY <2>2 DEF CrashSender
    <2>3. ASSUME NEW s \in Sequences, NEW x \in Ciphertexts, Publish(s, x) PROVE TypeOK'
      BY <2>3 DEF Publish
    <2>4. ASSUME NEW e \in Events, NEW x \in Ciphertexts, Reencrypt(e, x) PROVE TypeOK'
      BY <2>4 DEF Reencrypt
    <2>5. ASSUME NEW e \in Events, Accept(e) PROVE TypeOK'
      <3>1. e[1] \in Sequences /\ Sequences \subseteq 0 .. MaxSequence
        BY DEF Events, Sequences
      <3>2. highest' \in 0 .. MaxSequence /\ seen' \subseteq Sequences
        BY <2>5, <3>1 DEF Accept
      <3>3. accepted' \in [Sequences -> Nat]
        BY <2>5, <3>1 DEF Accept
      <3> QED BY <2>5, <3>2, <3>3 DEF Accept, Working
    <2>6. ASSUME NEW kept \in SUBSET claimed, Claim(kept) PROVE TypeOK'
      BY <2>6 DEF Claim, Working
    <2>7. ASSUME NEW retired \in SUBSET read, CommitMessage(retired) PROVE TypeOK'
      <3>1. handling.event[1] \in Sequences
        BY <2>7 DEF CommitMessage, WriteEnvelope, Room, Working, Events
      <3> QED BY <2>7, <3>1 DEF CommitMessage, WriteEnvelope, Room
    <2>8. ASSUME NEW retired \in SUBSET read, CrashReceiver(retired) PROVE TypeOK'
      BY <2>8 DEF CrashReceiver
    <2>9. CASE DropMessage
      BY <2>9 DEF DropMessage
    <2>10. ASSUME NEW s \in Sequences, ReadMessage(s) \/ DeleteMessage(s) PROVE TypeOK'
      BY <2>10 DEF ReadMessage, DeleteMessage
    <2>11. CASE EndSession
      BY <2>11 DEF EndSession
    <2>12. ASSUME NEW left \in SUBSET Inbox, EndSessionInterrupted(left) PROVE TypeOK'
      BY <2>12 DEF EndSessionInterrupted
    <2>13. CASE UNCHANGED vars
      BY <2>13 DEF vars
    <2> QED
      BY <2>1, <2>2, <2>3, <2>4, <2>5, <2>6, <2>7, <2>8, <2>9, <2>10, <2>11, <2>12, <2>13
      DEF Next
  <1> QED BY <1>1, <1>2, PTL DEF Spec

-----------------------------------------------------------------------------
(* The inductive invariant.                                                 *)

IInv ==
    /\ AcceptedOnce
    /\ WindowExact
    /\ HistoryAgrees
    /\ NothingAfterEnd

LEMMA AcceptStep ==
    ASSUME TypeOK, IInv, NEW e \in Events, Accept(e)
    PROVE  IInv' /\ e[1] \notin stored
  <1> DEFINE s == e[1]
  <1>1. s \in Nat \ {0} /\ s \in Sequences /\ highest \in Nat /\ Window \in Nat \ {0}
    BY DeliveryAssumption DEF Events, Sequences, TypeOK
  <1>2. accepted[s] = 0
    BY <1>1 DEF Accept, TypeOK, IInv, WindowExact, HistoryAgrees
  <1>3. /\ \A t \in Sequences : accepted'[t] = IF t = s THEN 1 ELSE accepted[t]
        /\ highest' = IF s > highest THEN s ELSE highest
        /\ seen' = {t \in seen : t + Window > highest'} \cup {s}
    BY <1>1, <1>2 DEF Accept, TypeOK
  <1>4. \A t \in Sequences : t \in Nat /\ accepted[t] \in Nat
    BY DEF TypeOK, Sequences
  <1>5. AcceptedOnce'
    BY <1>3 DEF IInv, AcceptedOnce
  <1>6. WindowExact'
    <2>1. \A t \in seen' : t <= highest' /\ InWindow(t)'
      BY <1>1, <1>3, <1>4 DEF IInv, WindowExact, InWindow, Accept, TypeOK
    <2>2. ASSUME NEW t \in Sequences, t <= highest', InWindow(t)'
          PROVE  t \in seen' <=> accepted'[t] > 0
      <3>1. CASE t = s
        BY <1>3, <3>1
      <3>2. CASE t # s /\ t <= highest
        BY <1>1, <1>3, <1>4, <2>2, <3>2 DEF IInv, WindowExact, InWindow
      <3>3. CASE t # s /\ t > highest
        BY <1>1, <1>3, <1>4, <2>2, <3>3 DEF IInv, WindowExact, HistoryAgrees
      <3> QED BY <1>1, <1>4, <3>1, <3>2, <3>3
    <2> QED BY <2>1, <2>2 DEF WindowExact
  <1>7. s \notin stored
    BY <1>2 DEF IInv, HistoryAgrees
  <1>8. HistoryAgrees'
    BY <1>1, <1>3, <1>4, <1>7 DEF Accept, IInv, HistoryAgrees, inboxVars, Inbox, TypeOK
  <1>9. NothingAfterEnd'
    BY DEF Accept, IInv, NothingAfterEnd, inboxVars, Inbox
  <1> QED BY <1>5, <1>6, <1>7, <1>8, <1>9 DEF IInv

LEMMA OtherStep ==
    ASSUME TypeOK, IInv, [Next]_vars, \A e \in Events : ~Accept(e)
    PROVE  IInv'
  <1> USE DEF windowVars, inboxVars, Inbox
  <1>1. UNCHANGED windowVars
    BY DEF Next, Reserve, Publish, CrashSender, Reencrypt, Claim, CommitMessage, WriteEnvelope, Room, DropMessage,
           CrashReceiver, ReadMessage, DeleteMessage, EndSession, EndSessionInterrupted, vars
  <1>2. AcceptedOnce' /\ WindowExact'
    BY <1>1 DEF IInv, AcceptedOnce, WindowExact, InWindow
  <1>3. HistoryAgrees' /\ NothingAfterEnd'
    <2> USE <1>1 DEF IInv, HistoryAgrees, NothingAfterEnd
    <2>1. CASE Reserve \/ CrashSender \/ UNCHANGED vars
      BY <2>1 DEF Reserve, CrashSender, vars
    <2>2. ASSUME NEW s \in Sequences, NEW x \in Ciphertexts, Publish(s, x)
          PROVE  HistoryAgrees' /\ NothingAfterEnd'
      BY <2>2 DEF Publish
    <2>3. ASSUME NEW e \in Events, NEW x \in Ciphertexts, Reencrypt(e, x)
          PROVE  HistoryAgrees' /\ NothingAfterEnd'
      BY <2>3 DEF Reencrypt
    <2>4. ASSUME NEW kept \in SUBSET claimed, Claim(kept)
          PROVE  HistoryAgrees' /\ NothingAfterEnd'
      <3>1. handling \in Working /\ handling'.event = handling.event
        BY <2>4 DEF Claim, TypeOK, Working
      <3> QED BY <2>4, <3>1 DEF Claim
    <2>5. ASSUME NEW retired \in SUBSET read, CommitMessage(retired)
          PROVE  HistoryAgrees' /\ NothingAfterEnd'
      BY <2>5 DEF CommitMessage, WriteEnvelope, Room
    <2>6. ASSUME NEW retired \in SUBSET read, CrashReceiver(retired)
          PROVE  HistoryAgrees' /\ NothingAfterEnd'
      BY <2>6 DEF CrashReceiver
    <2>7. CASE DropMessage
      BY <2>7 DEF DropMessage
    <2>8. ASSUME NEW s \in Sequences, ReadMessage(s) \/ DeleteMessage(s)
          PROVE  HistoryAgrees' /\ NothingAfterEnd'
      BY <2>8 DEF ReadMessage, DeleteMessage
    <2>9. CASE EndSession
      BY <2>9 DEF EndSession
    <2>10. ASSUME NEW left \in SUBSET Inbox, EndSessionInterrupted(left)
           PROVE  HistoryAgrees' /\ NothingAfterEnd'
      BY <2>10 DEF EndSessionInterrupted
    <2> QED
      BY <2>1, <2>2, <2>3, <2>4, <2>5, <2>6, <2>7, <2>8, <2>9, <2>10 DEF Next
  <1> QED BY <1>2, <1>3 DEF IInv

\* The inductive invariant: the window is exact, and the history of a sequence
\* ties the window to the handler and to the inbox.
THEOREM InductiveInvariant == Spec => [](TypeOK /\ IInv)
  <1>1. Init => IInv
    BY DEF Init, IInv, AcceptedOnce, WindowExact, HistoryAgrees, NothingAfterEnd, Inbox
  <1>2. TypeOK /\ IInv /\ [Next]_vars => IInv'
    BY AcceptStep, OtherStep
  <1> QED BY <1>1, <1>2, TypeCorrect, PTL DEF Spec

\* No sequence is accepted twice, for any window and any reordering.
THEOREM NoReplay == Spec => []AcceptedOnce
  <1>1. IInv => AcceptedOnce
    BY DEF IInv
  <1> QED BY <1>1, InductiveInvariant, PTL

\* Inside the window exactly the duplicates are rejected.
THEOREM WindowIsExact == Spec => []WindowExact
  <1>1. IInv => WindowExact
    BY DEF IInv
  <1> QED BY <1>1, InductiveInvariant, PTL

\* An ended session leaves nothing in the inbox, whatever the handler held.
THEOREM EndedSessionsKeepNothing == Spec => []NothingAfterEnd
  <1>1. IInv => NothingAfterEnd
    BY DEF IInv
  <1> QED BY <1>1, InductiveInvariant, PTL

\* A message that left the inbox never comes back.
THEOREM StoredOnce == Spec => NeverStoredAgain
  <1>1. TypeOK /\ IInv /\ [Next]_vars => [(Inbox' \ Inbox) \cap stored = {}]_vars
    BY DEF IInv, HistoryAgrees, Inbox, Next, Reserve, Publish, CrashSender, Reencrypt, Accept,
           Claim, CommitMessage, WriteEnvelope, Room, DropMessage, CrashReceiver, ReadMessage, DeleteMessage,
           EndSession, EndSessionInterrupted, inboxVars
  <1> QED BY <1>1, InductiveInvariant, PTL DEF Spec, NeverStoredAgain

\* No step of the pipeline costs an unread message.
THEOREM UnreadSurvivesPipeline == Spec => PipelineKeepsUnread
  <1>1. [Next]_vars => [handling' # handling => unread \subseteq unread']_vars
    BY DEF Next, Reserve, Publish, CrashSender, Reencrypt, Accept, Claim, CommitMessage, WriteEnvelope, Room,
           DropMessage, CrashReceiver, ReadMessage, DeleteMessage, EndSession,
           EndSessionInterrupted, inboxVars
  <1> QED BY <1>1, PTL DEF Spec, PipelineKeepsUnread

\* The inbox never outgrows its quota.
THEOREM QuotaHolds == Spec => []WithinQuota
  <1>1. TypeOK => IsFiniteSet(Inbox)
    <2>1. IsFiniteSet(Sequences)
      BY FS_Interval, DeliveryAssumption DEF Sequences
    <2> QED BY <2>1, FS_Subset DEF TypeOK, Inbox
  <1>2. Init => WithinQuota
    BY FS_EmptySet, DeliveryAssumption DEF Init, WithinQuota, Inbox
  <1>3. TypeOK /\ IInv /\ WithinQuota /\ [Next]_vars => WithinQuota'
    <2> SUFFICES ASSUME TypeOK, IInv, WithinQuota, [Next]_vars PROVE WithinQuota'
      OBVIOUS
    <2>1. ASSUME NEW retired \in SUBSET read, CommitMessage(retired) PROVE WithinQuota'
      <3>1. Inbox' = (Inbox \ retired) \cup {handling.event[1]}
        BY <2>1 DEF CommitMessage, WriteEnvelope, Room, IInv, HistoryAgrees, Inbox
      <3>2. IsFiniteSet(Inbox \ retired) /\ handling.event[1] \notin Inbox \ retired
        BY <1>1, <2>1, FS_Subset DEF CommitMessage, WriteEnvelope, Room, IInv, HistoryAgrees
      <3>3. Cardinality(Inbox') = Cardinality(Inbox \ retired) + 1
        BY <3>1, <3>2, FS_AddElement
      <3>4. Cardinality(Inbox \ retired) \in Nat
        BY <3>2, FS_CardinalityType
      <3> QED BY <2>1, <3>3, <3>4, DeliveryAssumption DEF CommitMessage, WriteEnvelope, Room, WithinQuota
    <2>2. CASE \A retired \in SUBSET read : ~CommitMessage(retired)
      <3>1. Inbox' \subseteq Inbox
        BY <2>2 DEF Inbox, Next, Reserve, Publish, CrashSender, Reencrypt, Accept, Claim,
             DropMessage, CrashReceiver, ReadMessage, DeleteMessage, EndSession,
             EndSessionInterrupted, inboxVars, vars
      <3>2. Cardinality(Inbox') <= Cardinality(Inbox) /\ IsFiniteSet(Inbox')
        BY <1>1, <3>1, FS_Subset
      <3>3. Cardinality(Inbox) \in Nat /\ Cardinality(Inbox') \in Nat
        BY <1>1, <3>2, FS_CardinalityType
      <3> QED BY <3>2, <3>3, DeliveryAssumption DEF WithinQuota
    <2> QED BY <2>1, <2>2
  <1> QED BY <1>2, <1>3, InductiveInvariant, PTL DEF Spec

=============================================================================
