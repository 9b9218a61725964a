------------------------- MODULE Notifications_proof -------------------------
(***************************************************************************)
(* Proofs about Notifications. A message is, at any time, in one place: to *)
(* arrive, in the handler, on a pending list, in a batch of the open       *)
(* transaction, or named in a prompt. The invariant says so, and relates   *)
(* the transaction's copy of the registry to the written one.              *)
(***************************************************************************)
EXTENDS Notifications, FiniteSetTheorems, TLAPS

USE NotificationsAssumption

\* Where a message is before its prompt.
Placed ==
    /\ fresh \cap announcing = {}
    /\ \A t \in Tasks : \A m \in pending[t] :
          TaskOf[m] = t /\ m \notin fresh \cup announcing /\ calls[m] = 0
    /\ \A m \in fresh \cup announcing : calls[m] = 0
    /\ \A m \in Messages : calls[m] <= 1

\* Messages that are neither to arrive nor in the handler, and in no prompt.
Free == {m \in Messages : calls[m] = 0 /\ m \notin fresh \cup announcing}

\* A batch contains the list that it empties, and no id of another list.
BatchOK(batch, lists, free) ==
    /\ batch.ids \subseteq free
    /\ Cardinality(batch.ids) <= MaxPending
    /\ \A t \in Tasks : \A m \in lists[t] : m \in batch.ids => batch.task = t
    /\ batch.task # NoTask => lists[batch.task] \subseteq batch.ids

CallOK(m) ==
    /\ m \in Free
    /\ \A t \in Tasks : m \notin pending[t]
    /\ \A i \in 1 .. Len(txn.todo) : m \notin txn.todo[i].ids
    /\ active /\ m \in unread /\ Applicable(m)

\* The open transaction: what its copy of the registry lacks was not announceable.
Opened ==
    txn # Idle =>
        /\ txn.deliveries = deliveries
        /\ \A t \in Tasks : txn.pending[t] \subseteq pending[t]
        /\ \A t \in Tasks : \A m \in pending[t] \ txn.pending[t] :
              ~Announceable(m, deliveries) \/ ~armed
        /\ \A i \in 1 .. Len(txn.todo) : BatchOK(txn.todo[i], txn.pending, Free)
        /\ \A i, j \in 1 .. Len(txn.todo) : i # j => txn.todo[i].ids \cap txn.todo[j].ids = {}
        /\ \A m \in txn.calling : CallOK(m)

\* A message was current in no later epoch; an ended session has nothing pending.
Settled ==
    /\ \A m \in Messages : TaskOf[m] # NoTask => stamp[m] <= epoch[TaskOf[m]]
    /\ ~active => \A t \in Tasks : pending[t] = {}

NInv == TypeOK /\ Placed /\ Opened /\ Settled

-----------------------------------------------------------------------------
(* Lists and batches.                                                       *)

LEMMA Size ==
    ASSUME NEW ids \in SUBSET Messages
    PROVE  IsFiniteSet(ids) /\ Cardinality(ids) \in Nat
  BY FS_Subset, FS_CardinalityType

LEMMA OneMore ==
    ASSUME NEW ids \in SUBSET Messages, NEW m \in Messages, Cardinality(ids) < MaxPending
    PROVE  Cardinality(ids \cup {m}) <= MaxPending
  BY Size, FS_AddElement

LEMMA OneMessage ==
    ASSUME NEW m \in Messages
    PROVE  Cardinality({m}) <= MaxPending
  <1>1. Cardinality({}) = 0 /\ {} \in SUBSET Messages
    BY FS_EmptySet
  <1>2. Cardinality({} \cup {m}) <= MaxPending
    BY <1>1, OneMore
  <1> QED BY <1>2

LEMMA Emptied ==
    ASSUME NEW p \in PendingLists, NEW t \in Tasks
    PROVE  [p EXCEPT ![t] = {}] \in PendingLists
  BY FS_EmptySet DEF PendingLists

LEMMA NoneWaits == [t \in Tasks |-> {}] \in PendingLists
  BY FS_EmptySet DEF PendingLists

LEMMA OneMoreWaits ==
    ASSUME NEW p \in PendingLists, NEW t \in Tasks, NEW m \in Messages, Cardinality(p[t]) < MaxPending
    PROVE  [p EXCEPT ![t] = @ \cup {m}] \in PendingLists
  <1>1. p[t] \in SUBSET Messages
    BY DEF PendingLists
  <1>2. Cardinality(p[t] \cup {m}) <= MaxPending
    BY <1>1, OneMore
  <1> QED BY <1>1, <1>2 DEF PendingLists

\* The batches of notify() and of flush_notifications().
LEMMA NotifyBatches ==
    ASSUME TypeOK, NEW m \in Messages
    PROVE  BatchesFor(m) \in Seq(Batches)
  <1>1. /\ {m} \in SUBSET Messages
        /\ \A t \in Tasks : pending[t] \in SUBSET Messages /\ {m} \cup pending[t] \in SUBSET Messages
    BY DEF TypeOK, PendingLists
  <1>2. TaskOf[m] \in Tasks \cup {NoTask}
    OBVIOUS
  <1>3. [ids |-> {m}, task |-> NoTask] \in Batches
    BY <1>1 DEF Batches
  <1>4. TaskOf[m] # NoTask =>
          /\ [ids |-> {m} \cup pending[TaskOf[m]], task |-> TaskOf[m]] \in Batches
          /\ [ids |-> pending[TaskOf[m]], task |-> TaskOf[m]] \in Batches
    BY <1>1, <1>2 DEF Batches
  <1> QED BY <1>3, <1>4 DEF BatchesFor

LEMMA FlushBatches ==
    ASSUME TypeOK, NEW order \in SetToSeqs({t \in Tasks : Due(t)})
    PROVE  /\ order \in Seq(Tasks)
           /\ \A i, j \in DOMAIN order : i # j => order[i] # order[j]
           /\ [i \in DOMAIN order |-> [ids |-> pending[order[i]], task |-> order[i]]] \in Seq(Batches)
  <1> DEFINE due == {t \in Tasks : Due(t)}
             n == Cardinality(due)
  <1>1. /\ order \in [1 .. n -> due]
        /\ \A i, j \in 1 .. n : i # j => order[i] # order[j]
    BY DEF SetToSeqs
  <1>2. n \in Nat
    BY FS_Subset, FS_CardinalityType
  <1>3. \A i \in 1 .. n : [ids |-> pending[order[i]], task |-> order[i]] \in Batches
    BY <1>1 DEF TypeOK, PendingLists, Batches
  <1> HIDE DEF n
  <1>4. order \in Seq(Tasks) /\ DOMAIN order = 1 .. n
    BY <1>1, <1>2
  <1> QED BY <1>1, <1>2, <1>3, <1>4
\* What remains of the batches when the first one is taken.
LEMMA NextBatch ==
    ASSUME TypeOK, txn # Idle, txn.todo # <<>>
    PROVE  /\ txn \in Transactions /\ 1 \in 1 .. Len(txn.todo)
           /\ Head(txn.todo) = txn.todo[1] /\ Head(txn.todo) \in Batches
           /\ Tail(txn.todo) \in Seq(Batches)
           /\ \A i \in 1 .. Len(Tail(txn.todo)) :
                 Tail(txn.todo)[i] = txn.todo[i + 1] /\ i + 1 \in 1 .. Len(txn.todo) /\ i + 1 # 1
  <1>1. txn \in Transactions
    BY DEF TypeOK
  <1>2. txn.todo \in Seq(Batches)
    BY <1>1 DEF Transactions
  <1> QED BY <1>1, <1>2

\* A batch that fits a prompt is announced as far as its messages may be.
LEMMA Selection ==
    ASSUME NEW ids \in SUBSET Messages, NEW d, NEW chosen \in Selections(ids, d),
           Cardinality(ids) <= MaxPending
    PROVE  /\ chosen \subseteq ids
           /\ active /\ armed => chosen = {m \in ids : Announceable(m, d)}
           /\ chosen # {} => active /\ armed
  BY DEF Selections, Leading

LEMMA SelectionType ==
    ASSUME NEW ids \in SUBSET Messages, NEW d, NEW chosen \in Selections(ids, d)
    PROVE  chosen \in SUBSET Messages
  BY DEF Selections, Leading

LEMMA ConsumedType ==
    ASSUME TypeOK, txn \in Transactions, NEW batch \in Batches
    PROVE  Consumed(batch) \in PendingLists
  BY Emptied DEF Consumed, Batches, Transactions

LEMMA RememberType ==
    ASSUME NEW d \in Seq(SUBSET Messages), NEW ids \in SUBSET Messages
    PROVE  Remember(d, ids) \in Seq(SUBSET Messages)
  <1>1. Append(d, ids) \in Seq(SUBSET Messages) /\ Append(d, ids) # <<>>
    OBVIOUS
  <1>2. Tail(Append(d, ids)) \in Seq(SUBSET Messages)
    BY <1>1
  <1> QED BY <1>1, <1>2 DEF Remember

LEMMA OpenType ==
    ASSUME TypeOK, NEW batches \in Seq(Batches), Open(batches)
    PROVE  txn' \in Transactions
  BY DEF Open, TypeOK, Transactions

-----------------------------------------------------------------------------
(* Types.                                                                   *)

LEMMA TypeInit ==
    ASSUME Init
    PROVE  TypeOK
  <1>1. <<>> \in Seq(SUBSET Messages)
    OBVIOUS
  <1> QED BY <1>1, NoneWaits DEF Init, TypeOK

LEMMA TypeStep ==
    ASSUME TypeOK, [Next]_vars
    PROVE  TypeOK'
  <1> USE DEF Inbox, Registry, Timers
  <1>1. ASSUME NEW m \in Messages, NEW b \in BOOLEAN, CommitReport(m, b) PROVE TypeOK'
    <2>1. IF b /\ TaskOf[m] # NoTask THEN epoch[TaskOf[m]] \in 0 .. MaxEpoch ELSE TRUE
      BY DEF TypeOK
    <2>2. (IF b /\ TaskOf[m] # NoTask THEN epoch[TaskOf[m]] ELSE 0) \in 0 .. MaxEpoch
      BY <2>1
    <2> QED BY <1>1, <2>2 DEF CommitReport, TypeOK
  <1>2. ASSUME NEW m \in Messages, NEW b \in BOOLEAN, CommitInstruction(m, b) PROVE TypeOK'
    <2> DEFINE t == TaskOf[m]
    <2>1. t \in Tasks
      BY <1>2 DEF CommitInstruction
    <2>2. epoch[t] + 1 \in 1 .. MaxEpoch /\ 0 \in 0 .. MaxEpoch
      BY <1>2, <2>1 DEF CommitInstruction, Invalidate, TypeOK
    <2>3. [pending EXCEPT ![t] = {}] \in PendingLists
      BY <2>1, Emptied DEF TypeOK
    <2> QED BY <1>2, <2>1, <2>2, <2>3 DEF CommitInstruction, Invalidate, TypeOK
  <1>3. ASSUME NEW t \in Tasks, NEW b \in BOOLEAN, InvalidateLocally(t, b) PROVE TypeOK'
    <2>1. epoch[t] + 1 \in 1 .. MaxEpoch
      BY <1>3 DEF InvalidateLocally, Invalidate, TypeOK
    <2>2. [pending EXCEPT ![t] = {}] \in PendingLists
      BY Emptied DEF TypeOK
    <2> QED BY <1>3, <2>1, <2>2 DEF InvalidateLocally, Invalidate, TypeOK
  <1>4. ASSUME NEW m \in Messages, ReadMessage(m) \/ NotifyNot(m) PROVE TypeOK'
    BY <1>4 DEF ReadMessage, NotifyNot, TypeOK
  <1>5. ASSUME NEW m \in Messages, NotifyLater(m) PROVE TypeOK'
    <2> DEFINE t == TaskOf[m]
    <2>1. t \in Tasks /\ Cardinality(pending[t]) < MaxPending
      BY <1>5 DEF NotifyLater, Waits
    <2>2. [pending EXCEPT ![t] = @ \cup {m}] \in PendingLists
      BY <2>1, OneMoreWaits DEF TypeOK
    <2> QED BY <1>5, <2>1, <2>2 DEF NotifyLater, TypeOK
  <1>6. ASSUME NEW m \in Messages, NotifyNow(m) PROVE TypeOK'
    <2>1. txn' \in Transactions
      BY <1>6, NotifyBatches, OpenType DEF NotifyNow
    <2> QED BY <1>6, <2>1 DEF NotifyNow, TypeOK
  <1>7. ASSUME NEW b \in BOOLEAN, SetDelivery(b) PROVE TypeOK'
    BY <1>7 DEF SetDelivery, TypeOK
  <1>8. ASSUME NEW b \in BOOLEAN, HostCall(b) PROVE TypeOK'
    <2>1. txn \in Transactions /\ txn' \in Transactions
      BY <1>8 DEF HostCall, TypeOK, Transactions
    <2>2. calls' \in [Messages -> Nat]
      BY <1>8 DEF HostCall, TypeOK
    <2> QED BY <1>8, <2>1, <2>2 DEF HostCall, TypeOK
  <1>9. CASE EndSession
    <2>1. <<>> \in Seq(SUBSET Messages)
      OBVIOUS
    <2> QED BY <1>9, <2>1, NoneWaits DEF EndSession, TypeOK
  <1>10. CASE Tick
    <2>1. ASSUME NEW t \in Tasks
          PROVE  /\ (IF quiet[t] < Debounce THEN quiet[t] + 1 ELSE Debounce) \in 0 .. Debounce
                 /\ (IF age[t] < Window THEN age[t] + 1 ELSE Window) \in 0 .. Window
      <3>1. quiet[t] \in 0 .. Debounce /\ age[t] \in 0 .. Window
        BY DEF TypeOK
      <3> QED BY <3>1
    <2> QED BY <1>10, <2>1 DEF Tick, TypeOK
  <1>11. CASE Flush
    <2>1. PICK order \in SetToSeqs({t \in Tasks : Due(t)}) :
             Open([i \in DOMAIN order |-> [ids |-> pending[order[i]], task |-> order[i]]])
      BY <1>11 DEF Flush
    <2>2. txn' \in Transactions
      BY <2>1, FlushBatches, OpenType
    <2> QED BY <1>11, <2>2 DEF Flush, TypeOK
  <1>12. CASE SkipBatch
    <2>1. Consumed(Head(txn.todo)) \in PendingLists
      BY <1>12, NextBatch, ConsumedType DEF SkipBatch
    <2>2. txn' \in Transactions
      BY <1>12, <2>1, NextBatch DEF SkipBatch, Transactions
    <2> QED BY <1>12, <2>2 DEF SkipBatch, TypeOK
  <1>13. CASE Persist
    <2>1. PICK ids \in Selections(Head(txn.todo).ids, txn.deliveries) :
             /\ txn' = [pending |-> Consumed(Head(txn.todo)),
                        deliveries |-> Remember(txn.deliveries, ids),
                        todo |-> Tail(txn.todo), calling |-> ids]
             /\ pending' = Consumed(Head(txn.todo))
             /\ deliveries' = Remember(txn.deliveries, ids)
      BY <1>13 DEF Persist
    <2>2. /\ txn \in Transactions /\ Head(txn.todo) \in Batches /\ Tail(txn.todo) \in Seq(Batches)
          /\ Consumed(Head(txn.todo)) \in PendingLists
      BY <1>13, NextBatch, ConsumedType DEF Persist
    <2>3. ids \in SUBSET Messages /\ Remember(txn.deliveries, ids) \in Seq(SUBSET Messages)
      BY <2>2, SelectionType, RememberType DEF Transactions, Batches
    <2>4. txn' \in Transactions
      BY <2>1, <2>2, <2>3 DEF Transactions
    <2> QED BY <1>13, <2>1, <2>2, <2>3, <2>4 DEF Persist, TypeOK
  <1>14. CASE Close
    BY <1>14 DEF Close, TypeOK, Transactions
  <1>15. CASE Crash
    BY <1>15 DEF Crash, TypeOK
  <1>16. CASE UNCHANGED vars
    BY <1>16 DEF vars, TypeOK
  <1> QED BY <1>1, <1>2, <1>3, <1>4, <1>5, <1>6, <1>7, <1>8, <1>9, <1>10, <1>11, <1>12, <1>13,
             <1>14, <1>15, <1>16 DEF Next

\* The registry and the open transaction keep their types, and no list outgrows a prompt.
THEOREM TypeCorrect == Spec => []TypeOK
  BY TypeInit, TypeStep, PTL DEF Spec

-----------------------------------------------------------------------------
(* The invariant.                                                           *)

LEMMA InvInit ==
    ASSUME Init
    PROVE  NInv
  <1>1. TypeOK
    BY TypeInit
  <1>2. Placed /\ Opened /\ Settled
    BY DEF Init, Placed, Opened, Settled
  <1> QED BY <1>1, <1>2 DEF NInv

\* The three notifications of a message, and the steps of others between transactions.
LEMMA PlacedStep ==
    ASSUME NInv, [Next]_vars
    PROVE  Placed'
  <1> USE DEF Inbox, Registry, Timers
  <1>0. TypeOK /\ Placed /\ Opened /\ Settled
    BY DEF NInv
  <1>1. ASSUME NEW m \in Messages, NEW b \in BOOLEAN, CommitReport(m, b) PROVE Placed'
    BY <1>0, <1>1 DEF CommitReport, Placed
  <1>2. ASSUME NEW m \in Messages, NEW b \in BOOLEAN, CommitInstruction(m, b) PROVE Placed'
    BY <1>0, <1>2 DEF CommitInstruction, Invalidate, Placed, TypeOK, PendingLists
  <1>3. ASSUME NEW t \in Tasks, NEW b \in BOOLEAN, InvalidateLocally(t, b) PROVE Placed'
    BY <1>0, <1>3 DEF InvalidateLocally, Invalidate, Placed, TypeOK, PendingLists
  <1>4. ASSUME NEW m \in Messages, ReadMessage(m) \/ NotifyNot(m) \/ NotifyNow(m) PROVE Placed'
    BY <1>0, <1>4 DEF ReadMessage, NotifyNot, NotifyNow, Placed
  <1>5. ASSUME NEW m \in Messages, NotifyLater(m) PROVE Placed'
    <2>1. /\ TaskOf[m] \in Tasks /\ m \in announcing
          /\ pending' = [pending EXCEPT ![TaskOf[m]] = @ \cup {m}]
          /\ announcing' = announcing \ {m} /\ fresh' = fresh /\ calls' = calls
      BY <1>5 DEF NotifyLater, Waits
    <2> QED BY <1>0, <2>1 DEF Placed, TypeOK, PendingLists
  <1>6. ASSUME NEW b \in BOOLEAN, HostCall(b) PROVE Placed'
    <2>1. /\ txn # Idle
          /\ \A m \in Messages : calls'[m] = calls[m] \/ (m \in txn.calling /\ calls'[m] = calls[m] + 1)
      BY <1>0, <1>6 DEF HostCall, TypeOK
    <2>2. \A m \in txn.calling :
             calls[m] = 0 /\ m \notin fresh \cup announcing /\ \A t \in Tasks : m \notin pending[t]
      BY <1>0, <2>1 DEF Opened, CallOK, Free
    <2>3. /\ fresh' = fresh /\ announcing' = announcing /\ pending' = pending
          /\ fresh \subseteq Messages /\ announcing \subseteq Messages
          /\ \A t \in Tasks : pending[t] \subseteq Messages
      BY <1>0, <1>6 DEF HostCall, TypeOK, PendingLists
    <2> QED BY <1>0, <2>1, <2>2, <2>3 DEF Placed
  <1>7. CASE EndSession
    BY <1>0, <1>7 DEF EndSession, Placed
  <1>8. CASE Persist
    <2>1. \A t \in Tasks : pending'[t] \subseteq txn.pending[t]
      BY <1>0, <1>8, NextBatch DEF Persist, Consumed, Transactions, PendingLists
    <2>2. \A t \in Tasks : txn.pending[t] \subseteq pending[t]
      BY <1>0, <1>8 DEF Persist, Opened
    <2>3. fresh' = fresh /\ announcing' = announcing /\ calls' = calls
      BY <1>8 DEF Persist
    <2> QED BY <1>0, <2>1, <2>2, <2>3 DEF Placed
  <1>9. CASE Close
    BY <1>0, <1>9 DEF Close, Placed, Opened
  <1>10. CASE Crash
    BY <1>0, <1>10 DEF Crash, Placed
  <1>11. ASSUME NEW b \in BOOLEAN, SetDelivery(b) PROVE Placed'
    BY <1>0, <1>11 DEF SetDelivery, Placed
  <1>12. CASE Tick \/ Flush \/ SkipBatch \/ UNCHANGED vars
    BY <1>0, <1>12 DEF Tick, Flush, SkipBatch, vars, Placed
  <1> QED BY <1>1, <1>2, <1>3, <1>4, <1>5, <1>6, <1>7, <1>8, <1>9, <1>10, <1>11, <1>12 DEF Next

LEMMA SettledStep ==
    ASSUME NInv, [Next]_vars
    PROVE  Settled'
  <1> USE DEF Inbox, Registry, Timers
  <1>0. TypeOK /\ Opened /\ Settled
    BY DEF NInv
  <1>1. ASSUME NEW m \in Messages, NEW b \in BOOLEAN, CommitReport(m, b) PROVE Settled'
    <2>1. \A t \in Tasks : epoch[t] \in Nat /\ 0 <= epoch[t]
      BY <1>0 DEF TypeOK
    <2>2. stamp' = [stamp EXCEPT ![m] = IF b /\ TaskOf[m] # NoTask THEN epoch[TaskOf[m]] ELSE 0]
      BY <1>1 DEF CommitReport
    <2>3. active' = active /\ pending' = pending /\ epoch' = epoch
      BY <1>1 DEF CommitReport
    <2>4. stamp'[m] = 0 \/ (TaskOf[m] # NoTask /\ stamp'[m] = epoch[TaskOf[m]])
      BY <1>0, <2>2 DEF TypeOK
    <2>5. \A n \in Messages \ {m} : stamp'[n] = stamp[n]
      BY <1>0, <2>2 DEF TypeOK
    <2>6. \A n \in Messages : TaskOf[n] # NoTask => stamp'[n] <= epoch'[TaskOf[n]]
      BY <1>0, <2>1, <2>3, <2>4, <2>5 DEF Settled
    <2> QED BY <1>0, <2>3, <2>6 DEF Settled
  <1>2. ASSUME NEW m \in Messages, NEW b \in BOOLEAN, CommitInstruction(m, b) PROVE Settled'
    <2>1. \A t \in Tasks : epoch[t] \in Nat /\ \A n \in Messages : stamp[n] \in Nat
      BY <1>0 DEF TypeOK
    <2>2. /\ stamp' = [stamp EXCEPT ![m] = IF b THEN epoch[TaskOf[m]] + 1 ELSE 0]
          /\ epoch' = [epoch EXCEPT ![TaskOf[m]] = @ + 1]
          /\ active' = active /\ active /\ TaskOf[m] \in Tasks
      BY <1>2 DEF CommitInstruction, Invalidate
    <2>3. \A n \in Messages \ {m} : TaskOf[n] # NoTask => stamp'[n] <= epoch'[TaskOf[n]]
      BY <1>0, <2>1, <2>2 DEF Settled, TypeOK
    <2>4. stamp'[m] <= epoch'[TaskOf[m]]
      BY <1>0, <2>1, <2>2 DEF TypeOK
    <2> QED BY <2>2, <2>3, <2>4 DEF Settled
  <1>3. ASSUME NEW t \in Tasks, NEW b \in BOOLEAN, InvalidateLocally(t, b) PROVE Settled'
    <2>1. \A u \in Tasks : epoch[u] \in Nat /\ \A n \in Messages : stamp[n] \in Nat
      BY <1>0 DEF TypeOK
    <2>2. /\ stamp' = stamp /\ epoch' = [epoch EXCEPT ![t] = @ + 1]
          /\ active' = active /\ active
      BY <1>3 DEF InvalidateLocally, Invalidate
    <2> QED BY <1>0, <2>1, <2>2 DEF Settled, TypeOK
  <1>4. ASSUME NEW m \in Messages, NotifyLater(m) PROVE Settled'
    BY <1>0, <1>4 DEF NotifyLater, Settled
  <1>5. ASSUME NEW m \in Messages, ReadMessage(m) \/ NotifyNot(m) \/ NotifyNow(m) PROVE Settled'
    BY <1>0, <1>5 DEF ReadMessage, NotifyNot, NotifyNow, Settled
  <1>6. ASSUME NEW b \in BOOLEAN, HostCall(b) \/ SetDelivery(b) PROVE Settled'
    BY <1>0, <1>6 DEF HostCall, SetDelivery, Settled
  <1>7. CASE EndSession
    BY <1>0, <1>7 DEF EndSession, Settled
  <1>8. CASE Persist
    <2>1. \A t \in Tasks : pending'[t] \subseteq txn.pending[t]
      BY <1>0, <1>8, NextBatch DEF Persist, Consumed, Transactions, PendingLists
    <2>2. \A t \in Tasks : txn.pending[t] \subseteq pending[t]
      BY <1>0, <1>8 DEF Persist, Opened
    <2>3. active' = active /\ stamp' = stamp /\ epoch' = epoch
      BY <1>8 DEF Persist
    <2> QED BY <1>0, <2>1, <2>2, <2>3 DEF Settled
  <1>9. CASE Close
    BY <1>0, <1>9 DEF Close, Settled, Opened
  <1>10. CASE Crash \/ Tick \/ Flush \/ SkipBatch \/ UNCHANGED vars
    BY <1>0, <1>10 DEF Crash, Tick, Flush, SkipBatch, vars, Settled
  <1> QED BY <1>1, <1>2, <1>3, <1>4, <1>5, <1>6, <1>7, <1>8, <1>9, <1>10 DEF Next

\* The transaction as notify() and flush_notifications() open it.
LEMMA OpenedNow ==
    ASSUME NInv, txn = Idle, NEW m \in Messages, NotifyNow(m)
    PROVE  Opened'
  <1> USE DEF Inbox, Registry
  <1>0. TypeOK /\ Placed
    BY DEF NInv
  <1>1. /\ txn' = [pending |-> pending, deliveries |-> deliveries, todo |-> BatchesFor(m), calling |-> {}]
        /\ announcing' = announcing \ {m} /\ m \in announcing
        /\ UNCHANGED <<fresh, pending, deliveries, calls, armed>>
    BY DEF NotifyNow, Open
  <1>2. /\ calls[m] = 0 /\ m \notin fresh /\ \A t \in Tasks : m \notin pending[t]
        /\ TaskOf[m] \in Tasks \cup {NoTask}
    BY <1>0, <1>1 DEF Placed
  <1>3. \A t \in Tasks : /\ pending[t] \in SUBSET Messages /\ Cardinality(pending[t]) <= MaxPending
                          /\ \A n \in pending[t] : TaskOf[n] = t /\ calls[n] = 0 /\ n \notin fresh \cup announcing
    BY <1>0 DEF TypeOK, PendingLists, Placed
  <1>4. Cardinality({m}) <= MaxPending
    BY OneMessage
  <1>5. BatchOK([ids |-> {m}, task |-> NoTask], pending, Free')
    BY <1>1, <1>2, <1>4 DEF BatchOK, Free
  <1>6. ASSUME TaskOf[m] # NoTask
        PROVE  BatchOK([ids |-> pending[TaskOf[m]], task |-> TaskOf[m]], pending, Free')
    BY <1>1, <1>2, <1>3, <1>6 DEF BatchOK, Free
  <1>7. ASSUME TaskOf[m] # NoTask, Cardinality(pending[TaskOf[m]]) < MaxPending
        PROVE  BatchOK([ids |-> {m} \cup pending[TaskOf[m]], task |-> TaskOf[m]], pending, Free')
    <2>1. Cardinality({m} \cup pending[TaskOf[m]]) <= MaxPending
      <3>1. {m} \cup pending[TaskOf[m]] = pending[TaskOf[m]] \cup {m}
        OBVIOUS
      <3> QED BY <1>2, <1>3, <1>7, <3>1, OneMore
    <2> QED BY <1>1, <1>2, <1>3, <1>7, <2>1 DEF BatchOK, Free
  <1>8. /\ \A i \in 1 .. Len(BatchesFor(m)) : BatchOK(BatchesFor(m)[i], pending, Free')
        /\ \A i, j \in 1 .. Len(BatchesFor(m)) :
              i # j => BatchesFor(m)[i].ids \cap BatchesFor(m)[j].ids = {}
    <2>1. CASE TaskOf[m] = NoTask \/ pending[TaskOf[m]] = {}
      <3>1. BatchesFor(m) = <<[ids |-> {m}, task |-> NoTask]>>
        BY <2>1 DEF BatchesFor
      <3> QED BY <1>5, <3>1
    <2>2. CASE TaskOf[m] # NoTask /\ pending[TaskOf[m]] # {} /\ Cardinality(pending[TaskOf[m]]) < MaxPending
      <3>1. BatchesFor(m) = <<[ids |-> {m} \cup pending[TaskOf[m]], task |-> TaskOf[m]]>>
        BY <2>2 DEF BatchesFor
      <3> QED BY <1>7, <2>2, <3>1
    <2>3. CASE TaskOf[m] # NoTask /\ pending[TaskOf[m]] # {} /\ ~(Cardinality(pending[TaskOf[m]]) < MaxPending)
      <3>1. BatchesFor(m) = <<[ids |-> {m}, task |-> NoTask],
                              [ids |-> pending[TaskOf[m]], task |-> TaskOf[m]]>>
        BY <2>3 DEF BatchesFor
      <3> QED BY <1>2, <1>5, <1>6, <2>3, <3>1
    <2> QED BY <2>1, <2>2, <2>3
  <1> QED BY <1>1, <1>8 DEF Opened

LEMMA OpenedFlush ==
    ASSUME NInv, txn = Idle, Flush
    PROVE  Opened'
  <1> USE DEF Inbox, Registry
  <1>0. TypeOK /\ Placed
    BY DEF NInv
  <1>1. PICK order \in SetToSeqs({t \in Tasks : Due(t)}) :
           Open([i \in DOMAIN order |-> [ids |-> pending[order[i]], task |-> order[i]]])
    BY DEF Flush
  <1> DEFINE batches == [i \in DOMAIN order |-> [ids |-> pending[order[i]], task |-> order[i]]]
  <1>2. /\ txn' = [pending |-> pending, deliveries |-> deliveries, todo |-> batches, calling |-> {}]
        /\ UNCHANGED <<fresh, announcing, pending, deliveries, calls, armed>>
    BY <1>1 DEF Flush, Open
  <1>3. /\ order \in Seq(Tasks) /\ batches \in Seq(Batches)
        /\ \A i, j \in DOMAIN order : i # j => order[i] # order[j]
    BY <1>0, FlushBatches
  <1>4. 1 .. Len(batches) = DOMAIN order
    BY <1>3
  <1>5. \A t \in Tasks : /\ pending[t] \in SUBSET Messages /\ Cardinality(pending[t]) <= MaxPending
                          /\ \A n \in pending[t] : TaskOf[n] = t /\ calls[n] = 0 /\ n \notin fresh \cup announcing
    BY <1>0 DEF TypeOK, PendingLists, Placed
  <1>6. ASSUME NEW i \in DOMAIN order
        PROVE  BatchOK(batches[i], pending, Free')
    <2>1. batches[i] = [ids |-> pending[order[i]], task |-> order[i]] /\ order[i] \in Tasks
      BY <1>3
    <2> HIDE DEF batches
    <2> QED BY <1>2, <1>5, <2>1 DEF BatchOK, Free
  <1>7. ASSUME NEW i \in DOMAIN order, NEW j \in DOMAIN order, i # j
        PROVE  batches[i].ids \cap batches[j].ids = {}
    BY <1>3, <1>5, <1>7
  <1> HIDE DEF batches
  <1> QED BY <1>2, <1>4, <1>6, <1>7 DEF Opened

\* What the first batch of a transaction is, and what remains without it.
LEMMA FirstBatch ==
    ASSUME NInv, txn # Idle, txn.todo # <<>>
    PROVE  LET batch == Head(txn.todo)
               rest == Tail(txn.todo)
           IN  /\ batch \in Batches /\ BatchOK(batch, txn.pending, Free)
               /\ txn \in Transactions /\ txn.deliveries = deliveries
               /\ \A i \in 1 .. Len(rest) :
                     /\ BatchOK(rest[i], Consumed(batch), Free)
                     /\ rest[i].ids \cap batch.ids = {}
                     /\ \A j \in 1 .. Len(rest) : i # j => rest[i].ids \cap rest[j].ids = {}
               /\ \A t \in Tasks :
                     /\ Consumed(batch)[t] \subseteq txn.pending[t]
                     /\ \A m \in txn.pending[t] : m \notin Consumed(batch)[t] <=> m \in batch.ids
  <1> DEFINE batch == Head(txn.todo)
             rest == Tail(txn.todo)
  <1>0. TypeOK /\ Opened
    BY DEF NInv
  <1>1. /\ txn \in Transactions /\ 1 \in 1 .. Len(txn.todo) /\ batch = txn.todo[1] /\ batch \in Batches
        /\ \A i \in 1 .. Len(rest) :
              rest[i] = txn.todo[i + 1] /\ i + 1 \in 1 .. Len(txn.todo) /\ i + 1 # 1 /\ i \in Nat
    BY <1>0, NextBatch
  <1>2. /\ txn.deliveries = deliveries
        /\ \A i \in 1 .. Len(txn.todo) : BatchOK(txn.todo[i], txn.pending, Free)
        /\ \A i, j \in 1 .. Len(txn.todo) : i # j => txn.todo[i].ids \cap txn.todo[j].ids = {}
    BY <1>0 DEF Opened
  <1>3. BatchOK(batch, txn.pending, Free)
    BY <1>1, <1>2
  <1>4. batch.task \in Tasks \cup {NoTask} /\ txn.pending \in [Tasks -> SUBSET Messages]
    BY <1>1 DEF Batches, Transactions, PendingLists
  <1> HIDE DEF batch
  <1>5. ASSUME NEW t \in Tasks
        PROVE  /\ Consumed(batch)[t] \subseteq txn.pending[t]
               /\ \A m \in txn.pending[t] : m \notin Consumed(batch)[t] <=> m \in batch.ids
    BY <1>3, <1>4 DEF Consumed, BatchOK
  <1> HIDE DEF rest
  <1>6. ASSUME NEW i \in 1 .. Len(rest)
        PROVE  /\ BatchOK(rest[i], Consumed(batch), Free)
               /\ rest[i].ids \cap batch.ids = {}
    <2>1. /\ BatchOK(rest[i], txn.pending, Free) /\ rest[i].ids \cap batch.ids = {}
      BY <1>1, <1>2
    <2>2. rest[i].task # NoTask => rest[i].task \in Tasks
      <3>1. txn.todo \in Seq(Batches)
        BY <1>1 DEF Transactions
      <3>2. rest[i] \in Batches
        BY <1>1, <3>1
      <3> QED BY <3>2 DEF Batches
    <2> QED BY <1>5, <2>1, <2>2 DEF BatchOK
  <1>7. ASSUME NEW i \in 1 .. Len(rest), NEW j \in 1 .. Len(rest), i # j
        PROVE  rest[i].ids \cap rest[j].ids = {}
    <2>1. /\ rest[i] = txn.todo[i + 1] /\ i + 1 \in 1 .. Len(txn.todo) /\ i \in Nat
          /\ rest[j] = txn.todo[j + 1] /\ j + 1 \in 1 .. Len(txn.todo) /\ j \in Nat
      BY <1>1
    <2>2. i + 1 # j + 1
      BY <1>7, <2>1
    <2>3. txn.todo[i + 1].ids \cap txn.todo[j + 1].ids = {}
      BY <1>2, <2>1, <2>2
    <2> QED BY <2>1, <2>3
  <1> QED BY <1>1, <1>2, <1>3, <1>5, <1>6, <1>7 DEF batch, rest

LEMMA OpenedSkip ==
    ASSUME NInv, SkipBatch
    PROVE  Opened'
  <1> USE DEF Inbox, Registry
  <1> DEFINE batch == Head(txn.todo)
             rest == Tail(txn.todo)
  <1>0. TypeOK /\ Opened /\ Settled
    BY DEF NInv
  <1>1. /\ txn # Idle /\ txn.todo # <<>> /\ txn.calling = {}
        /\ {} \in Selections(batch.ids, txn.deliveries)
        /\ txn' = [txn EXCEPT !.pending = Consumed(batch), !.todo = rest]
        /\ UNCHANGED <<active, armed, fresh, unread, epoch, working, stamp, announcing, pending, deliveries, calls>>
    BY DEF SkipBatch
  <1>2. /\ batch \in Batches /\ BatchOK(batch, txn.pending, Free)
        /\ txn \in Transactions /\ txn.deliveries = deliveries
        /\ \A i \in 1 .. Len(rest) :
              /\ BatchOK(rest[i], Consumed(batch), Free)
              /\ rest[i].ids \cap batch.ids = {}
              /\ \A j \in 1 .. Len(rest) : i # j => rest[i].ids \cap rest[j].ids = {}
        /\ \A t \in Tasks :
              /\ Consumed(batch)[t] \subseteq txn.pending[t]
              /\ \A m \in txn.pending[t] : m \notin Consumed(batch)[t] <=> m \in batch.ids
    BY <1>1, FirstBatch
  <1> HIDE DEF batch, rest
  <1>3. /\ txn'.pending = Consumed(batch) /\ txn'.todo = rest
        /\ txn'.deliveries = deliveries /\ txn'.calling = {}
    BY <1>1, <1>2 DEF Transactions
  <1>4. /\ batch.ids \in SUBSET Messages /\ Cardinality(batch.ids) <= MaxPending
    BY <1>2 DEF Batches, BatchOK
  <1>5. active /\ armed => \A m \in batch.ids : ~Announceable(m, deliveries)
    BY <1>1, <1>2, <1>4, Selection
  <1>6. /\ \A t \in Tasks : txn.pending[t] \subseteq pending[t]
        /\ \A t \in Tasks : \A m \in pending[t] \ txn.pending[t] : ~Announceable(m, deliveries) \/ ~armed
        /\ ~active => \A t \in Tasks : pending[t] = {}
    BY <1>0, <1>1 DEF Opened, Settled
  <1>7. ASSUME NEW t \in Tasks, NEW m \in pending[t] \ Consumed(batch)[t]
        PROVE  ~Announceable(m, deliveries) \/ ~armed
    BY <1>2, <1>5, <1>6
  <1>8. /\ Free' = Free
        /\ \A m : Announceable(m, deliveries)' <=> Announceable(m, deliveries)
    BY <1>1 DEF Free, Announceable, Applicable
  <1> QED BY <1>1, <1>2, <1>3, <1>6, <1>7, <1>8 DEF Opened

LEMMA OpenedPersist ==
    ASSUME NInv, Persist
    PROVE  Opened'
  <1> USE DEF Inbox
  <1> DEFINE batch == Head(txn.todo)
             rest == Tail(txn.todo)
  <1>0. TypeOK /\ Opened /\ Settled /\ Placed
    BY DEF NInv
  <1>1. /\ txn # Idle /\ txn.todo # <<>>
        /\ UNCHANGED <<active, armed, fresh, unread, epoch, working, stamp, announcing, calls>>
    BY DEF Persist
  <1>2. PICK ids \in Selections(batch.ids, txn.deliveries) :
           /\ ids # {}
           /\ txn' = [pending |-> Consumed(batch), deliveries |-> Remember(txn.deliveries, ids),
                      todo |-> rest, calling |-> ids]
           /\ pending' = Consumed(batch)
           /\ deliveries' = Remember(txn.deliveries, ids)
    BY DEF Persist
  <1>3. /\ batch \in Batches /\ BatchOK(batch, txn.pending, Free)
        /\ txn \in Transactions /\ txn.deliveries = deliveries
        /\ \A i \in 1 .. Len(rest) :
              /\ BatchOK(rest[i], Consumed(batch), Free)
              /\ rest[i].ids \cap batch.ids = {}
              /\ \A j \in 1 .. Len(rest) : i # j => rest[i].ids \cap rest[j].ids = {}
        /\ \A t \in Tasks :
              /\ Consumed(batch)[t] \subseteq txn.pending[t]
              /\ \A m \in txn.pending[t] : m \notin Consumed(batch)[t] <=> m \in batch.ids
    BY <1>1, FirstBatch
  <1> HIDE DEF batch, rest
  <1>4. /\ batch.ids \in SUBSET Messages /\ Cardinality(batch.ids) <= MaxPending /\ batch.ids \subseteq Free
    BY <1>3 DEF Batches, BatchOK
  <1>5. /\ ids \subseteq batch.ids /\ active /\ armed
        /\ \A m \in ids : Announceable(m, deliveries)
    BY <1>2, <1>3, <1>4, Selection
  <1>6. Free' = Free /\ \A m : Applicable(m)' <=> Applicable(m)
    BY <1>1 DEF Free, Applicable
  <1>7. ASSUME NEW m \in ids
        PROVE  CallOK(m)'
    <2>1. m \in batch.ids /\ m \in Free /\ m \in unread /\ Applicable(m)
      BY <1>4, <1>5 DEF Announceable
    <2>2. \A t \in Tasks : m \notin pending'[t]
      BY <1>2, <1>3, <2>1
    <2>3. \A i \in 1 .. Len(txn'.todo) : m \notin txn'.todo[i].ids
      BY <1>2, <1>3, <2>1
    <2> QED BY <1>1, <1>5, <1>6, <2>1, <2>2, <2>3 DEF CallOK
  <1> QED BY <1>2, <1>3, <1>6, <1>7 DEF Opened

LEMMA OpenedCall ==
    ASSUME NInv, NEW b \in BOOLEAN, HostCall(b)
    PROVE  Opened'
  <1> USE DEF Inbox, Registry
  <1>0. TypeOK /\ Opened
    BY DEF NInv
  <1>1. /\ txn # Idle /\ txn \in Transactions
        /\ txn' = [txn EXCEPT !.calling = {}]
        /\ UNCHANGED <<active, armed, fresh, unread, epoch, working, stamp, announcing, pending, deliveries>>
    BY <1>0 DEF HostCall, TypeOK
  <1>2. /\ txn'.pending = txn.pending /\ txn'.todo = txn.todo
        /\ txn'.deliveries = txn.deliveries /\ txn'.calling = {}
    BY <1>1 DEF Transactions
  <1>3. \A m : Announceable(m, deliveries)' <=> Announceable(m, deliveries)
    BY <1>1 DEF Announceable, Applicable
  <1>4. \A m \in Messages \ txn.calling : calls'[m] = calls[m]
    BY <1>0 DEF HostCall, TypeOK
  <1>5. ASSUME NEW i \in 1 .. Len(txn.todo)
        PROVE  BatchOK(txn.todo[i], txn.pending, Free')
    <2>1. BatchOK(txn.todo[i], txn.pending, Free) /\ \A m \in txn.calling : m \notin txn.todo[i].ids
      BY <1>0, <1>1 DEF Opened, CallOK
    <2>2. txn.todo[i].ids \subseteq Free'
      BY <1>1, <1>4, <2>1 DEF BatchOK, Free
    <2> QED BY <2>1, <2>2 DEF BatchOK
  <1> QED BY <1>0, <1>1, <1>2, <1>3, <1>5 DEF Opened

\* Outside of its own steps the open transaction is not disturbed: the lock is held.
LEMMA OpenedStep ==
    ASSUME NInv, [Next]_vars
    PROVE  Opened'
  <1> USE DEF Inbox, Registry, Timers
  <1>0. Opened
    BY DEF NInv
  <1>1. CASE txn' = Idle
    BY <1>1 DEF Opened
  <1>2. ASSUME NEW m \in Messages, NotifyNow(m) PROVE Opened'
    BY <1>2, OpenedNow DEF NotifyNow
  <1>3. CASE Flush
    BY <1>3, OpenedFlush DEF Flush
  <1>4. CASE SkipBatch
    BY <1>4, OpenedSkip
  <1>5. CASE Persist
    BY <1>5, OpenedPersist
  <1>6. ASSUME NEW b \in BOOLEAN, HostCall(b) PROVE Opened'
    BY <1>6, OpenedCall
  <1>7. CASE UNCHANGED vars
    <2>1. Free' = Free /\ \A m : Announceable(m, deliveries)' <=> Announceable(m, deliveries)
      BY <1>7 DEF vars, Free, Announceable, Applicable
    <2>2. \A m : CallOK(m)' <=> CallOK(m)
      BY <1>7, <2>1 DEF vars, CallOK, Applicable
    <2> QED BY <1>0, <1>7, <2>1, <2>2 DEF vars, Opened
  <1>8. ASSUME NEW m \in Messages, NEW b \in BOOLEAN, CommitReport(m, b) \/ CommitInstruction(m, b)
        PROVE  txn' = Idle
    BY <1>8 DEF CommitReport, CommitInstruction
  <1>9. ASSUME NEW t \in Tasks, NEW b \in BOOLEAN, InvalidateLocally(t, b) PROVE txn' = Idle
    BY <1>9 DEF InvalidateLocally
  <1>10. ASSUME NEW m \in Messages, ReadMessage(m) \/ NotifyLater(m) \/ NotifyNot(m) PROVE txn' = Idle
    BY <1>10 DEF ReadMessage, NotifyLater, NotifyNot
  <1>11. ASSUME NEW b \in BOOLEAN, SetDelivery(b) PROVE txn' = Idle
    BY <1>11 DEF SetDelivery
  <1>12. CASE EndSession \/ Tick \/ Close \/ Crash
    BY <1>1, <1>12 DEF EndSession, Tick, Close, Crash
  <1> QED BY <1>1, <1>2, <1>3, <1>4, <1>5, <1>6, <1>7, <1>8, <1>9, <1>10, <1>11, <1>12 DEF Next

LEMMA Invariant == Spec => []NInv
  <1>1. ASSUME NInv, [Next]_vars PROVE NInv'
    <2>1. TypeOK
      BY <1>1 DEF NInv
    <2>2. TypeOK'
      BY <1>1, <2>1, TypeStep
    <2> QED BY <1>1, <2>2, PlacedStep, OpenedStep, SettledStep DEF NInv
  <1> QED BY <1>1, InvInit, PTL DEF Spec

-----------------------------------------------------------------------------
(* The theorems.                                                            *)

\* No message is named in two prompts.
THEOREM PromptedOnce == Spec => []AnnouncedOnce
  <1>1. NInv => AnnouncedOnce
    BY DEF NInv, Placed, AnnouncedOnce
  <1> QED BY <1>1, Invariant, PTL

\* Only a host call announces a message.
LEMMA OnlyCallsAnnounce ==
    ASSUME NInv, [Next]_vars, NEW m \in Messages, calls'[m] # calls[m]
    PROVE  txn # Idle /\ m \in txn.calling
  <1> USE DEF Inbox, Registry, Timers
  <1>1. ASSUME NEW b \in BOOLEAN, HostCall(b) PROVE txn # Idle /\ m \in txn.calling
    BY <1>1 DEF HostCall, NInv, TypeOK
  <1>2. ASSUME \A b \in BOOLEAN : ~HostCall(b) PROVE calls' = calls
    BY <1>2 DEF Next, vars, CommitReport, CommitInstruction, InvalidateLocally, ReadMessage, NotifyLater,
       NotifyNow, NotifyNot, SetDelivery, EndSession, Tick, Flush, SkipBatch, Persist, Close, Crash
  <1> QED BY <1>1, <1>2

\* A prompt names only unread messages that are applicable when the host is called.
THEOREM PromptsStayCurrent == Spec => PromptsAreCurrent
  <1>1. ASSUME NInv, [Next]_vars
        PROVE  [\A m \in Messages : calls'[m] > calls[m] => active /\ m \in unread /\ Applicable(m)]_vars
    <2>1. ASSUME NEW m \in Messages, calls'[m] > calls[m]
          PROVE  active /\ m \in unread /\ Applicable(m)
      <3>1. calls'[m] # calls[m]
        BY <1>1, <2>1 DEF NInv, TypeOK
      <3> QED BY <1>1, <3>1, OnlyCallsAnnounce DEF NInv, Opened, CallOK
    <2> QED BY <2>1
  <1> QED BY <1>1, Invariant, PTL DEF Spec, PromptsAreCurrent

\* The last attempt is always remembered.
LEMMA Remembered ==
    ASSUME NEW d \in Seq(SUBSET Messages), NEW ids \in SUBSET Messages
    PROVE  ids \subseteq Attempted(Remember(d, ids))
  <1> DEFINE all == Append(d, ids)
  <1>1. all \in Seq(SUBSET Messages) /\ Len(all) = Len(d) + 1 /\ all[Len(all)] = ids /\ Len(d) \in Nat
    OBVIOUS
  <1> HIDE DEF all
  <1>2. \E i \in 1 .. Len(Remember(d, ids)) : Remember(d, ids)[i] = ids
    <2>1. CASE Len(all) <= MaxDeliveries
      <3>1. Remember(d, ids) = all /\ Len(all) \in 1 .. Len(all)
        BY <1>1, <2>1 DEF Remember, all
      <3> QED BY <1>1, <3>1
    <2>2. CASE ~(Len(all) <= MaxDeliveries)
      <3>1. Remember(d, ids) = Tail(all) /\ Len(d) >= 1 /\ all # <<>>
        BY <1>1, <2>2 DEF Remember, all
      <3>2. Len(Tail(all)) = Len(d) /\ Tail(all)[Len(d)] = ids
        BY <1>1, <3>1
      <3> QED BY <1>1, <3>1, <3>2
    <2> QED BY <2>1, <2>2
  <1> QED BY <1>2 DEF Attempted

\* An id that left a list because its task moved on is not applicable any more.
LEMMA KeptByInvalidate ==
    ASSUME NInv, NEW t \in Tasks, NEW b \in BOOLEAN, Invalidate(t, b),
           NEW m \in pending[t], stamp'[m] = stamp[m]
    PROVE  ~Announceable(m, deliveries)'
  <1>1. TaskOf[m] = t /\ m \in Messages /\ TaskOf[m] # NoTask
    BY DEF NInv, Placed, TypeOK, PendingLists
  <1>2. epoch[t] \in Nat /\ stamp[m] \in Nat /\ stamp[m] <= epoch[t]
    BY <1>1 DEF NInv, Settled, TypeOK
  <1>3. epoch'[t] = epoch[t] + 1
    BY DEF Invalidate, NInv, TypeOK
  <1> QED BY <1>1, <1>2, <1>3 DEF Announceable, Applicable

\* A pending id is announced, or is no longer announceable, when it leaves its list.
THEOREM NothingPendingIsLost == Spec => PendingIsKept
  <1> USE DEF Inbox, Registry, Timers
  <1>1. ASSUME NInv, [Next]_vars, NEW t \in Tasks, NEW m \in pending[t] \ pending'[t]
        PROVE  \/ m \in Attempted(deliveries')
               \/ ~Announceable(m, deliveries) \/ ~Announceable(m, deliveries)'
               \/ ~armed
    <2>0. TypeOK /\ Placed /\ Opened /\ m \in Messages
      BY <1>1 DEF NInv, TypeOK, PendingLists
    <2>1. ASSUME NEW n \in Messages, NEW b \in BOOLEAN, CommitInstruction(n, b)
          PROVE  ~Announceable(m, deliveries)'
      <3>1. /\ TaskOf[n] \in Tasks /\ n \in fresh /\ Invalidate(TaskOf[n], b)
            /\ pending' = [pending EXCEPT ![TaskOf[n]] = {}]
        BY <2>1 DEF CommitInstruction, Invalidate
      <3>2. t = TaskOf[n] /\ n # m
        BY <1>1, <2>0, <3>1 DEF Placed, TypeOK, PendingLists
      <3>3. stamp'[m] = stamp[m]
        BY <2>0, <2>1, <3>2 DEF CommitInstruction, TypeOK
      <3> QED BY <1>1, <3>1, <3>2, <3>3, KeptByInvalidate
    <2>2. ASSUME NEW u \in Tasks, NEW b \in BOOLEAN, InvalidateLocally(u, b)
          PROVE  ~Announceable(m, deliveries)'
      <3>1. Invalidate(u, b) /\ pending' = [pending EXCEPT ![u] = {}] /\ stamp' = stamp
        BY <2>2 DEF InvalidateLocally, Invalidate
      <3>2. t = u
        BY <1>1, <2>0, <3>1 DEF TypeOK, PendingLists
      <3> QED BY <1>1, <3>1, <3>2, KeptByInvalidate
    <2>3. ASSUME NEW n \in Messages, NotifyLater(n) PROVE FALSE
      BY <1>1, <2>0, <2>3 DEF NotifyLater, TypeOK, PendingLists
    <2>4. CASE EndSession
      BY <2>4 DEF EndSession, Announceable
    <2>5. CASE Persist
      <3> DEFINE batch == Head(txn.todo)
      <3>1. PICK ids \in Selections(batch.ids, txn.deliveries) :
               /\ ids # {} /\ pending' = Consumed(batch)
               /\ deliveries' = Remember(txn.deliveries, ids)
        BY <2>5 DEF Persist
      <3>2. /\ txn # Idle /\ batch \in Batches /\ BatchOK(batch, txn.pending, Free)
            /\ txn \in Transactions /\ txn.deliveries = deliveries
            /\ \A n \in txn.pending[t] : n \notin Consumed(batch)[t] <=> n \in batch.ids
        BY <1>1, <2>5, FirstBatch DEF Persist
      <3> HIDE DEF batch
      <3>3. batch.ids \in SUBSET Messages /\ Cardinality(batch.ids) <= MaxPending
        BY <3>2 DEF Batches, BatchOK
      <3>4. /\ ids \in SUBSET Messages /\ active /\ armed
            /\ ids = {n \in batch.ids : Announceable(n, deliveries)}
        BY <3>1, <3>2, <3>3, Selection
      <3>5. ids \subseteq Attempted(deliveries')
        BY <3>1, <3>2, <3>4, <2>0, Remembered DEF TypeOK
      <3>6. CASE m \in txn.pending[t]
        BY <1>1, <3>1, <3>2, <3>4, <3>5, <3>6
      <3>7. CASE m \notin txn.pending[t]
        BY <1>1, <2>0, <3>2, <3>7 DEF Opened
      <3> QED BY <3>6, <3>7
    <2>6. CASE Close
      BY <1>1, <2>0, <2>6 DEF Close, Opened
    <2>7. ASSUME NEW n \in Messages, NEW b \in BOOLEAN, CommitReport(n, b) PROVE FALSE
      BY <1>1, <2>7 DEF CommitReport
    <2>8. ASSUME NEW n \in Messages, ReadMessage(n) \/ NotifyNow(n) \/ NotifyNot(n) PROVE FALSE
      BY <1>1, <2>8 DEF ReadMessage, NotifyNow, NotifyNot
    <2>9. ASSUME NEW b \in BOOLEAN, SetDelivery(b) \/ HostCall(b) PROVE FALSE
      BY <1>1, <2>9 DEF SetDelivery, HostCall
    <2>10. ASSUME Tick \/ Flush \/ SkipBatch \/ Crash \/ UNCHANGED vars PROVE FALSE
      BY <1>1, <2>10 DEF Tick, Flush, SkipBatch, Crash, vars
    <2> QED BY <1>1, <2>1, <2>2, <2>3, <2>4, <2>5, <2>6, <2>7, <2>8, <2>9, <2>10 DEF Next
  <1>2. ASSUME NInv, [Next]_vars
        PROVE  [\A t \in Tasks : \A m \in pending[t] \ pending'[t] :
                   \/ m \in Attempted(deliveries')
                   \/ ~Announceable(m, deliveries) \/ ~Announceable(m, deliveries)'
                   \/ ~armed]_vars
    BY <1>1, <1>2
  <1> QED BY <1>2, Invariant, PTL DEF Spec, PendingIsKept

=============================================================================
