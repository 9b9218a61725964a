---------------------------- MODULE Notifications ----------------------------
(***************************************************************************)
(* Notifications of one private session (notify, flush_notifications and   *)
(* _notify_locked in connections.py, schedule in coordination.py). A       *)
(* message that was committed to the inbox is announced to the host chat   *)
(* by a prompt, at once or, for the routine reports of a coalescing task,  *)
(* in a batch. The host is called inside a registry transaction, which     *)
(* writes the registry once before each call.                              *)
(*                                                                         *)
(* A message arrives once (NeverStoredAgain of MessageDelivery). A task    *)
(* record is reduced to an epoch, which a new instruction, a pause and a   *)
(* resume advance; a message of an earlier epoch never becomes current     *)
(* again (OutdatedStaysOutdated of TaskCoordination), and no record is in  *)
(* conflict (Agreement of TaskCoordination). The policy of a session does  *)
(* not change; it asks for notifications.                                  *)
(***************************************************************************)
EXTENDS Integers, Sequences, FiniteSets, SequencesExt

CONSTANTS
    Messages, Tasks,
    TaskOf,        \* TaskOf[m]: the task of a message, or NoTask
    Routine,       \* messages whose kind is accepted or progress
    Coalescing,    \* tasks configured with coalesce
    NoTask, Idle,
    MaxPending,    \* MAX_PENDING (32)
    MaxDeliveries, \* attempts remembered for a session (32)
    Debounce, Window, \* 1 s and 5 s, in ticks
    MaxEpoch, MaxCrashes \* bounds of the model

ASSUME NotificationsAssumption ==
    /\ IsFiniteSet(Messages) /\ IsFiniteSet(Tasks) /\ NoTask \notin Tasks
    /\ TaskOf \in [Messages -> Tasks \cup {NoTask}]
    /\ \A m \in Routine : TaskOf[m] # NoTask
    /\ MaxPending \in Nat \ {0} /\ MaxDeliveries \in Nat \ {0}
    /\ Debounce \in Nat /\ Window \in Nat
    /\ MaxEpoch \in Nat \ {0} /\ MaxCrashes \in Nat

VARIABLES
    active,     \* the session exists and is active
    armed,      \* the chat is registered for delivery
    fresh,      \* messages that did not arrive yet
    unread,     \* unread messages in the inbox
    announcing, \* messages in the handler between commit_message and notify
    epoch, working, \* of each task: its epoch, and whether it has a current instruction
    stamp,      \* epoch in which a message was current when it arrived, or 0
    pending,    \* of each task: ids that wait for a batch, as written in the registry
    deliveries, \* remembered attempts, as written in the registry
    quiet, age, \* of each task: time since the last and since the first pending id
    txn,        \* the open transaction: its copy of the registry and the batches to announce
    calls,      \* history: prompts that named a message
    crashes

vars == <<active, armed, fresh, unread, announcing, epoch, working, stamp, pending, deliveries,
          quiet, age, txn, calls, crashes>>

Inbox == <<active, armed, fresh, unread, epoch, working, stamp>>
Registry == <<pending, deliveries>>
Timers == <<quiet, age>>

\* The pending list of each task.
PendingLists == {p \in [Tasks -> SUBSET Messages] : \A t \in Tasks : Cardinality(p[t]) <= MaxPending}

\* The ids of a batch; its task, whose pending list it empties, if any.
Batches == [ids : SUBSET Messages, task : Tasks \cup {NoTask}]
Transactions ==
    [pending : PendingLists, deliveries : Seq(SUBSET Messages),
     todo : Seq(Batches), calling : SUBSET Messages]

TypeOK ==
    /\ active \in BOOLEAN /\ armed \in BOOLEAN
    /\ fresh \subseteq Messages /\ unread \subseteq Messages /\ announcing \subseteq Messages
    /\ epoch \in [Tasks -> 1 .. MaxEpoch] /\ working \in [Tasks -> BOOLEAN]
    /\ stamp \in [Messages -> 0 .. MaxEpoch]
    /\ pending \in PendingLists
    /\ deliveries \in Seq(SUBSET Messages)
    /\ quiet \in [Tasks -> 0 .. Debounce] /\ age \in [Tasks -> 0 .. Window]
    /\ txn \in Transactions \cup {Idle}
    /\ calls \in [Messages -> Nat]
    /\ crashes \in 0 .. MaxCrashes

Init ==
    /\ active = TRUE /\ armed \in BOOLEAN
    /\ fresh = Messages /\ unread = {} /\ announcing = {}
    /\ epoch = [t \in Tasks |-> 1] /\ working = [t \in Tasks |-> FALSE]
    /\ stamp = [m \in Messages |-> 0]
    /\ pending = [t \in Tasks |-> {}] /\ deliveries = <<>>
    /\ quiet = [t \in Tasks |-> 0] /\ age = [t \in Tasks |-> 0]
    /\ txn = Idle
    /\ calls = [m \in Messages |-> 0]
    /\ crashes = 0

-----------------------------------------------------------------------------
(* What the transactions of other operations do to a notification.          *)

\* apply() and applicability(): the message is about the current instruction.
Applicable(m) ==
    TaskOf[m] # NoTask => working[TaskOf[m]] /\ stamp[m] = epoch[TaskOf[m]]

\* A task whose instruction is replaced, paused or resumed drops its pending ids.
Invalidate(t, isWorking) ==
    /\ epoch[t] < MaxEpoch
    /\ epoch' = [epoch EXCEPT ![t] = @ + 1]
    /\ working' = [working EXCEPT ![t] = isWorking]
    /\ pending' = [pending EXCEPT ![t] = {}]

\* commit_message() of a report or of a message without a task. A late or refused
\* report is stored as well; it is not current.
CommitReport(m, isCurrent) ==
    /\ txn = Idle /\ active /\ m \in fresh
    /\ isCurrent /\ TaskOf[m] # NoTask => working[TaskOf[m]]
    /\ fresh' = fresh \ {m} /\ unread' = unread \cup {m} /\ announcing' = announcing \cup {m}
    /\ stamp' = [stamp EXCEPT ![m] = IF isCurrent /\ TaskOf[m] # NoTask THEN epoch[TaskOf[m]] ELSE 0]
    /\ UNCHANGED <<active, armed, epoch, working, pending, deliveries, Timers, txn, calls, crashes>>

\* commit_message() of an instruction of the peer (which is current), or of its pause
\* or resume (which is not).
CommitInstruction(m, isWorking) ==
    /\ txn = Idle /\ active /\ m \in fresh \ Routine /\ TaskOf[m] # NoTask
    /\ Invalidate(TaskOf[m], isWorking)
    /\ fresh' = fresh \ {m} /\ unread' = unread \cup {m} /\ announcing' = announcing \cup {m}
    /\ stamp' = [stamp EXCEPT ![m] = IF isWorking THEN epoch[TaskOf[m]] + 1 ELSE 0]
    /\ UNCHANGED <<active, armed, deliveries, Timers, txn, calls, crashes>>

\* send() of an instruction or of a pause or resume, and task_control().
InvalidateLocally(t, isWorking) ==
    /\ txn = Idle /\ active
    /\ Invalidate(t, isWorking)
    /\ UNCHANGED <<active, armed, fresh, unread, announcing, stamp, deliveries, Timers, txn, calls, crashes>>

\* read() and delete() of a message, as far as a notification can tell.
ReadMessage(m) ==
    /\ txn = Idle /\ m \in unread
    /\ unread' = unread \ {m}
    /\ UNCHANGED <<active, armed, fresh, announcing, epoch, working, stamp, Registry, Timers, txn,
                   calls, crashes>>

\* register_delivery() and unregister_delivery().
SetDelivery(on) ==
    /\ txn = Idle /\ active
    /\ armed' = on /\ armed # on
    /\ UNCHANGED <<active, fresh, unread, announcing, epoch, working, stamp, Registry, Timers, txn,
                   calls, crashes>>

\* Revocation or expiry, with the purge of the tasks and the inbox.
EndSession ==
    /\ txn = Idle /\ active
    /\ active' = FALSE /\ unread' = {}
    /\ pending' = [t \in Tasks |-> {}] /\ deliveries' = <<>>
    /\ UNCHANGED <<armed, fresh, announcing, epoch, working, stamp, Timers, txn, calls, crashes>>

\* The clock, as far as a pending batch depends on it.
Tick ==
    /\ txn = Idle
    /\ quiet' = [t \in Tasks |-> IF quiet[t] < Debounce THEN quiet[t] + 1 ELSE Debounce]
    /\ age' = [t \in Tasks |-> IF age[t] < Window THEN age[t] + 1 ELSE Window]
    /\ Timers' # Timers
    /\ UNCHANGED <<Inbox, announcing, Registry, txn, calls, crashes>>

-----------------------------------------------------------------------------
(* The transactions of notify() and flush_notifications().                  *)

Attempted(d) == UNION {d[i] : i \in 1 .. Len(d)}

\* _notification_payload(): the message may still be announced.
Announceable(m, d) == m \notin Attempted(d) /\ m \in unread /\ Applicable(m)

\* A prompt names at most MaxPending messages, the first ones of its batch; their
\* order is left out.
Leading(ids) ==
    IF Cardinality(ids) <= MaxPending THEN {ids}
    ELSE {first \in SUBSET ids : Cardinality(first) = MaxPending}

\* Mutant: a batch is announced as it was collected.
SelectionsStale(ids, d) ==
    IF active /\ armed THEN {{m \in first : m \notin Attempted(d)} : first \in Leading(ids)} ELSE {{}}

\* What the prompt of a batch may name; nothing when the session or its delivery ended.
Selections(ids, d) ==
    IF active /\ armed THEN {{m \in first : Announceable(m, d)} : first \in Leading(ids)} ELSE {{}}

Open(batches) ==
    txn' = [pending |-> pending, deliveries |-> deliveries, todo |-> batches, calling |-> {}]

\* schedule(): the id waits for a batch.
Waits(m) ==
    LET t == TaskOf[m] IN
    m \in Routine /\ t \in Coalescing /\ Cardinality(pending[t]) < MaxPending

NotifyLater(m) ==
    LET t == TaskOf[m] IN
    /\ txn = Idle /\ m \in announcing
    /\ active /\ Announceable(m, deliveries) /\ Waits(m)
    /\ announcing' = announcing \ {m}
    /\ pending' = [pending EXCEPT ![t] = @ \cup {m}]
    /\ quiet' = [quiet EXCEPT ![t] = 0]
    /\ age' = IF pending[t] = {} THEN [age EXCEPT ![t] = 0] ELSE age
    /\ UNCHANGED <<Inbox, deliveries, txn, calls, crashes>>

\* What notify() announces with m: the ids that wait, together with m or after it.
BatchesFor(m) ==
    LET t == TaskOf[m] IN
    IF t = NoTask \/ pending[t] = {} THEN <<[ids |-> {m}, task |-> NoTask]>>
    ELSE IF Cardinality(pending[t]) < MaxPending THEN <<[ids |-> {m} \cup pending[t], task |-> t]>>
    ELSE <<[ids |-> {m}, task |-> NoTask], [ids |-> pending[t], task |-> t]>>

NotifyNow(m) ==
    /\ txn = Idle /\ m \in announcing
    /\ active /\ Announceable(m, deliveries) /\ ~Waits(m)
    /\ announcing' = announcing \ {m}
    /\ Open(BatchesFor(m))
    /\ UNCHANGED <<Inbox, Registry, Timers, calls, crashes>>

NotifyNot(m) ==
    /\ txn = Idle /\ m \in announcing
    /\ ~(active /\ Announceable(m, deliveries))
    /\ announcing' = announcing \ {m}
    /\ UNCHANGED <<Inbox, Registry, Timers, txn, calls, crashes>>

\* Mutant: a batch is flushed only after the window, which no timer exceeds.
DueAfterWindow(t) == pending[t] # {} /\ age[t] > Window

\* pending_due: a quiet second after the last id, at most five after the first.
Due(t) == pending[t] # {} /\ (quiet[t] >= Debounce \/ age[t] >= Window)

Flush ==
    /\ txn = Idle
    /\ \E t \in Tasks : Due(t)
    /\ \E order \in SetToSeqs({t \in Tasks : Due(t)}) :
          Open([i \in DOMAIN order |-> [ids |-> pending[order[i]], task |-> order[i]]])
    /\ UNCHANGED <<Inbox, announcing, Registry, Timers, calls, crashes>>

\* Mutant: every list is emptied before the first batch is announced.
ConsumedAll(batch) == [t \in Tasks |-> {}]

\* A list is emptied when its batch is announced.
Consumed(batch) ==
    IF batch.task = NoTask THEN txn.pending ELSE [txn.pending EXCEPT ![batch.task] = {}]

Remember(d, ids) ==
    LET all == Append(d, ids)
    IN  IF Len(all) <= MaxDeliveries THEN all ELSE Tail(all)

\* Nothing of the next batch can be announced.
SkipBatch ==
    /\ txn # Idle /\ txn.calling = {} /\ txn.todo # <<>>
    /\ LET batch == Head(txn.todo) IN
       /\ {} \in Selections(batch.ids, txn.deliveries)
       /\ txn' = [txn EXCEPT !.pending = Consumed(batch), !.todo = Tail(@)]
    /\ UNCHANGED <<Inbox, announcing, Registry, Timers, calls, crashes>>

\* Mutant: the registry is written only after the host was called.
PersistLater ==
    /\ txn # Idle /\ txn.calling = {} /\ txn.todo # <<>>
    /\ LET batch == Head(txn.todo) IN
       \E ids \in Selections(batch.ids, txn.deliveries) :
           /\ ids # {}
           /\ txn' = [pending |-> Consumed(batch), deliveries |-> Remember(txn.deliveries, ids),
                      todo |-> Tail(txn.todo), calling |-> ids]
    /\ UNCHANGED <<Inbox, announcing, Registry, Timers, calls, crashes>>

\* The next batch is recorded as an attempt and the registry is written, before the
\* host call whose outcome may be unknown.
Persist ==
    /\ txn # Idle /\ txn.calling = {} /\ txn.todo # <<>>
    /\ LET batch == Head(txn.todo) IN
       \E ids \in Selections(batch.ids, txn.deliveries) :
           /\ ids # {}
           /\ txn' = [pending |-> Consumed(batch), deliveries |-> Remember(txn.deliveries, ids),
                      todo |-> Tail(txn.todo), calling |-> ids]
           /\ pending' = Consumed(batch)
           /\ deliveries' = Remember(txn.deliveries, ids)
    /\ UNCHANGED <<Inbox, announcing, Timers, calls, crashes>>

\* The host call: the prompt is queued, or the call fails.
HostCall(succeeds) ==
    /\ txn # Idle /\ txn.calling # {}
    /\ calls' = IF succeeds
                THEN [m \in Messages |-> IF m \in txn.calling THEN calls[m] + 1 ELSE calls[m]]
                ELSE calls
    /\ txn' = [txn EXCEPT !.calling = {}]
    /\ UNCHANGED <<Inbox, announcing, Registry, Timers, crashes>>

\* The end of the registry block.
Close ==
    /\ txn # Idle /\ txn.calling = {} /\ txn.todo = <<>>
    /\ pending' = txn.pending /\ deliveries' = txn.deliveries
    /\ txn' = Idle
    /\ UNCHANGED <<Inbox, announcing, Timers, calls, crashes>>

\* The worker stops: what it had in memory is lost, the lock is released.
Crash ==
    /\ crashes < MaxCrashes
    /\ crashes' = crashes + 1
    /\ announcing' = {} /\ txn' = Idle
    /\ UNCHANGED <<Inbox, Registry, Timers, calls>>

Next ==
    \/ \E m \in Messages, b \in BOOLEAN : CommitReport(m, b) \/ CommitInstruction(m, b)
    \/ \E t \in Tasks, b \in BOOLEAN : InvalidateLocally(t, b)
    \/ \E m \in Messages : ReadMessage(m) \/ NotifyLater(m) \/ NotifyNow(m) \/ NotifyNot(m)
    \/ \E b \in BOOLEAN : SetDelivery(b) \/ HostCall(b)
    \/ EndSession \/ Tick \/ Flush \/ SkipBatch \/ Persist \/ Close \/ Crash

Spec == Init /\ [][Next]_vars

\* The refresher flushes in every pass, a transaction runs to its end, and time passes.
FairSpec ==
    /\ Spec
    /\ WF_vars(Tick) /\ WF_vars(Flush) /\ WF_vars(SkipBatch \/ Persist \/ Close)
    /\ WF_vars(\E b \in BOOLEAN : HostCall(b))

-----------------------------------------------------------------------------
(* Properties.                                                              *)

\* "An unknown/crashed enqueue is not automatically retried" (COORDINATION.md): no
\* message is named in two prompts, whatever crashes, coalesces or overflows, and
\* although only the last attempts are remembered.
AnnouncedOnce == \A m \in Messages : calls[m] <= 1

\* "Do not drop IDs": an id leaves the pending list only with an attempt on record, or
\* when it may not be announced at that time. Nothing is lost at the limit of a batch,
\* or when the worker stops between two batches of one transaction.
PendingIsKept ==
    [][\A t \in Tasks : \A m \in pending[t] \ pending'[t] :
          \/ m \in Attempted(deliveries')
          \/ ~Announceable(m, deliveries) \/ ~Announceable(m, deliveries)'
          \/ ~armed]_vars

\* A prompt names only messages that are unread and applicable when the host is
\* called, also those that waited for their batch.
PromptsAreCurrent ==
    [][\A m \in Messages : calls'[m] > calls[m] => active /\ m \in unread /\ Applicable(m)]_vars

\* A routine notification that waits is flushed, announced with an urgent one, or
\* made obsolete: it does not wait for ever, although the worker crashes.
PendingIsFlushed == \A t \in Tasks : pending[t] # {} ~> pending[t] = {}

=============================================================================
