# Verification of antigravity-intercom

TLA+ models, TLC runs and TLAPS proofs about the private-session broker in
`src/.agents/skills/antigravity-intercom/` (paths below are relative to that
directory). The modules are translated from the Python source; `PROJECT.json`
names, for every definition, the lines it stands for.

## 1. The system

AI chats on different machines exchange messages over public Nostr relays. On
each host one broker process supervises one worker process per endpoint. A worker
runs the tools that its chat calls and a listener that handles relay events. All
durable state of a worker is in JSON files, guarded by one file lock:
`registry()` (`connections.py`) opens the registry, drops what has expired, runs
a body and writes the file, or writes nothing if the body raises. Relays may
lose, repeat, reorder and replay events.

| Component | State | Operations | Hard behaviour | What makes it correct |
|---|---|---|---|---|
| Private sessions (`connections.py`) | registry topics: invitations, sessions, their keys and counters | `generate`, `connect`, `pending_requests`, `accept_control`, `revoke`, purge at every open | snapshots used after the lock is released, retries, lost and repeated events, revocation and expiry with events in flight, crashes | one acceptance per request, same keys at both ends, no session without its invitation, bounded retries, every attempt resolves |
| Message delivery and inbox (`connections.py`, `nostr_relay.py`, `runtime_adapter.py`) | sequence numbers, replay window, `seen_messages.json`, inbox files | `send`, `accept_control`, `claim_message_fingerprint`, `commit_message`, `read`, `delete`, purge | one event goes through several transactions; the session may end in between; crashes half way; quota retention | no replay, nothing stored twice, nothing after the end, quota, unread messages kept |
| Task coordination (`coordination.py`) | one task record per endpoint | `configure`, `send`, `commit_message`, `accept_task`, `task_control` | two records that change by messages which are lost or reordered, local pauses, reports that overwrite earlier ones | agreement on the instruction, nothing obsolete becomes current, pauses hold, evidence is mutual |
| Notifications (`connections.py`, `coordination.py`) | deliveries of a session, pending list of a task | `notify`, `flush_notifications`, `schedule` | consumption persisted before a host call of unknown outcome, coalescing at its limit, messages that become obsolete while they wait | at most one prompt per message, no pending id dropped, nothing obsolete announced, every batch flushed |
| Broker and workers (`broker.py`, `broker_worker.py`, `broker_rpc.py`) | endpoint table, workers, request ids seen | `dispatch`, `worker`, `call`, `recover_workers`, `close` | RPC threads, the recovery loop and shutdown; time-outs with a late answer | no request executed twice, no answer given to another caller, no worker outlives the broker, a lost worker is restarted |
| Local RPC (`broker_rpc.py`, `broker.py`) | instance, request ids seen, `running.json` | `request`, `RpcHandler.handle`, the checks of `dispatch` | frames late or twice, a broker that restarts, the wait for its lock between two checks | a request is let through once unless that wait is long, a result is true |
| Relay health (`relay_health.py`) | health file: limits, strikes, cooldown; monotonic deadlines of each process | `discover`, `observe`, `eligible`, `snapshot` | unlock, fetch, lock; two clocks, one of which is set | limits are recent, cooldowns are kept and end |
| Subscriptions (`nostr_relay.py`, `connections._subscribe`) | `ACTIVE_LISTENER_TOPICS`, the one relay subscription | start of the listener, refresher, `_subscribe` | a shared variable read before an await and written after it, by two coroutines; relays that fail separately | a topic is subscribed before its control message, and for good |
| Publication (`nostr_relay.py`, `connections.send`) | relay answers, publication history of a session | `send`, `_async_publish_raw` | time-outs and exceptions while events are on their way, overlapping calls, crashes | the result and the history say nothing false of the relays |
| State files (`connections.registry`, `runtime_adapter.py`) | JSON documents, lock file, process lock | `registry`, `registry_lock`, `atomic_write_json` | threads and processes, nesting, exceptions, death between two steps | isolation, no lost update, no deadlock |
| Inbox files (`runtime_adapter.py`) | envelopes, attachments, transaction directories | `write_message_envelope`, `delete_inbox_message`, `purge_inactive_connection_messages` | several renames and unlinks per operation, each of which may fail or be the last before a kill | stored messages are lost by no failure, all or nothing, envelope and attachment together |
| Single instance (`nostr_listener.py`) | PID file | `ensure_single_instance`, `_cleanup_pid_file` | create, then write; check, then unlink, by two processes | at most one listener (section 4) |
| Cryptography, policies, attachment transport, MCP front end, registration, legacy pairings, logging | - | - | - | not modelled, see section 7 |

Interaction: the handshake creates the session that delivery runs over; delivery
hands a task message to `coordination.apply` in the transaction that stores it;
a stored message is announced by a notification; all of it runs in a worker, and
`revoke` or expiry in the first component purges the state of the others.

The hazards - what is hard to test here - are listed in `PROJECT.json` with the
line where each bites and the properties that cover it.

## 2. Modules

| Module | What it is |
|---|---|
| `PrivateSession` | the handshake between one service and any number of clients |
| `SessionContract` | abstract specification of one connection id |
| `MessageDelivery` | one direction of an active session, from `send` to the inbox |
| `TaskCoordination` | one task, the records of both endpoints and the messages between them |
| `Notifications` | from the committed message to the prompt in the host chat |
| `BrokerWorkers` | the broker's threads, its locks and the worker processes |
| `Subscriptions` | the coroutines of a listener, the SDK's subscription calls and the relays |
| `Publication` | one `send` from its record to its result, with the relays' answers |
| `RelayHealth` | the health file, two clocks and the processes that read it |
| `StateFiles` | transactions on the state files, with their locks |
| `AtomicStore` | abstract specification of the state files, which the other modules assume |
| `InboxFiles` | the file operations behind `WriteEnvelope`, `DeleteMessage` and the purge of `MessageDelivery` |
| `BrokerRpc` | frames of requests to the broker, its checks, its restarts |
| `SingleInstance` | the PID file, call by call |
| `MC_*` | symmetry sets, role and ownership assignments for TLC |
| `*_proof` | theorems about the module of that name |
| `StateFiles_proof` | theorems about `StateFiles` and `InboxFiles`, which have no name in common |
| `Relays_proof` | theorems about `Publication`, `RelayHealth` and `Subscriptions` |
| `RelaySet` | the constant `Relays` of these three, which have no other name in common |

How they compose. `StateFiles` implements `AtomicStore`: this is why the modules above
the files may treat one `registry()` block as one action. `InboxFiles` opens the
one action of `MessageDelivery` that is not atomic on disk. `Publication` opens
`Publish` of `MessageDelivery`, `BrokerRpc` the arrival of a request in
`BrokerWorkers`, `SingleInstance` the test in `StartUp` of `BrokerWorkers`, whose result is
free there.
`Subscriptions` takes the life of a session from `PrivateSession`. The
modules are checked separately; only the two refinements (`SessionContract`,
`AtomicStore`) are stated in TLA+.

Mutants: an operator preceded by a comment "Mutant" is a plausible defect of the
definition that follows it; no specification uses it. `PROJECT.json` says which
property each one breaks.

### PrivateSession

State: `invitation` and `grant` are the service's registry (`grant[c]` is the
key of the session of connection id `c`), `session`, `clientKey`, `attempts` and
`request` the clients'. `outbox` and `replies` are what `pending_requests` and
`accept_control` hold between their transaction and the publication; a crash
empties them. `requests` and `acceptances` are what a relay has seen; nothing
leaves these sets, so an event can be delivered never, late, twice and in any
order. `past` are the deadlines that a host's own clock has passed; clocks do not
agree. `published`, `issued` and `severed` are history.

| Action | Code |
|---|---|
| `Generate`, `Connect` | `generate`, `connect` |
| `RevokeInvitation`, `RevokeServiceSession`, `RevokeClientSession` | the three cases of `revoke` |
| `Subscribe` | a listener that starts, and the first half of a refresher's round: `subscribe_topics` (`nostr_relay.py`), without which no pass is reached (`subscribed`) |
| `RequestPass`, `PublishRequest` | the locked and the unlocked half of `pending_requests` |
| `GrantSession`, `ResendAcceptance`, `PublishReply` | the invitation branch of `accept_control` and the publication after it |
| `AcceptAcceptance` | the connecting branch of `accept_control` |
| `Maintain` | a `registry()` block that only purges |
| `Crash`, `Tick` | a worker that stops; a deadline that passes |

Every action that writes a registry writes the purge of that registry as well
(`InvitationsAtOpen`, `GrantsAtOpen`, `SessionsAtOpen`).

`SessionContract` has four variables for one connection id: the keys offered, the
two ends, the key the client joined with. `EveryConnectionKeepsContract` states
that every connection id implements it under the mapping at the end of
`PrivateSession`.

### MessageDelivery

State: the sender's `sendSequence`; `sending`, payloads signed and not yet handed
to a relay; `wire`; the receiver's `highest` and `seen` (`receive_highest`,
`receive_seen`); `handling`, the event in the notification handler and the
transactions it has passed; `claimed` (`seen_messages.json`); the inbox `unread`
and `read`. `accepted` and `stored` are history. An event is a sequence and a
ciphertext, because a holder of the session key can encrypt a signed payload
again with another nonce.

| Action | Code |
|---|---|
| `Reserve`, `Publish`, `CrashSender` | `send` before and after its first transaction |
| `Accept` | the active branch of `accept_control` |
| `Claim` | `claim_message_fingerprint` |
| `CommitMessage` (`Room`, `WriteEnvelope`) | `commit_message` with `write_message_envelope` |
| `DropMessage` | every early return and exception of the handler after `accept_control` |
| `CrashReceiver` | a crash in the handler, also in the middle of retention |
| `ReadMessage`, `DeleteMessage` | `read` and `delete` |
| `EndSession`, `EndSessionInterrupted` | revocation or expiry with its purge, complete or interrupted |

### TaskCoordination

State: `record[e]`, the task record of endpoint `e`; `sent`, the messages that
were reserved by `send` (whether or not they reach a relay); `handled`, those
that went through the receiver's pipeline; `evidence`, the history of reports
of implementation for the instruction on record. `Current` is `applicability` =
"current"; `Advances`, `Supersedes`, `Contradicts` and `Reported` are the four
effects of `apply`, and every other result of it changes nothing.

| Action | Code |
|---|---|
| `Configure` | `configure` |
| `SendInstruction`, `SendControl`, `SendReport` (`Post`) | the first transaction of `send` with a task |
| `AcceptTask`, `TaskControl` | `accept_task`, `task_control` |
| `Receive` | the task part of `commit_message` |

### Notifications

State: of a session, `active`, the registration `armed` and the attempts it
remembers (`deliveries`); of each task, the ids that wait (`pending`), with the
timers `quiet` and `age` of its batch, and the pair `epoch`, `working` that stands
for the task record of `TaskCoordination`; `stamp[m]`, the epoch in which message
`m` was current. `pending` and `deliveries` are the registry as written, `txn` the
copy in the hands of the transaction that is open, with the batches it still has
to announce: `_notify_locked` writes the registry in the middle of a
transaction, before it calls the host, and a crash leaves what was written.
`announcing` are messages between `commit_message` and `notify`; `calls` is
history.

| Action | Code |
|---|---|
| `CommitReport`, `CommitInstruction` | `commit_message`, as far as a notification depends on it |
| `InvalidateLocally` | `task_control`, and `send` of an instruction, a pause or a resume |
| `ReadMessage`, `SetDelivery`, `EndSession` | `read` and `delete`; `register_delivery` and its inverse; the purge |
| `NotifyLater`, `NotifyNow`, `NotifyNot` | `notify`: the id waits (`schedule`), starts a batch, or is not announced |
| `Flush` | the start of `flush_notifications` |
| `SkipBatch`, `Persist`, `HostCall`, `Close` | `_notify_locked` for one batch, up to its write, the call after it, and the end of the transaction |
| `Tick`, `Crash` | the clock of a batch; a worker that stops |

### BrokerWorkers

State: the broker's `phase`, its endpoint table (`saved` is `endpoints.json`,
`slot` the worker of each endpoint, `backoff` those that wait for
`next_restart`) and its `lock`. The lock is a variable because it is held across
the start of a process, which takes up to 15 s; what the code does under it at
once is one action. Of each process: whether it runs, whether the broker holds its
standard input open, the commands in its pipe (several only when nothing is heard of it any
more), the one it executes, the queue that the reader thread fills, and whether that thread
has ended (`unheard`). The lock of a worker is held by the request in
`writing`, `calling` or `stopping` (`Busy`). `pc` is the position of the RPC thread of a
request; in `writing` its command is in the buffer of the pipe and not yet in the pipe.
`ran`, `answer` and `flushed` are history. `StartUp` lets a worker listen or ends it, as
`ensure_single_instance` may find anything in the PID file: nothing here rests on its being
exclusive.

| Action | Code |
|---|---|
| `StartUp`, `Execute`, `Reply`, `Exit`, `CrashWorker` | `broker_worker.main`, its orphan guard, and the death of the process |
| `Garble` | the end of `read_replies` at a line that it cannot use, while the worker lives on |
| `FindWorker`, `Recover` (`Launch`, `LaunchFails`) | `Broker.worker` for an RPC thread and for the main thread |
| `StartSucceeds`, `StartFails`, `StartGivenUp` (`Resume`) | the rest of `Worker.__init__` and of `Broker.worker` |
| `Refuse`, `LookUp`, `GiveWay` | the refusals of `dispatch`; `status` before and at the call |
| `Enter`, `Flush`, `Receive`, `TimeOut`, `StopReturns` | `Worker.call`: write, flush, answer, and the `stop` in it |
| `Start`, `Restored`, `Scan`, `Elapse`, `StopBroker` | `run`, `restore`, `recover_workers` and its back-off, the stop request |
| `BeginClose`, `CloseWorker`, `Closed`, `CrashBroker` | `close`, whose `stop` takes no lock of a worker and flushes what is in the buffer of its pipe; the end of `run`, and a broker that dies |

### Subscriptions

State: `topics` of the registry, among them those of a client that is `connecting`
and those that a service `granted`; `listening` is `ACTIVE_LISTENER_TOPICS`; `at[r]` is the
subscription at relay `r`; `call` and `order` are the SDK calls under way. A coroutine is
the listener's start (`Main`), the `Refresher` or the event `Handler`.

| Action | Code |
|---|---|
| `AddTopic`, `RemoveTopic` | `generate` and `connect`; `revoke` and the purge |
| `Start`, `Started`, `Die` | the first subscription of `_run_listener_loop`, its end, a new listener thread (`broker_worker.py`) |
| `Pass`, `Refreshed` | the comparison and the `subscribe_topics` of `_topic_refresher` |
| `Request` (`Subscribe`), `Grant` | `_subscribe` in `pending_requests` and in `accept_control` |
| `Subscribed`, `Finish` | the code after its await, the publication that follows |
| `TakeEffect` | external: the SDK |

### Publication

State: `publications`, the history of the session; for each message the `step` of its
call, the relays `chosen`, their `answer` and the `result`; the events `flying` and those
a relay `has`. `lost` is history.

| Action | Code |
|---|---|
| `Begin`, `Return` | the two registry transactions of `send` |
| `Select`, `Send`, `Collect`, `Classify` (`Verdict`) | `_async_publish` and `_async_publish_raw` |
| `NotSent`, `Fail`, `SdkRaises`, `TimeOut` | its exceptions and the limit of 20 s |
| `Arrive`, `GiveUpOn` | external: relays and the SDK's time-out for one of them |
| `Revoke`, `Crash` | the end of the session; of the process |

### RelayHealth

State: the monotonic clock `now` and the `skew` of the wall clock; the entries `known` and
`health` of the file; the `deadlines` of each process; of each `thread` the discovery or
selection it is in. The fields `said`, `refused` and `wait` of an entry are history.

| Action | Code |
|---|---|
| `Discover`, `Answer`, `Store` | `discover` before, at and after the fetch |
| `Observe` (`Accepted`, `Refused`, `Wait`) | `observe` |
| `Look` (`Deadline`) | `remaining` with its caller `eligible` or `snapshot` |
| `Forget` | a process that starts again, or `_deadlines.clear()` |
| `End`, `Tick`, `SetClock` | a publication that is over; the clocks |

### StateFiles and AtomicStore

State: `disk`, for each document the updates it contains; the holders of the lock file
and of `PAIRINGS_LOCK`; the `open` transactions of each thread with what they loaded.

| Action | Code |
|---|---|
| `Begin`, `Enter`, `Lock`, `LockFails`, `Leave` | `registry`, `registry_lock` and their exits |
| `Nest` | a transaction of another file inside one of the registry |
| `WriteTemporary`, `Replace` | `atomic_write_json` |
| `Checkpoint` | the write of `_notify_locked` in the middle of a transaction |
| `ReadOnly`, `Raise`, `Die` | a body that changes nothing or raises; the death of a process |

A value of `AtomicStore` is `disk`; every write is one `Commit`.

### InboxFiles

State: the `place` of each file, `readOrder`, the sessions that `ended`, the operation
under the lock (its `phase`, the `message`, the files `todo` and `moved`, the session that
`ends`). The rest is history. The files of an operation are a set, and their order that of
`Earlier`: read messages from the oldest, each attachment before its envelope.

| Action | Code |
|---|---|
| `BeginWrite`, `Move`, `PutNew`, `CleanUp` | `write_message_envelope`: quota and retention, moves, clean-up |
| `Fail`, `Undo`, `Undone` | its exception handler, file by file |
| `ReadMessage`, `DeleteMessage`, `Purge` | `read_inbox_message`; `delete_inbox_message`; `purge_inactive_connection_messages` |
| `Unlink`, `Deleted`, `DeleteFails`, `Crash` | `_delete_message_files_locked`, the end of it, a failing unlink, a kill |

### BrokerRpc

State: the clock, the broker's `instance` and what `running.json` says (`announced`);
the `frame` of each request; what each server thread is `serving`; `seen`, the ids
remembered; the client's `outcome`. `ran` and `again` are history.

| Action | Code |
|---|---|
| `Send`, `GiveUp` | `request` |
| `Receive`, `Drop` | `RpcHandler.handle`, on the client's connection or another one with the same frame |
| `Check`, `Admit` | the checks of `dispatch` before and under the lock |
| `Start`, `Down`, `Tick` | `run` and `close`; the clock |

### SingleInstance

State: the `step` of the process with each PID, its attempts and what it `read`; the `file`
with its creator and whether the PID is `written` to it. The actions `Create` to `Unlink`
are the calls of `ensure_single_instance` in their order, `Close`, `ReadOwn` and `Remove`
those of `_cleanup_pid_file`; `Crash` and `Foreign` free and reuse PIDs.

## 3. Runs

One run per module, each with all its properties; the numbers are distinct states.

| Run | Instance | Checks |
|---|---|---|
| `sessions` (593 000) | one client, an expiring and a permanent invitation, one connection id, two keys, two attempts, fairness | no session without its invitation; one acceptance; refinement of `SessionContract`; every attempt resolves while relays take subscriptions |
| `delivery` (520 000) | window 2, sequences to 4, two ciphertexts, ledger 2, quota 2 | replay, nothing after the end, storage once, unread messages |
| `tasks` (1 820 000) | the client coordinates and reviews, the service works; two revisions, two generations, one item, four messages; the service accepts remote control, the client only reports | agreement, freshness, mutual evidence, verified work was done, obsolescence, pauses |
| `notify` (1 090 000) | two coalescing tasks with two and one routine messages, an urgent one; two pending ids, one attempt remembered, one crash, fairness | one prompt per message; no pending id lost; prompts are current; every batch is flushed |
| `broker` (376 000) | two endpoints of which one can be saved, three processes, two calls and a status request, one crash or unusable line, two starts of the broker, fairness | execution as told; own answers; supervision; every request ends; a lost worker is restarted |
| `subscriptions` (42 000) | two topics, two relays, one listener that ends, fairness | a topic is subscribed before its control message; active topics are covered for good |
| `publication` (47 000) | two messages, two relays, a history of one record, one crash | the result is true; the history is true and complete |
| `relay_health` (4 900 000) | one relay, one process, two threads, two categories of refusal, two answers, a clock set back and forth (`Drift` 1) | limits are recent; waits are kept; cooldowns end |
| `state_files` (13 000) | three threads of two processes, two documents, two updates, one death, fairness | isolation; refinement of `AtomicStore`; transactions end |
| `broker_rpc` (1 218 000) | two requests, two server threads, a memory of one request, window 2, retention 4, time to 6, two instances | a request runs again only after a long wait for the broker lock; the client's outcome is true |
| `inbox_files` (902 000) | three messages of two sessions, two with attachments, room for two | nothing stored is lost; files are together; all or nothing |
| `listener_overlap` | three PIDs, two attempts; a violation is expected | the sentence of SETUP.md of section 4 |

Why the bounds are enough. In `sessions`, the second key allows a regrant, and a second
attempt a crash between two publications; the permanent invitation has no expiry by which
an attempt could resolve; the expiry of the request itself remains possible. One connection
id suffices for the properties of one handshake; two ids share only the capacity of a
registry, whose effect (a refused request) is also that of a lost one. In
`delivery`, four sequences slide a window of two past an accepted sequence, and the
ledger and the inbox overflow. In `tasks`, two revisions and two generations are what an
obsolete message, a lost revision and a pause followed by a resume need; four messages are an
instruction, its acceptance, a report and its verification, or an instruction with
two that overtake each other. In `notify`, two routine messages and an urgent
one meet a list of two, with one attempt remembered every second prompt forgets an
earlier one, and a crash can fall between the two batches of a transaction. In
`broker`, the call and the status request meet at one worker while the other call finds
the table full; three processes let a worker be replaced twice, by the broker that lost it
or by the next one while the old process lives on. In `subscriptions`, two topics make two
overlapping calls differ, and two relays let one call be taken by either. In
`publication`, the second call drops the record of the first. In `relay_health`, the
second answer falls into the cooldown of the first, capped by `MaxCooldown`, and time
suffices for both to end; with one relay the file is never full, so `NoRoom` is not
exercised (a relay that is not in the file has neither limits nor a cooldown to check). In
`state_files`, one thread contends in the process and one from outside. In `broker_rpc`, time runs
past `Retention`, so a request is forgotten while its frame is still about, and suffices for
a replay: checked at 3, when the request ran at 1, and admitted at 5. In `inbox_files`,
the third message needs room.

`CHECK_DEADLOCK FALSE` everywhere: bounded counters run out, and a system whose sessions
were all revoked stops. Symmetry is used for values that occur only in equality tests
(ciphertexts, messages of one kind, relays, threads, requests), in runs without
liveness.

Fairness (`FairSpec`). In `PrivateSession` the code's own part is `RefresherRuns`. The
refresher task loops for ever, opens the registry every two seconds and catches every
exception, so `Maintain` is weakly fair. A publication returns or times out after 20 s:
`PublishRequest` is weakly fair. A pass over a given entry is due again 15 s after the last;
`PassOver(c)` is strongly fair, but it is enabled only between a `Subscribe` and the pass that
follows it. `subscribe_topics` raises when no relay takes the subscription
(`nostr_relay.py` 1401-1402), before `pending_requests` is reached, and a listener whose first
subscription fails ends before it has a refresher (1430-1431). `RelaysTakeSubscriptions`,
strong fairness of `Subscribe`, is therefore an assumption about relays and not about the
code, and `HandshakeResolves` rests on it: while no relay takes a subscription, no attempt is
counted, and a request for a permanent invitation stays "connecting"; without the assumption
TLC finds just that. Nothing is assumed of deliveries, clocks or users.

In `Notifications` the refresher's pass reaches `flush_notifications` and a
transaction runs to its end, whatever the host call answers. COORDINATION.md states
the first as a condition (normal maintenance): the refresher catches every
exception, and a pass that fails earlier does not flush. The
clock advances. Crashes are bounded, otherwise they could prevent every flush.

In `BrokerWorkers` the threads and processes run on: each wait of the code on a
queue has a time-out, `stop` ends with a kill, and each lock is released by its
holder. Waiting for a lock needs no more than weak fairness here, because
finitely many requests compete. Starting a process may fail each time; only
that repeated attempts succeed in the end is assumed (strong fairness of `Recover`
with a process). No fairness is given to requests, to an answer in time, or to a
worker's execution of a command: a worker may hang for ever.

In `Subscriptions` the coroutines run on, since every await ends or times out, and the
worker starts a listener again that has ended (`broker_worker.py`). That a relay takes a
subscription at last, of each coroutine that asks again and again, is an assumption about
relays, not about the code: without it no topic is ever covered.

In `StateFiles` threads run on. `Enter` and `Lock` are strongly fair: neither
`threading.RLock` nor the lock file promises an order, but a lock that becomes free again and
again is granted to a waiting thread at last. `LockFails` is possible (Windows' `LK_LOCK`) and
has no fairness: `flock` waits for ever (`runtime_adapter.py` 285), so `TransactionsEnd` rests
on every holder's release alone. Strong fairness of `Finish` says that bodies end: a body does
not nest or write for ever.

What the modules assume of their surroundings. SDK: subscription calls take effect in the
order they are made and return in any order; an event is sent once to each relay; a fetch
ends within its time-out. Operating system: a lock file is released with its process,
`os.replace` is atomic, the processes of one host read one clock. `BrokerRpc`: the clock
is not set back; nothing is assumed of the wait for the broker lock.

## 4. Where the code departs from its documents

Shown by a run:

- `listener_overlap`: SETUP.md:62-63, "Broker workers refuse an endpoint already owned by
  a live legacy listener." `ensure_single_instance` creates the PID file and writes its
  PID in two calls (`nostr_listener.py` 39, 64), and takes an empty file for stale. A worker
  that reads between them unlinks the file (52) and becomes a second listener. Two starts
  that find the same old file end in the same way.

Met while modelling, and reflected in the properties, without a run of their own:

- CONNECTIONS.md:56-57, "A repeated identical request resends the original acceptance
  without replacing the peer, keys, policy or destination." The service may revoke one
  session but not its invitation (`connections.py` 362-368); a later copy of the request is
  then answered with a new key (435-454), and the client may be active with the first. For
  this reason `OneAcceptance` and `EndpointsAgree` exclude a connection id whose session
  alone the service revoked (`severed`).
- COORDINATION.md:91-92, "an actor cannot independently verify the same items it
  implemented." The check reads the last implementation report of the actor
  (`coordination.py` 210-222), and a later report replaces the earlier one: a participant that
  is also a reviewer can report an item, then report other work, and verify the first.
  `VerifiedWorkWasDone` therefore says that the peer reported the items, and nothing about the
  verifier.
- README.md:32, "replay rejection" of the broker's requests. `dispatch` checks the time of a
  request (`broker.py` 213), waits for the broker lock and then looks whether the id is
  remembered (217-221). The wait has no limit, and one hold may take about 33 s: a dead worker
  is stopped, a start waits 15 s and is stopped (86, 117-125, 153-182). A copy of a frame that
  passes the check at an age of nearly 30 s finds its id forgotten if it waits 30 s more, and
  runs again. `ReplayNeedsWait` says that this is the only way.
- `close` stops workers without their locks (`broker.py` 264-265). Between the write and the
  flush of a call (98, 99) its `stdin.close()` (114) sends the command to the worker, which may
  execute it before it exits, while the flush raises `ValueError`, which `call` does not catch
  (101): the caller is told "Broker rejected request" (313). `ExecutedAsTold` allows an executed
  request to be refused in this case only (`flushed`).
- A kill between the move of an attachment and that of its envelope (`runtime_adapter.py`
  744-745) leaves an attachment that no listing finds. `FilesAreTogether` excludes
  messages whose storing was `cut`.

## 5. Proofs

TLAPS proves the following for every value of the constants that satisfies the
named assumptions of the modules (`ConstantsAssumption`, `DeliveryAssumption`,
`TaskAssumption`, `NotificationsAssumption`, `StateFilesAssumption`,
`BrokerRpcAssumption`, `PublicationAssumption`, `BrokerAssumption`, `RelayHealthAssumption`,
`SubscriptionsAssumption`, `InboxFilesAssumption`).

`PrivateSession_proof`: type correctness; `SessionNeedsInvitation`,
`OneAcceptance`, `EndpointsAgree`, `BoundedRetries`, `FailedIsFinal` and
`EveryConnectionKeepsContract`. None of the safety properties is inductive. The
invariant `IInv` says in addition that whatever a grant, a reply, the wire or an
active client holds was issued, and that an acceptance outlives the session it
was issued for only if that session alone was revoked or the invitation is closed
for good (`GrantOutlivesOnlyItsInvitation`): a closed invitation never opens
again, so no request can be granted a second time. `AttemptReserved` says that a
snapshot in flight holds one attempt that is not yet published. The refinement is
proved action by action: a step that touches the service's end, one that touches
the client's end, or a stutter.

`MessageDelivery_proof`: type correctness; `AcceptedOnce`, `WindowExact`,
`NeverStoredAgain`, `NothingAfterEnd`, `WithinQuota` and `PipelineKeepsUnread`.
The strengthening `HistoryAgrees` ties the history of acceptances and storage to
the window and to the handler: what was stored was accepted before, what is in the
handler's hands was accepted and is not stored yet. With it the exact window
implies that a sequence older than the window is refused and a younger one is in
`seen`. The quota is an induction over the steps with the library's facts on the
cardinality of finite sets.

`TaskCoordination_proof`: type correctness; `Agreement`, `ShownIsRecorded`,
`FactsAreFresh`, `OutdatedStaysOutdated`, `PauseHolds`, `MutualEvidence` and
`VerifiedWorkWasDone`, for every assignment of roles that `configure` accepts. What `apply` may do to one record is stated in
lemmas about a single record (`ApplyEffect` and its parts), what a step may do to
one record in `RecordStep`; the rest uses only those. `TaskInv` adds three facts to
the types: an instruction's sender has reserved its revision and reuses none
(`RevisionsReserved`), a record holds an instruction of its author at its own
revision and is never in conflict (`RecordsFollowAuthor`), and its facts are about
that instruction (`FactsOfInstruction`). `Agreement` alone is not inductive: it says
nothing of an instruction that is still on the wire.

`EvidenceInv` relates the two records: a sender knows its own message (`SenderHas`), which is
saved before it is published, and so has every report it sent on its own record, as long as it
follows that instruction (`ReportsRecorded`); what a record says of the peer rests on a report
that the peer sent (`PeerReport`, `PeerReported`); an applied item is in the evidence
(`EvidenceKept`). `EvidenceAgrees` and `VerificationRestsOnWork` follow, and hold for messages
lost, repeated and overtaken, because an endpoint that left an instruction never takes it up
again (`InstructionStays`).

`Notifications_proof`: type correctness, of which the limit of the pending lists is
part; `AnnouncedOnce`, `PendingIsKept` and `PromptsAreCurrent`, for any number of
remembered attempts, any limit of a prompt and crashes anywhere. The attempts on
record do not suffice for `AnnouncedOnce`, since they are forgotten. The invariant
`NInv` says instead that a message that did not arrive, is in the handler or is
pending was named in no prompt, and is in one of these places (`Placed`); that the
open transaction works on the registry as written except for batches that it found
nothing to announce in, that its batches are disjoint, within the limit of a prompt
and of messages that were never named, and that a message in the host call is
unread and applicable (`Opened`); that no message was current in a later epoch and
that an ended session has nothing pending (`Settled`).

`StateFiles_proof`: type correctness; `LoadedIsCurrent`, and the refinement
`IsAtomicStore`. `LoadedIsCurrent` is inductive only together with three facts: open
transactions belong to the thread that holds the lock file (`Exclusive`), the inner of two
is of another document than the registry around it (`Nesting`, without which the inner
write would make the outer one stale), and the updates on disk were counted (`Counted`).
A write then adds one new update to what is on disk, which is a commit of `AtomicStore`;
every other step, deaths included, leaves the disk alone.

`StateFiles_proof`, about `InboxFiles`: `AllOrNothing`, `NothingLost` and `FilesAreTogether`,
for any messages, sessions and limit, and failures or a kill at any file. `FilesInv` adds what
each file on its way stands for. A message is stored once, and no file on disk belongs to one
that was never begun (`NewMessage`). What makes room are whole messages that were read, kept
until the new files are in place; as an attachment goes before its envelope, an envelope that
goes leaves none behind (`Room`). Taking back goes the other way round: a file that is no
longer to be taken back is where it was or its message is known to be broken (`TakingBack`), so
no attachment comes back before its envelope. `InboxAccount` compares the inbox with the one
`before`: they differ by the moved files and those of the new message, at every step.

`BrokerRpc_proof`: `ReplayNeedsWait` and `AnswerIsTrue`, for any number of requests and
server threads, any size of the memory and any time limits. `Memory` says that a request which
ran is remembered by the broker its frame names, or so old that a thread which passed the first
check of it must have waited for the lock at least `Retention - Window` (`Outwaited`). A broker
that is down serves nobody, and a new one has an instance that no frame in flight names.
`AnswerInv` follows the client's own connection: whatever else serves a request, a copy of its
frame arrived (`Connections`, `RanForCopy`); this part needs no time limits.

`Relays_proof`, about `Publication`: type correctness, of which the bound of the history is part;
`ResultIsTrue` and `HistoryIsTrue`, for any relays, calls that overlap, length of the history
and crashes. `PubInv` adds what the SDK may know of a relay (`AnswersAreTrue`), that an event
leaves once, after its relays were chosen (`SentToChosen`), that a result is true as soon as
the publisher is left (`ResultsAreTrue`), that the history has exactly the results of calls
that returned (`RecordsAreResults`) and which calls it lists (`CallsAreListed`). A record is
added by `NewestProperties`, noted by `RecordedProperties`; the steps cite only these.

`Relays_proof`, about `RelayHealth`: `LimitsAreRecent`, `WaitIsKept` and `CooldownEnds`, for
any number of threads, processes, relays and answers, and any wall clocks that differ by at
most `Drift`. `LimitsInv` follows the age of an answer through its three places: an entry is
dated by the wall clock at most a fetch after the relay answered (`Dated`), and a thread that
selects found the entry fresh when it began, or stored since (`Timely`); an accepted event
must not date the limits again. `CooldownInv` says that a cooldown is one refusal's, with its
own serial number, and ends by the wall clock of that refusal (`Cooldown`), and that a deadline
which a process computed for the refusal on file keeps its wait and is capped, however the
clock was set between the two (`Kept`). Both waits hold by the monotonic clock, up to `Drift`
between the wall clock of the refusal and that of the first look.

`Relays_proof`, about `Subscriptions`: `SubscribedFirst`, for any topics, relays and order of
events. That a topic which is published for is at a relay is not inductive: another call may
be under way that replaces the subscription. `NotedStays` says of every active topic that is
noted, was taken or is published for, that a relay has it and that every call still to come
asks for it as well. A call under way asks for what earlier ones did, as far as it is active
(`LaterCalls`), since it reads the registry when it is made and topics are never used again
(`Unused`); so a call that takes effect makes its topics noted for good. Calls belong to
coroutines that wait for them (`Waiting`), and a coroutine asked for the topic it works for
(`AskedFor`). Relays that fail need no case of their own: they keep an earlier subscription.

`BrokerWorkers_proof`: type correctness; `ExecutedAsTold`, `AnswersAreOwn` and `Supervised`,
for any endpoints, processes, requests, starts and crashes. `CallInv` follows a
command through the broker. A worker that is heard has exactly one command in its pipe, at
work or answered, or none, and one that is not heard has at most one answer left (`Places`); a
worker in the table had its first line taken (`Made`). A command is in one pipe until it is
executed and is answered only then (`Executions`), and one that was refused is in none, unless
`close` flushed it; then its pipe is closed, so that its caller can only be refused (`Untold`). A worker has one caller (`OneCaller`), and as long as it can be called there is
nothing left to hear of it but for that caller (`Own`): this is what `Receive` and the closing
of a worker after a time-out preserve together, and why a late answer reaches nobody else. The
broker lock is held across a start (`Starting`), so that a second start of the same endpoint
finds the first worker in the table, from which `Supervised` follows.

Only model-checked: liveness (`HandshakeResolves`,
`PendingIsFlushed`, `RequestsEnd`, `LostIsRestarted`, `TopicsAreCovered`,
`TransactionsEnd`), which holds under fairness and is outside the prover's reach. `EndpointsAgree`,
`BoundedRetries`, `FailedIsFinal`, `WindowExact` and `WithinQuota` are proved and not
run: they are parts of the arguments above. The type invariants are proved for the
modules with proofs; those of the others document the state.

## 6. Plan

Every hazard listed in `PROJECT.json` is covered by a property of a run. Left to do: a composition of `InboxFiles` and `MessageDelivery`, the first as a
refinement of the inbox of the second.

## 7. Not modelled

Cryptography and token formats: a message that only the holder of a key can make
is made by that holder. Channel policy and host routing (`normalize_policy`,
`codex_router.py`): stateless validation, prompts and command lines. Attachments beyond
their files in the inbox: inline and Blossom transport, the disarm prefix and sizes in
bytes are transformations and I/O, with no state that a later step reads. The MCP front end
(`server.py`, `connection_tools.py`): stateless adapters. Legacy pairings: called by tests
only; the registry keeps them as inactive history. `register_agent`: adds an entry under a
fresh id. `register_delivery`: copies a record to derived sessions; `Notifications` keeps
whether a chat is registered. Several chats in one registry: each operation tests the owner
of the entry it works on (`_owned`), so the modules follow the entries of one chat; the index
of connections, which connection ids of several invitations share, is left out with them. Logging and diagnostics: nothing reads them back. The
broker's credential and frame encryption, the validation of endpoint profiles.

Left out inside the modules: in `Notifications` a failing write of the registry (it
loses a prompt as a failing host call does); in `BrokerWorkers` the effects of a tool
call, a write that blocks on a full pipe, and threads that wait for the broker lock before they
have a worker (`RequestsEnd` begins when a thread took its request up); in `MessageDelivery`
envelopes that cannot be read, which the purge skips (`runtime_adapter.py` 503-506) while the
registry is written; in `RelayHealth` the limits themselves and the jitter; in `InboxFiles` sizes, so
that the number of messages retired is any number; in `TaskCoordination` the history of a
task, the capacity of tasks and `prune`.
