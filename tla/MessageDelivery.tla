-------------------------- MODULE MessageDelivery --------------------------
(***************************************************************************)
(* One direction of an active private session, from connections.send on    *)
(* the sending broker to the inbox of the receiving one: the sequence      *)
(* number reserved before a publication, the receiver's durable replay     *)
(* window, the ledger of handled ciphertexts, the quota of the inbox and   *)
(* the end of the session while a message is in the pipeline.              *)
(*                                                                         *)
(* The notification handler (nostr_relay.py) handles one event at a time,  *)
(* but in several transactions: accept_control commits the sequence, then  *)
(* claim_message_fingerprint the ciphertext, then commit_message the       *)
(* envelope. Revocations, reads, deletions and crashes fall in between.    *)
(*                                                                         *)
(* Abstractions. A message is its sequence number. An event is a sequence  *)
(* and a ciphertext, since a holder of the key may encrypt a signed        *)
(* payload again. Sizes in bytes and the age of ledger entries and of read *)
(* messages are not tracked: where they decide, every outcome is allowed.  *)
(***************************************************************************)
EXTENDS Naturals, FiniteSets

CONSTANTS
    Window,          \* REPLAY_WINDOW (256)
    MaxSequence,     \* largest sequence a receiver takes (2^63 - 1)
    Ciphertexts,     \* encryptions of one payload
    MaxFingerprints, \* entries of seen_messages.json (4096)
    MaxMessages,     \* inbox quota
    Nothing          \* the handler has no message in its hands

Sequences == 1 .. MaxSequence
Events == Sequences \X Ciphertexts

ASSUME DeliveryAssumption ==
    /\ Window \in Nat \ {0}
    /\ MaxSequence \in Nat
    /\ MaxFingerprints \in Nat \ {0}
    /\ MaxMessages \in Nat
    /\ Nothing \notin [at : {"accepted", "claimed"}, event : Events]

VARIABLES
    sendSequence, \* sender's registry: last sequence reserved
    sending,      \* sequences signed but not yet handed to a relay
    wire,         \* events some relay has seen
    session,      \* receiver's registry: "active", or "ended" by revoke or expiry
    highest,      \* receive_highest of the registry entry
    seen,         \* receive_seen of the registry entry
    handling,     \* the event in the handler and how far it got
    claimed,      \* seen_messages.json
    unread, read, \* the inbox
    accepted,     \* history: times a sequence passed the replay window
    stored        \* history: sequences ever written to the inbox

senderVars == <<sendSequence, sending>>
windowVars == <<highest, seen, accepted>>
inboxVars == <<unread, read, stored>>
vars == <<senderVars, wire, session, windowVars, handling, claimed, inboxVars>>

Inbox == unread \cup read
Working == [at : {"accepted", "claimed"}, event : Events]

TypeOK ==
    /\ sendSequence \in 0 .. MaxSequence
    /\ sending \subseteq 1 .. sendSequence
    /\ wire \subseteq (1 .. sendSequence) \X Ciphertexts
    /\ session \in {"active", "ended"}
    /\ highest \in 0 .. MaxSequence
    /\ seen \subseteq Sequences
    /\ handling \in Working \cup {Nothing}
    /\ claimed \subseteq Events
    /\ unread \subseteq Sequences /\ read \subseteq Sequences
    /\ accepted \in [Sequences -> Nat]
    /\ stored \subseteq Sequences

Init ==
    /\ sendSequence = 0 /\ sending = {} /\ wire = {}
    /\ session = "active"
    /\ highest = 0 /\ seen = {} /\ accepted = [s \in Sequences |-> 0]
    /\ handling = Nothing /\ claimed = {}
    /\ unread = {} /\ read = {} /\ stored = {}

-----------------------------------------------------------------------------
(* The sender.                                                              *)

\* The first registry transaction of send: the sequence is saved before the
\* payload is signed.
Reserve ==
    /\ sendSequence < MaxSequence
    /\ sendSequence' = sendSequence + 1
    /\ sending' = sending \cup {sendSequence'}
    /\ UNCHANGED <<wire, session, windowVars, handling, claimed, inboxVars>>

\* One publication, without a retry: it may be lost. Sends overlap and finish in
\* any order.
Publish(s, x) ==
    /\ s \in sending
    /\ sending' = sending \ {s}
    /\ wire' \in {wire, wire \cup {<<s, x>>}}
    /\ UNCHANGED <<sendSequence, session, windowVars, handling, claimed, inboxVars>>

CrashSender ==
    /\ sending # {}
    /\ sending' = {}
    /\ UNCHANGED <<sendSequence, wire, session, windowVars, handling, claimed, inboxVars>>

\* A holder of the session key encrypts an old signed payload with a new nonce.
Reencrypt(e, x) ==
    /\ e \in wire
    /\ wire' = wire \cup {<<e[1], x>>}
    /\ UNCHANGED <<senderVars, session, windowVars, handling, claimed, inboxVars>>

-----------------------------------------------------------------------------
(* The receiver's pipeline. SEEN_EVENTS, an in-memory set emptied by a       *)
(* restart and when it is full, and the cut-off for historical events only   *)
(* suppress deliveries: here an event need not be delivered.                 *)

\* Mutant: off by one at the far edge of the window.
InWindowWide(s) == highest <= s + Window

InWindow(s) == highest < s + Window

\* Mutant: the window is rebuilt from the new sequence alone.
AcceptForgetful(e) ==
    /\ handling = Nothing
    /\ e \in wire
    /\ session = "active"
    /\ InWindow(e[1])
    /\ e[1] \notin seen
    /\ highest' = IF e[1] > highest THEN e[1] ELSE highest
    /\ seen' = {e[1]}
    /\ accepted' = [accepted EXCEPT ![e[1]] = @ + 1]
    /\ handling' = [at |-> "accepted", event |-> e]
    /\ UNCHANGED <<senderVars, wire, session, claimed, inboxVars>>

\* The active branch of accept_control: the window moves durably.
Accept(e) ==
    /\ handling = Nothing
    /\ e \in wire
    /\ session = "active"
    /\ InWindow(e[1])
    /\ e[1] \notin seen
    /\ highest' = IF e[1] > highest THEN e[1] ELSE highest
    /\ seen' = {s \in seen : s + Window > highest'} \cup {e[1]}
    /\ accepted' = [accepted EXCEPT ![e[1]] = @ + 1]
    /\ handling' = [at |-> "accepted", event |-> e]
    /\ UNCHANGED <<senderVars, wire, session, claimed, inboxVars>>

\* claim_message_fingerprint: entries leave the ledger when it is full or when
\* they are thirty days old.
Claim(kept) ==
    /\ handling # Nothing /\ handling.at = "accepted"
    /\ handling.event \notin claimed
    /\ kept \subseteq claimed
    /\ Cardinality(kept) < MaxFingerprints
    /\ claimed' = kept \cup {handling.event}
    /\ handling' = [handling EXCEPT !.at = "claimed"]
    /\ UNCHANGED <<senderVars, wire, session, windowVars, inboxVars>>

\* A choice of read messages to retire, none if there is room, that makes the
\* new one fit. Which ones depends on their age and size.
Room(retired) ==
    /\ retired \subseteq read
    /\ Cardinality(Inbox \ retired) < MaxMessages

\* Mutant: retention empties the inbox of unread messages too.
WriteEnvelopeOverAll(s, retired) ==
    /\ retired \subseteq read
    /\ unread' = {s} /\ read' = {}
    /\ stored' = stored \cup {s}

\* One transaction retires what it must and writes the envelope; when any of its
\* steps fails, it is rolled back.
WriteEnvelope(s, retired) ==
    /\ Room(retired)
    /\ unread' = unread \cup {s}
    /\ read' = read \ retired
    /\ stored' = stored \cup {s}

\* Mutant: commit_message trusts the check made when the message was accepted.
CommitUnchecked(retired) ==
    /\ handling # Nothing /\ handling.at = "claimed"
    /\ WriteEnvelope(handling.event[1], retired)
    /\ handling' = Nothing
    /\ UNCHANGED <<senderVars, wire, session, windowVars, claimed>>

\* commit_message rechecks the session under the lock that guards the inbox.
CommitMessage(retired) ==
    /\ handling # Nothing /\ handling.at = "claimed"
    /\ session = "active"
    /\ WriteEnvelope(handling.event[1], retired)
    /\ handling' = Nothing
    /\ UNCHANGED <<senderVars, wire, session, windowVars, claimed>>

\* Every early return and exception after accept_control: a body that is too
\* long, a ciphertext already claimed, a session that ended, an inbox whose quota
\* is taken by unread messages. A failed commit is rolled back; if the rollback fails
\* too, what is left on disk is what CommitMessage or CrashReceiver leaves.
DropMessage ==
    /\ handling # Nothing
    /\ handling' = Nothing
    /\ UNCHANGED <<senderVars, wire, session, windowVars, claimed, inboxVars>>

\* A crash. In the middle of commit_message the retired messages are already in
\* the transaction directory, which nothing reads again.
CrashReceiver(retired) ==
    /\ handling # Nothing
    /\ retired \subseteq read
    /\ retired # {} => handling.at = "claimed" /\ session = "active"
    /\ read' = read \ retired
    /\ handling' = Nothing
    /\ UNCHANGED <<senderVars, wire, session, windowVars, claimed, unread, stored>>

-----------------------------------------------------------------------------
(* The local chat, and the end of the session.                               *)

\* read() with mark_read.
ReadMessage(s) ==
    /\ session = "active"
    /\ s \in unread
    /\ unread' = unread \ {s}
    /\ read' = read \cup {s}
    /\ UNCHANGED <<senderVars, wire, session, windowVars, handling, claimed, stored>>

DeleteMessage(s) ==
    /\ session = "active"
    /\ s \in Inbox
    /\ unread' = unread \ {s}
    /\ read' = read \ {s}
    /\ UNCHANGED <<senderVars, wire, session, windowVars, handling, claimed, stored>>

\* revoke(), or the expiry that registry() notices: _purge_inactive_messages
\* deletes the files of the topic, then the registry without it is written.
EndSession ==
    /\ session = "active"
    /\ session' = "ended"
    /\ unread' = {} /\ read' = {}
    /\ UNCHANGED <<senderVars, wire, windowVars, handling, claimed, stored>>

\* The same, when a file cannot be removed or the broker dies in between: some
\* messages are gone and the registry still has the topic, for the next attempt.
EndSessionInterrupted(left) ==
    /\ session = "active"
    /\ left \subseteq Inbox /\ left # Inbox
    /\ unread' = unread \cap left /\ read' = read \cap left
    /\ UNCHANGED <<senderVars, wire, session, windowVars, handling, claimed, stored>>

Next ==
    \/ Reserve \/ CrashSender
    \/ \E s \in Sequences, x \in Ciphertexts : Publish(s, x)
    \/ \E e \in Events, x \in Ciphertexts : Reencrypt(e, x)
    \/ \E e \in Events : Accept(e)
    \/ \E kept \in SUBSET claimed : Claim(kept)
    \/ \E retired \in SUBSET read : CommitMessage(retired) \/ CrashReceiver(retired)
    \/ DropMessage
    \/ \E s \in Sequences : ReadMessage(s) \/ DeleteMessage(s)
    \/ EndSession
    \/ \E left \in SUBSET Inbox : EndSessionInterrupted(left)

Spec == Init /\ [][Next]_vars

-----------------------------------------------------------------------------
(* Properties.                                                              *)

\* No signed sequence passes accept_control twice, however events are repeated,
\* reordered or encrypted again, as the window slides and brokers restart.
AcceptedOnce == \A s \in Sequences : accepted[s] <= 1

\* The window is exact: inside it a sequence is rejected if and only if it was
\* accepted before ("accepts bounded reordering but rejects duplicates"), and
\* receive_seen keeps nothing older than the window.
WindowExact ==
    /\ \A s \in Sequences : s <= highest /\ InWindow(s) => (s \in seen <=> accepted[s] > 0)
    /\ \A s \in seen : s <= highest /\ InWindow(s)

\* What the history records of a sequence: it was stored only after it was
\* accepted, the one in the handler's hands was accepted and is not stored yet,
\* and a message is unread or read, not both.
HistoryAgrees ==
    /\ \A s \in Sequences : accepted[s] > 0 => s <= highest
    /\ Inbox \subseteq stored
    /\ \A s \in stored : accepted[s] > 0
    /\ handling # Nothing => accepted[handling.event[1]] > 0 /\ handling.event[1] \notin stored
    /\ unread \cap read = {}

\* A message that left the inbox - deleted, retired by the quota, purged - is never
\* written to it again, although the window and the ledger forget old entries.
NeverStoredAgain == [][(Inbox' \ Inbox) \cap stored = {}]_vars

\* Once a session ended no data of it is in the inbox, even if a message was past
\* the replay window when it ended.
NothingAfterEnd == session = "ended" => Inbox = {}

\* The quota holds after every step, a crash in the middle of a commit included.
WithinQuota == Cardinality(Inbox) <= MaxMessages

\* No step of the pipeline - accepting, committing with or without making room,
\* giving up, crashing half way - costs a message the local chat has not read.
PipelineKeepsUnread == [][handling' # handling => unread \subseteq unread']_vars

=============================================================================
