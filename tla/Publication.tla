----------------------------- MODULE Publication -----------------------------
(***************************************************************************)
(* What a sender learns of a message (send in connections.py,              *)
(* _async_publish and _async_publish_raw in nostr_relay.py). The attempt   *)
(* is on record before anything is published; relays are selected, twice;  *)
(* the event goes to all of them at once; their answers are classified and *)
(* the result is recorded and returned. The call is given up after 20 s,   *)
(* and the broker may crash. Nothing is sent again by itself.              *)
(*                                                                         *)
(* External: the SDK sends an event once to each relay; what it knows of a *)
(* relay may be less than what happened. Which relays RelayHealth admits   *)
(* is any choice here.                                                     *)
(***************************************************************************)
EXTENDS Naturals, Sequences, SequencesExt, RelaySet

CONSTANTS
    Messages,
    MaxRecords,     \* publications kept of a session (32)
    MaxCrashes      \* bound of the model

ASSUME PublicationAssumption == Relays # {} /\ MaxRecords \in Nat \ {0} /\ MaxCrashes \in Nat

VARIABLES
    live,         \* the session is in the registry
    publications, \* its records, oldest first
    step,         \* of each send() call
    chosen,       \* relays that were selected
    answer,       \* what the SDK reports of a relay
    result,       \* how the call ends
    flying, has,  \* events on their way, and those a relay took
    lost,         \* history: messages whose record was dropped for a later one
    crashes

call == <<step, chosen, answer, result>>
relays == <<flying, has>>
vars == <<live, publications, call, relays, lost, crashes>>

Results == {"published", "rejected", "not_sent", "unknown", "failed"}

TypeOK ==
    /\ live \in BOOLEAN /\ crashes \in 0 .. MaxCrashes /\ lost \subseteq Messages
    /\ publications \in Seq([message : Messages, result : Results \cup {"pending"}])
    /\ Len(publications) <= MaxRecords
    /\ step \in [Messages -> {"new", "started", "selected", "sending", "answered", "over", "returned", "crashed"}]
    /\ chosen \in [Messages -> SUBSET Relays]
    /\ answer \in [Messages -> [Relays -> {"none", "accepted", "refused", "unclear"}]]
    /\ result \in [Messages -> Results \cup {"none"}]
    /\ flying \subseteq Messages \X Relays /\ has \subseteq Messages \X Relays

NoAnswer == [r \in Relays |-> "none"]

Init ==
    /\ live = TRUE /\ publications = <<>> /\ lost = {} /\ crashes = 0
    /\ step = [m \in Messages |-> "new"] /\ chosen = [m \in Messages |-> {}]
    /\ answer = [m \in Messages |-> NoAnswer] /\ result = [m \in Messages |-> "none"]
    /\ flying = {} /\ has = {}

-----------------------------------------------------------------------------
(* send() and the publisher.                                                *)

\* Mutants: the oldest records are kept; all are.
Oldest(s) == IF Len(s) <= MaxRecords THEN s ELSE SubSeq(s, 1, MaxRecords)
AllOf(s) == s

Newest(s) == IF Len(s) <= MaxRecords THEN s ELSE SubSeq(s, Len(s) - MaxRecords + 1, Len(s))

MessagesOf(s) == {s[i].message : i \in DOMAIN s}

\* The first registry transaction.
Begin(m) ==
    /\ live /\ step[m] = "new"
    /\ publications' = Newest(Append(publications, [message |-> m, result |-> "pending"]))
    /\ lost' = lost \cup (MessagesOf(publications) \ MessagesOf(publications'))
    /\ step' = [step EXCEPT ![m] = "started"]
    /\ UNCHANGED <<live, chosen, answer, result, relays, crashes>>

\* The publisher is left with a result, at a step of it.
Leave(m, from, r) ==
    /\ step[m] \in from
    /\ step' = [step EXCEPT ![m] = "over"] /\ result' = [result EXCEPT ![m] = r]
    /\ chosen' = [chosen EXCEPT ![m] = {}] /\ answer' = [answer EXCEPT ![m] = NoAnswer]
    /\ UNCHANGED <<live, publications, relays, lost, crashes>>

\* Discovery and eligible(), before anything is packed.
Select(m, rs) ==
    /\ step[m] = "started" /\ rs # {}
    /\ step' = [step EXCEPT ![m] = "selected"] /\ chosen' = [chosen EXCEPT ![m] = rs]
    /\ UNCHANGED <<live, publications, answer, result, relays, lost, crashes>>

\* No relay is eligible, now or when the size of the event is known: PublishError.
NotSent(m) == Leave(m, {"started", "selected"}, "not_sent")

\* Any other exception: the attachment, the health file, and also observe() or the shutdown
\* of the client after the event was sent.
Fail(m) == Leave(m, {"started", "selected", "answered"}, "failed")

\* eligible() again, among those selected, and send_event_to().
Send(m, rs) ==
    /\ step[m] = "selected" /\ rs # {} /\ rs \subseteq chosen[m]
    /\ step' = [step EXCEPT ![m] = "sending"] /\ chosen' = [chosen EXCEPT ![m] = rs]
    /\ flying' = flying \cup ({m} \X rs)
    /\ UNCHANGED <<live, publications, answer, result, has, lost, crashes>>

\* A relay takes or drops an event; its answer may be lost. It can also come too late.
Arrive(m, r) ==
    /\ <<m, r>> \in flying /\ flying' = flying \ {<<m, r>>}
    /\ \E taken \in BOOLEAN :
          /\ has' = IF taken THEN has \cup {<<m, r>>} ELSE has
          /\ IF step[m] = "sending" /\ answer[m][r] = "none"
             THEN \E a \in {"unclear", IF taken THEN "accepted" ELSE "refused"} :
                     answer' = [answer EXCEPT ![m][r] = a]
             ELSE UNCHANGED answer
    /\ UNCHANGED <<live, publications, step, chosen, result, lost, crashes>>

\* The SDK waits no longer for r.
GiveUpOn(m, r) ==
    /\ step[m] = "sending" /\ r \in chosen[m] /\ answer[m][r] = "none"
    /\ answer' = [answer EXCEPT ![m][r] = "unclear"]
    /\ UNCHANGED <<live, publications, step, chosen, result, relays, lost, crashes>>

\* send_event_to() returns; the answers are observed.
Collect(m) ==
    /\ step[m] = "sending" /\ \A r \in chosen[m] : answer[m][r] # "none"
    /\ step' = [step EXCEPT ![m] = "answered"]
    /\ UNCHANGED <<live, publications, chosen, answer, result, relays, lost, crashes>>

\* send_event_to() raises, or wait_for() times out, wherever the publisher is.
SdkRaises(m) == Leave(m, {"sending"}, "unknown")

TimeOut(m) == Leave(m, {"started", "selected", "sending", "answered"}, "unknown")

\* Mutant: rejected, if any relay rejected it.
VerdictOfAny(m) ==
    LET got == {answer[m][r] : r \in chosen[m]} IN
    IF "accepted" \in got THEN "published" ELSE IF "refused" \in got THEN "rejected" ELSE "unknown"

\* One acceptance is enough; one answer that is unclear leaves the outcome open.
Verdict(m) ==
    LET got == {answer[m][r] : r \in chosen[m]} IN
    IF "accepted" \in got THEN "published" ELSE IF "unclear" \in got THEN "unknown" ELSE "rejected"

Classify(m) == Leave(m, {"answered"}, Verdict(m))

\* Mutant: the result is noted at the latest record.
RecordLatest(m) ==
    IF publications = <<>> THEN publications ELSE [publications EXCEPT ![Len(publications)].result = result[m]]

Recorded(m) ==
    [i \in DOMAIN publications |->
        IF publications[i].message = m THEN [message |-> m, result |-> result[m]] ELSE publications[i]]

\* The second registry transaction; the caller then has the result.
Return(m) ==
    /\ step[m] = "over" /\ step' = [step EXCEPT ![m] = "returned"]
    /\ publications' = IF live THEN Recorded(m) ELSE publications
    /\ UNCHANGED <<live, chosen, answer, result, relays, lost, crashes>>

-----------------------------------------------------------------------------

\* revoke() or expiry.
Revoke ==
    /\ live /\ live' = FALSE /\ publications' = <<>>
    /\ UNCHANGED <<call, relays, lost, crashes>>

\* The process of the calls ends. Frames that left it may still arrive.
Crash ==
    /\ crashes < MaxCrashes /\ crashes' = crashes + 1
    /\ step' = [m \in Messages |-> IF step[m] \in {"new", "returned"} THEN step[m] ELSE "crashed"]
    /\ chosen' = [m \in Messages |-> {}] /\ answer' = [m \in Messages |-> NoAnswer]
    /\ UNCHANGED <<live, publications, result, relays, lost>>

Next ==
    \/ \E m \in Messages :
          \/ Begin(m) \/ NotSent(m) \/ Fail(m) \/ Collect(m) \/ SdkRaises(m) \/ TimeOut(m)
          \/ Classify(m) \/ Return(m)
          \/ \E rs \in SUBSET Relays : Select(m, rs) \/ Send(m, rs)
          \/ \E r \in Relays : Arrive(m, r) \/ GiveUpOn(m, r)
    \/ Revoke \/ Crash

Spec == Init /\ [][Next]_vars

-----------------------------------------------------------------------------
(* Properties.                                                              *)

Taken(m) == \E r \in Relays : <<m, r>> \in has
MayBeTaken(m) == \E r \in Relays : <<m, r>> \in has \cup flying

\* What a result says of the relays.
Holds(m, r) ==
    /\ r = "published" => Taken(m)
    /\ r \in {"rejected", "not_sent"} => ~MayBeTaken(m)

\* "not_sent", "rejected" and "unknown" are told apart (SKILL.md): a caller is told that
\* a message was not published only if no relay has it or can still take it, whatever was
\* lost, late or timed out.
ResultIsTrue == \A m \in Messages : step[m] = "returned" => Holds(m, result[m])

\* So is the history of the connection, with calls that overlap, end in another order or
\* are cut off by a crash; and a relay has no message of a live session that the history
\* does not list, but for those dropped after MaxRecords later ones.
HistoryIsTrue ==
    /\ \A i \in DOMAIN publications : Holds(publications[i].message, publications[i].result)
    /\ \A m \in Messages : live /\ MayBeTaken(m) /\ m \notin MessagesOf(publications) =>
           m \in lost /\ Len(publications) = MaxRecords

=============================================================================
