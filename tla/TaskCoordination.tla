-------------------------- MODULE TaskCoordination --------------------------
(***************************************************************************)
(* One task shared over one private session (coordination.py and its       *)
(* callers in connections.py). Each endpoint keeps its own record of the   *)
(* task, configured with the roles that endpoint's user assigned. A typed  *)
(* message is applied to the sender's record, which is saved before the    *)
(* publication, and to the receiver's when it is stored.                   *)
(*                                                                         *)
(* Every operation is one registry transaction. Delivery is at most once,  *)
(* in any order (MessageDelivery); a message that is lost, dropped, or cut *)
(* off by a crash between its envelope and the registry, is one that is    *)
(* never received here. A refused operation raises and changes nothing.    *)
(*                                                                         *)
(* Abstractions. A baseline and the items of an instruction are one thing, *)
(* its items. A digest is what it is computed from; contents differ        *)
(* whenever messages do. History and pending notifications are left out.   *)
(***************************************************************************)
EXTENDS Naturals

CONSTANTS
    Roles,            \* Roles[e][s]: roles that endpoint e assigned to side s
    AllowPeerControl, \* endpoints that accept pause and resume from the peer
    ReportOnly,       \* endpoints whose channel policy is report_to_user
    Items,            \* work items
    Reports,          \* kinds of report in use
    MaxRevision, MaxGeneration, \* largest revision and generation (2^31 - 1)
    MaxMessages,      \* bound on the messages sent
    NoInstruction

Endpoints == {"client", "service"}
Sides == {"local", "peer"}
Other(e) == IF e = "client" THEN "service" ELSE "client"
OtherSide(s) == IF s = "local" THEN "peer" ELSE "local"

ReportKinds ==
    {"accepted", "progress", "implemented", "verified", "committed", "freeze", "blocker", "decision"}
Controls == {"pause", "resume"}

Messages ==
    [id : 1 .. MaxMessages, from : Endpoints, kind : {"instruction"} \cup Controls \cup Reports,
     revision : 0 .. MaxRevision, generation : 0 .. MaxGeneration, reply : 0 .. MaxMessages,
     items : SUBSET Items]

\* What configure() requires of each endpoint, whatever the other one did.
ASSUME TaskAssumption ==
    /\ \A e \in Endpoints : "coordinator" \in Roles[e]["local"] <=> "coordinator" \notin Roles[e]["peer"]
    /\ \A e \in AllowPeerControl : "coordinator" \in Roles[e]["peer"]
    /\ Reports \subseteq ReportKinds
    /\ MaxRevision \in Nat /\ MaxGeneration \in Nat /\ MaxMessages \in Nat
    /\ NoInstruction \notin Messages

VARIABLES
    configured, \* endpoints that registered the task
    record,     \* the task record of each endpoint
    sent,       \* messages published, or reserved and never published
    handled,    \* ids of the messages that passed the receiver's pipeline
    evidence    \* history: <<side, item>> reported implemented for the instruction of a record

vars == <<configured, record, sent, handled, evidence>>

Facts ==
    [kind : Reports \cup {"accepted"}, side : Sides, revision : 0 .. MaxRevision,
     generation : 0 .. MaxGeneration, items : SUBSET Items]

Records ==
    [revision : 0 .. MaxRevision, generation : 0 .. MaxGeneration, paused : BOOLEAN,
     localPause : BOOLEAN, conflict : BOOLEAN, instruction : Messages \cup {NoInstruction},
     facts : SUBSET Facts]

TypeOK ==
    /\ configured \subseteq Endpoints
    /\ record \in [Endpoints -> Records]
    /\ sent \subseteq Messages
    /\ handled \subseteq 1 .. MaxMessages
    /\ evidence \in [Endpoints -> SUBSET (Sides \X Items)]

NewRecord ==
    [revision |-> 0, generation |-> 0, paused |-> FALSE, localPause |-> FALSE,
     conflict |-> FALSE, instruction |-> NoInstruction, facts |-> {}]

Init ==
    /\ configured = {}
    /\ record = [e \in Endpoints |-> NewRecord]
    /\ sent = {} /\ handled = {}
    /\ evidence = [e \in Endpoints |-> {}]

-----------------------------------------------------------------------------
(* applicability() and apply() on a record r, for a message m of a side s.  *)

\* Mutant: a local pause is a pause like any other.
HaltedShared(r) == r.paused

Halted(r) == r.paused \/ r.localPause

Digest(m) == <<m.kind, m.revision, m.generation, m.reply, m.items>>

\* applicability() = "current".
Current(r, m) ==
    /\ ~Halted(r)
    /\ m.generation = r.generation /\ m.revision = r.revision
    /\ ~r.conflict
    /\ r.instruction # NoInstruction
    /\ r.instruction.generation = r.generation
    /\ IF m.kind = "instruction"
       THEN Digest(m) = Digest(r.instruction)
       ELSE m.reply = r.instruction.id

\* A pause or resume that advances the generation.
Advances(e, r, m, s) ==
    /\ m.kind \in Controls
    /\ "coordinator" \in Roles[e][s]
    /\ s = "peer" => e \in AllowPeerControl /\ ~(m.kind = "resume" /\ r.localPause)
    /\ m.generation = r.generation + 1

\* Mutant: the last instruction to arrive wins.
SupersedesAlways(e, r, m, s) ==
    /\ m.kind = "instruction"
    /\ "coordinator" \in Roles[e][s]
    /\ m.generation = r.generation /\ ~Halted(r)

\* Mutant: the same revision may be issued again.
SupersedesEqual(e, r, m, s) ==
    /\ m.kind = "instruction"
    /\ "coordinator" \in Roles[e][s]
    /\ m.generation = r.generation /\ ~Halted(r)
    /\ m.revision >= r.revision

\* An instruction taken up: it supersedes the previous one.
Supersedes(e, r, m, s) ==
    /\ m.kind = "instruction"
    /\ "coordinator" \in Roles[e][s]
    /\ m.generation = r.generation /\ ~Halted(r)
    /\ \/ m.revision > r.revision
       \/ m.revision = r.revision /\ r.instruction = NoInstruction

\* A second instruction with the revision of the first one.
Contradicts(e, r, m, s) ==
    /\ m.kind = "instruction"
    /\ "coordinator" \in Roles[e][s]
    /\ m.generation = r.generation /\ ~Halted(r)
    /\ m.revision = r.revision
    /\ r.instruction # NoInstruction
    /\ m # r.instruction

ItemsOf(r, kind, s) == UNION {f.items : f \in {g \in r.facts : g.kind = kind /\ g.side = s}}
Accepted(r, s) == \E f \in r.facts : f.kind = "accepted" /\ f.side = s

\* Mutant: a verification needs no implementation evidence.
ReportedUnproven(e, r, m, s) ==
    /\ m.kind \in ReportKinds
    /\ Current(r, m)
    /\ m.items \subseteq r.instruction.items
    /\ m.kind \in {"implemented", "verified", "committed", "freeze"} => Accepted(r, s)
    /\ m.kind = "verified" =>
          /\ "reviewer" \in Roles[e][s]
          /\ m.items \cap ItemsOf(r, "implemented", s) = {}
    /\ m.kind = "committed" => "committer" \in Roles[e][s]

\* A report that is recorded as a fact of its side.
Reported(e, r, m, s) ==
    /\ m.kind \in ReportKinds
    /\ Current(r, m)
    /\ m.items \subseteq r.instruction.items
    /\ m.kind \in {"implemented", "verified", "committed", "freeze"} => Accepted(r, s)
    /\ m.kind = "verified" =>
          /\ "reviewer" \in Roles[e][s]
          /\ m.items \subseteq ItemsOf(r, "implemented", OtherSide(s))
          /\ m.items \cap ItemsOf(r, "implemented", s) = {}
    /\ m.kind = "committed" => "committer" \in Roles[e][s]

\* A side has one fact of a kind; there is one blocker and one decision in all.
Replaced(r, kind, s) ==
    {f \in r.facts : f.kind = kind /\ (f.side = s \/ kind \in {"blocker", "decision"})}

Noted(r, m, s) ==
    IF m.kind = "progress" THEN r.facts
    ELSE (r.facts \ Replaced(r, m.kind, s)) \cup
         {[kind |-> m.kind, side |-> s, revision |-> m.revision, generation |-> m.generation,
           items |-> m.items]}

\* Mutant: a new instruction leaves the facts of the previous one.
ApplyKeepsFacts(e, r, m, s) ==
    CASE Advances(e, r, m, s) ->
            [r EXCEPT !.generation = m.generation, !.paused = (m.kind = "pause")]
      [] Supersedes(e, r, m, s) ->
            [r EXCEPT !.revision = m.revision, !.instruction = m, !.conflict = FALSE]
      [] Contradicts(e, r, m, s) -> [r EXCEPT !.conflict = TRUE]
      [] Reported(e, r, m, s) -> [r EXCEPT !.facts = Noted(r, m, s)]
      [] OTHER -> r

Apply(e, r, m, s) ==
    CASE Advances(e, r, m, s) ->
            [r EXCEPT !.generation = m.generation, !.paused = (m.kind = "pause")]
      [] Supersedes(e, r, m, s) ->
            [r EXCEPT !.revision = m.revision, !.instruction = m, !.conflict = FALSE, !.facts = {}]
      [] Contradicts(e, r, m, s) -> [r EXCEPT !.conflict = TRUE]
      [] Reported(e, r, m, s) -> [r EXCEPT !.facts = Noted(r, m, s)]
      [] OTHER -> r

EvidenceAfter(e, r, m, s) ==
    CASE Supersedes(e, r, m, s) -> {}
      [] Reported(e, r, m, s) /\ m.kind = "implemented" -> evidence[e] \cup ({s} \X m.items)
      [] OTHER -> evidence[e]

-----------------------------------------------------------------------------
(* The operations of an endpoint.                                           *)

Configure(e) ==
    /\ e \notin configured
    /\ configured' = configured \cup {e}
    /\ UNCHANGED <<record, sent, handled, evidence>>

\* The ids are uuid4; here they count the messages.
FreshId(id) ==
    /\ \A m \in sent : m.id < id
    /\ id = 1 \/ \E m \in sent : m.id = id - 1

\* Mutant: send() publishes and never saves the candidate record.
PostUnsaved(e, m) ==
    /\ e \in configured
    /\ sent' = sent \cup {m}
    /\ UNCHANGED <<configured, record, handled, evidence>>

\* Mutant: send() saves the candidate record of an instruction only.
PostReportUnsaved(e, m) ==
    /\ e \in configured
    /\ IF m.kind = "instruction"
       THEN /\ record' = [record EXCEPT ![e] = Apply(e, record[e], m, "local")]
            /\ evidence' = [evidence EXCEPT ![e] = EvidenceAfter(e, record[e], m, "local")]
       ELSE UNCHANGED <<record, evidence>>
    /\ sent' = sent \cup {m}
    /\ UNCHANGED <<configured, handled>>

\* The first transaction of send(): the record and the reservation are saved
\* together; the publication that follows may fail.
Post(e, m) ==
    /\ e \in configured
    /\ record' = [record EXCEPT ![e] = Apply(e, record[e], m, "local")]
    /\ evidence' = [evidence EXCEPT ![e] = EvidenceAfter(e, record[e], m, "local")]
    /\ sent' = sent \cup {m}
    /\ UNCHANGED <<configured, handled>>

SendInstruction(e, id, revision, items) ==
    LET m == [id |-> id, from |-> e, kind |-> "instruction", revision |-> revision,
              generation |-> record[e].generation, reply |-> 0, items |-> items]
    IN  /\ FreshId(id)
        /\ revision \in 1 .. MaxRevision /\ items # {}
        /\ Supersedes(e, record[e], m, "local")
        /\ Post(e, m)

\* A pause or resume that was already made locally may be sent with its
\* generation, to propagate it.
SendControl(e, id, kind, generation) ==
    LET m == [id |-> id, from |-> e, kind |-> kind, revision |-> record[e].revision,
              generation |-> generation, reply |-> 0, items |-> {}]
    IN  /\ FreshId(id)
        /\ generation <= MaxGeneration
        /\ \/ Advances(e, record[e], m, "local")
           \/ /\ "coordinator" \in Roles[e]["local"]
              /\ generation > 0 /\ generation = record[e].generation
              /\ record[e].paused <=> kind = "pause"
        /\ Post(e, m)

ReportOf(e, id, kind, items) ==
    [id |-> id, from |-> e, kind |-> kind, revision |-> record[e].revision,
     generation |-> record[e].generation, reply |-> record[e].instruction.id, items |-> items]

SendReport(e, id, kind, items) ==
    /\ FreshId(id)
    /\ record[e].instruction # NoInstruction
    /\ kind = "accepted" => e \notin ReportOnly
    /\ Reported(e, record[e], ReportOf(e, id, kind, items), "local")
    /\ Post(e, ReportOf(e, id, kind, items))

\* accept_task(): the same fact, without a message.
AcceptTask(e) ==
    LET r == record[e]
        m == ReportOf(e, 0, "accepted", r.instruction.items)
    IN  /\ e \in configured
        /\ r.instruction # NoInstruction
        /\ Reported(e, r, m, "local")
        /\ record' = [record EXCEPT ![e] = Apply(e, r, m, "local")]
        /\ UNCHANGED <<configured, sent, handled, evidence>>

\* task_control(): any role may pause and resume for itself; nothing is sent.
TaskControl(e, action) ==
    /\ e \in configured
    /\ record[e].generation < MaxGeneration
    /\ record' = [record EXCEPT ![e].paused = (action = "pause"),
                                ![e].generation = @ + 1,
                                ![e].localPause = (action = "pause")]
    /\ UNCHANGED <<configured, sent, handled, evidence>>

\* commit_message(): an endpoint without the task stores the message and
\* applies nothing.
Receive(m) ==
    LET e == Other(m.from) IN
    /\ m.id \notin handled
    /\ handled' = handled \cup {m.id}
    /\ IF e \in configured
       THEN /\ record' = [record EXCEPT ![e] = Apply(e, record[e], m, "peer")]
            /\ evidence' = [evidence EXCEPT ![e] = EvidenceAfter(e, record[e], m, "peer")]
       ELSE UNCHANGED <<record, evidence>>
    /\ UNCHANGED <<configured, sent>>

Next ==
    \/ \E e \in Endpoints : Configure(e) \/ AcceptTask(e)
    \/ \E e \in Endpoints, action \in Controls : TaskControl(e, action)
    \/ \E e \in Endpoints, id \in 1 .. MaxMessages, revision \in 1 .. MaxRevision, items \in SUBSET Items :
          SendInstruction(e, id, revision, items)
    \/ \E e \in Endpoints, id \in 1 .. MaxMessages, kind \in Controls, generation \in 1 .. MaxGeneration :
          SendControl(e, id, kind, generation)
    \/ \E e \in Endpoints, id \in 1 .. MaxMessages, kind \in Reports, items \in SUBSET Items :
          SendReport(e, id, kind, items)
    \/ \E m \in sent : Receive(m)

Spec == Init /\ [][Next]_vars

-----------------------------------------------------------------------------
(* Properties.                                                              *)

\* The endpoint that e takes for the coordinator.
Author(e) == IF "coordinator" \in Roles[e]["local"] THEN e ELSE Other(e)

\* What makes the properties below inductive. The record of its author is at least
\* as far as any instruction sent, no two instructions of an author share a revision,
\* and an instruction on record was sent by the author of that record; facts are
\* about the instruction on record.
Instructions == {m \in sent : m.kind = "instruction"}

RevisionsReserved ==
    /\ \A m \in Instructions : m.revision > 0 /\ m.revision <= record[m.from].revision
    /\ \A m, n \in Instructions : m.from = n.from /\ m.revision = n.revision => m = n

RecordsFollowAuthor ==
    \A e \in Endpoints :
        LET r == record[e] IN
        /\ ~r.conflict
        /\ IF r.instruction = NoInstruction
           THEN r.revision = 0
           ELSE /\ r.instruction \in Instructions
                /\ r.instruction.from = Author(e) /\ r.instruction.revision = r.revision

FactsOfInstruction ==
    \A e \in Endpoints : \A f \in record[e].facts :
        /\ record[e].instruction # NoInstruction
        /\ f.revision = record[e].revision /\ f.generation = record[e].instruction.generation

\* No record is ever in conflict, and endpoints at the same revision of the same
\* coordinator work on the same instruction: send() saves a revision before it
\* publishes it, so no revision goes to two instructions, whatever is lost,
\* reordered or paused.
Agreement ==
    /\ \A e \in Endpoints : ~record[e].conflict
    /\ \A e, f \in Endpoints :
          /\ record[e].instruction # NoInstruction /\ record[f].instruction # NoInstruction
          /\ Author(e) = Author(f)
          /\ record[e].revision = record[f].revision
          => record[e].instruction = record[f].instruction

\* An instruction that reads as current is the one on record. applicability()
\* compares digests of metadata, not message ids.
ShownIsRecorded ==
    \A e \in Endpoints, m \in sent :
        m.kind = "instruction" /\ m.from = Author(e) /\ Current(record[e], m)
        => record[e].instruction = m

\* When work is applicable, every recorded fact, the acceptance first, is about the
\* current instruction in the current generation: "prior acceptance does not
\* restore applicability" after a pause and a resume.
FactsAreFresh ==
    \A e \in Endpoints :
        LET r == record[e] IN
        ~Halted(r) /\ r.instruction # NoInstruction /\ r.instruction.generation = r.generation
        => \A f \in r.facts : f.revision = r.revision /\ f.generation = r.generation

\* What an endpoint has recorded of its peer for an instruction, the peer recorded
\* of itself: acceptance and implementation evidence, as long as both hold the
\* same instruction. A report is saved by its sender before it is published.
MutualEvidence ==
    \A e \in Endpoints :
        LET f == Other(e) IN
        record[e].instruction # NoInstruction /\ record[e].instruction = record[f].instruction
        => /\ Accepted(record[e], "peer") => Accepted(record[f], "local")
           /\ \A i \in Items : <<"peer", i>> \in evidence[e] => <<"local", i>> \in evidence[f]

\* What a side verified, the other side reported implemented for that instruction;
\* and what an endpoint verified itself, its peer recorded as its own work, even
\* though a later report replaces an earlier one and reports overtake each other.
VerifiedWorkWasDone ==
    \A e \in Endpoints : \A f \in record[e].facts : \A i \in f.items :
        f.kind = "verified" =>
            /\ <<OtherSide(f.side), i>> \in evidence[e]
            /\ f.side = "local" /\ record[Other(e)].instruction = record[e].instruction =>
                  <<"local", i>> \in evidence[Other(e)]

\* "Older delivery/read/restart cannot make an obsolete revision current again": a
\* message of an earlier revision or generation never becomes current.
OutdatedStaysOutdated ==
    [][\A e \in Endpoints, m \in sent :
          m.revision < record[e].revision \/ m.generation < record[e].generation
          => ~Current(record'[e], m)]_vars

\* While an endpoint is paused, by itself or by its peer, no message and no local
\* operation changes its instruction or its facts, and no message ends a local pause.
PauseHolds ==
    [][\A e \in Endpoints :
          /\ record[e].paused \/ record[e].localPause =>
                record'[e].instruction = record[e].instruction /\ record'[e].facts = record[e].facts
          /\ record[e].localPause /\ <<sent, handled>>' # <<sent, handled>> =>
                record'[e].localPause]_vars

=============================================================================
