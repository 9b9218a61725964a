------------------------ MODULE TaskCoordination_proof ------------------------
(***************************************************************************)
(* Proofs about TaskCoordination. What apply() may do to one record is     *)
(* stated in lemmas about a single record; the invariant about the two     *)
(* records and the messages between them uses only those.                  *)
(***************************************************************************)
EXTENDS TaskCoordination, TLAPS

\* What a message must be to be applied to a record of the right type. The
\* acceptance that accept_task() makes up has no id.
Applicable(m) ==
    /\ m.kind = "instruction" => m \in Messages
    /\ m.kind \in {"instruction", "accepted"} \cup Controls \cup Reports
    /\ m.revision \in 0 .. MaxRevision
    /\ m.generation \in 0 .. MaxGeneration
    /\ m.items \in SUBSET Items

LEMMA OtherEndpoint ==
    ASSUME NEW e \in Endpoints
    PROVE  Other(e) \in Endpoints /\ Other(e) # e /\ Other(Other(e)) = e
  BY DEF Endpoints, Other

LEMMA MessagesApply ==
    ASSUME NEW m \in Messages
    PROVE  Applicable(m) /\ m.from \in Endpoints /\ m.id \in 1 .. MaxMessages
  BY DEF Messages, Applicable

\* apply() does at most one of four things.
LEMMA OneEffect ==
    ASSUME NEW r \in Records, NEW m, Applicable(m), NEW e, NEW s \in Sides
    PROVE  /\ Advances(e, r, m, s) =>
                ~Supersedes(e, r, m, s) /\ ~Contradicts(e, r, m, s) /\ ~Reported(e, r, m, s)
           /\ Supersedes(e, r, m, s) => ~Contradicts(e, r, m, s) /\ ~Reported(e, r, m, s)
           /\ Contradicts(e, r, m, s) => ~Reported(e, r, m, s)
  <1>1. r.revision \in Nat /\ m.revision \in Nat
    BY TaskAssumption DEF Records, Applicable
  <1> QED BY <1>1 DEF Advances, Supersedes, Contradicts, Reported, Controls, ReportKinds

\* The record after apply(): its type, and what each field may have become.
LEMMA ApplyEffect ==
    ASSUME NEW r \in Records, NEW m, Applicable(m), NEW e, NEW s \in Sides
    PROVE  /\ Apply(e, r, m, s) \in Records
           /\ Apply(e, r, m, s).localPause = r.localPause
           /\ Supersedes(e, r, m, s) =>
                /\ Apply(e, r, m, s).instruction = m /\ Apply(e, r, m, s).revision = m.revision
                /\ Apply(e, r, m, s).conflict \in BOOLEAN /\ Apply(e, r, m, s).facts = {}
           /\ ~Supersedes(e, r, m, s) =>
                /\ Apply(e, r, m, s).instruction = r.instruction
                /\ Apply(e, r, m, s).revision = r.revision
           /\ ~Supersedes(e, r, m, s) /\ ~Contradicts(e, r, m, s) =>
                Apply(e, r, m, s).conflict = r.conflict
           /\ Advances(e, r, m, s) => Apply(e, r, m, s).generation = m.generation
           /\ ~Advances(e, r, m, s) =>
                Apply(e, r, m, s).generation = r.generation /\ Apply(e, r, m, s).paused = r.paused
           /\ Reported(e, r, m, s) => Apply(e, r, m, s).facts = Noted(r, m, s)
           /\ ~Reported(e, r, m, s) /\ ~Supersedes(e, r, m, s) =>
                Apply(e, r, m, s).facts = r.facts
  <1> SUFFICES ASSUME NEW q, q = Apply(e, r, m, s)
               PROVE  /\ q \in Records
                      /\ q.localPause = r.localPause
                      /\ Supersedes(e, r, m, s) =>
                           /\ q.instruction = m /\ q.revision = m.revision
                           /\ q.conflict \in BOOLEAN /\ q.facts = {}
                      /\ ~Supersedes(e, r, m, s) =>
                           q.instruction = r.instruction /\ q.revision = r.revision
                      /\ ~Supersedes(e, r, m, s) /\ ~Contradicts(e, r, m, s) =>
                           q.conflict = r.conflict
                      /\ Advances(e, r, m, s) => q.generation = m.generation
                      /\ ~Advances(e, r, m, s) => q.generation = r.generation /\ q.paused = r.paused
                      /\ Reported(e, r, m, s) => q.facts = Noted(r, m, s)
                      /\ ~Reported(e, r, m, s) /\ ~Supersedes(e, r, m, s) => q.facts = r.facts
    OBVIOUS
  <1>1. CASE Advances(e, r, m, s)
    <2>1. q = [r EXCEPT !.generation = m.generation, !.paused = (m.kind = "pause")]
      BY <1>1, OneEffect DEF Apply
    <2>2. m.generation \in 0 .. MaxGeneration /\ (m.kind = "pause") \in BOOLEAN
      BY DEF Applicable
    <2> QED BY <1>1, <2>1, <2>2, OneEffect DEF Records
  <1>2. CASE Supersedes(e, r, m, s)
    <2>1. q = [r EXCEPT !.revision = m.revision, !.instruction = m, !.conflict = FALSE, !.facts = {}]
      BY <1>2, OneEffect DEF Apply
    <2>2. m \in Messages /\ m.revision \in 0 .. MaxRevision
      BY <1>2 DEF Supersedes, Applicable
    <2> QED BY <1>2, <2>1, <2>2, OneEffect DEF Records
  <1>3. CASE Contradicts(e, r, m, s)
    <2>1. q = [r EXCEPT !.conflict = TRUE]
      BY <1>3, OneEffect DEF Apply
    <2> QED BY <1>3, <2>1, OneEffect DEF Records
  <1>4. CASE Reported(e, r, m, s)
    <2>1. q = [r EXCEPT !.facts = Noted(r, m, s)]
      BY <1>4, OneEffect DEF Apply
    <2>2. m.kind \in Reports \cup {"accepted"}
      BY <1>4 DEF Reported, Applicable, Controls, ReportKinds
    <2>3. [kind |-> m.kind, side |-> s, revision |-> m.revision, generation |-> m.generation,
           items |-> m.items] \in Facts
      BY <2>2 DEF Facts, Applicable
    <2>4. r.facts \subseteq Facts
      BY DEF Records
    <2>5. Noted(r, m, s) \in SUBSET Facts
      BY <2>3, <2>4 DEF Noted
    <2> QED BY <1>4, <2>1, <2>5, OneEffect DEF Records
  <1>5. CASE /\ ~Advances(e, r, m, s) /\ ~Supersedes(e, r, m, s) /\ ~Contradicts(e, r, m, s)
             /\ ~Reported(e, r, m, s)
    <2>1. q = r
      BY <1>5 DEF Apply
    <2> QED BY <1>5, <2>1
  <1> QED BY <1>1, <1>2, <1>3, <1>4, <1>5

\* The fields of ApplyEffect one at a time, as the proofs below cite them.
LEMMA ApplyType ==
    ASSUME NEW r \in Records, NEW m, Applicable(m), NEW e, NEW s \in Sides
    PROVE  Apply(e, r, m, s) \in Records
  BY ApplyEffect

LEMMA ApplyRevision ==
    ASSUME NEW r \in Records, NEW m, Applicable(m), NEW e, NEW s \in Sides
    PROVE  /\ Supersedes(e, r, m, s) => Apply(e, r, m, s).revision = m.revision
           /\ ~Supersedes(e, r, m, s) => Apply(e, r, m, s).revision = r.revision
  BY ApplyEffect

LEMMA ApplyGeneration ==
    ASSUME NEW r \in Records, NEW m, Applicable(m), NEW e, NEW s \in Sides
    PROVE  /\ Advances(e, r, m, s) => Apply(e, r, m, s).generation = m.generation
           /\ ~Advances(e, r, m, s) => Apply(e, r, m, s).generation = r.generation
  BY ApplyEffect

LEMMA ApplyInstruction ==
    ASSUME NEW r \in Records, NEW m, Applicable(m), NEW e, NEW s \in Sides
    PROVE  /\ Supersedes(e, r, m, s) => Apply(e, r, m, s).instruction = m
           /\ ~Supersedes(e, r, m, s) => Apply(e, r, m, s).instruction = r.instruction
  BY ApplyEffect

LEMMA ApplyFacts ==
    ASSUME NEW r \in Records, NEW m, Applicable(m), NEW e, NEW s \in Sides
    PROVE  /\ Supersedes(e, r, m, s) => Apply(e, r, m, s).facts = {}
           /\ Reported(e, r, m, s) => Apply(e, r, m, s).facts = Noted(r, m, s)
           /\ ~Reported(e, r, m, s) /\ ~Supersedes(e, r, m, s) => Apply(e, r, m, s).facts = r.facts
  BY ApplyEffect

\* A conflict comes only from a contradiction.
LEMMA ApplyConflict ==
    ASSUME NEW r \in Records, NEW m, Applicable(m), NEW e, NEW s \in Sides,
           ~r.conflict, ~Contradicts(e, r, m, s)
    PROVE  ~Apply(e, r, m, s).conflict
  <1> SUFFICES ASSUME NEW q, q = Apply(e, r, m, s)
               PROVE  ~q.conflict
    OBVIOUS
  <1>1. CASE Advances(e, r, m, s)
    <2>1. q = [r EXCEPT !.generation = m.generation, !.paused = (m.kind = "pause")]
      BY <1>1, OneEffect DEF Apply
    <2> QED BY <2>1 DEF Records
  <1>2. CASE Supersedes(e, r, m, s)
    <2>1. q = [r EXCEPT !.revision = m.revision, !.instruction = m, !.conflict = FALSE, !.facts = {}]
      BY <1>2, OneEffect DEF Apply
    <2> QED BY <2>1 DEF Records
  <1>3. CASE Reported(e, r, m, s)
    <2>1. q = [r EXCEPT !.facts = Noted(r, m, s)]
      BY <1>3, OneEffect DEF Apply
    <2> QED BY <2>1 DEF Records
  <1>4. CASE ~Advances(e, r, m, s) /\ ~Supersedes(e, r, m, s) /\ ~Reported(e, r, m, s)
    <2>1. q = r
      BY <1>4 DEF Apply
    <2> QED BY <2>1
  <1> QED BY <1>1, <1>2, <1>3, <1>4

LEMMA EvidenceType ==
    ASSUME TypeOK, NEW e \in Endpoints, NEW m, Applicable(m), NEW s \in Sides, NEW r
    PROVE  EvidenceAfter(e, r, m, s) \in SUBSET (Sides \X Items)
  <1>1. evidence[e] \in SUBSET (Sides \X Items)
    BY DEF TypeOK
  <1>2. m.items \in SUBSET Items
    BY DEF Applicable
  <1>3. ({s} \X m.items) \in SUBSET (Sides \X Items)
    BY <1>2
  <1>4. \/ EvidenceAfter(e, r, m, s) = {}
        \/ EvidenceAfter(e, r, m, s) = evidence[e] \cup ({s} \X m.items)
        \/ EvidenceAfter(e, r, m, s) = evidence[e]
    BY DEF EvidenceAfter
  <1> QED BY <1>1, <1>3, <1>4

-----------------------------------------------------------------------------
(* The steps, as seen by the proofs below: a step either sends a message of   *)
(* an endpoint, or applies one to a record, or does neither.                  *)

\* e sends m and applies it to its own record. A report is one that its own record takes.
Sends(e, m) ==
    /\ m \in Messages /\ m.from = e
    /\ FreshId(m.id)
    /\ m.kind \in Reports => Reported(e, record[e], m, "local")
    /\ m.kind = "instruction" =>
          Supersedes(e, record[e], m, "local") /\ m.revision \in 1 .. MaxRevision
    /\ Post(e, m)

LEMMA SendersSend ==
    ASSUME TypeOK, NEW e \in Endpoints, NEW id \in 1 .. MaxMessages, NEW items \in SUBSET Items
    PROVE  /\ \A revision \in 1 .. MaxRevision : SendInstruction(e, id, revision, items) =>
                  \E m \in Messages : Sends(e, m)
           /\ \A kind \in Controls, generation \in 1 .. MaxGeneration :
                  SendControl(e, id, kind, generation) => \E m \in Messages : Sends(e, m)
           /\ \A kind \in Reports : SendReport(e, id, kind, items) => \E m \in Messages : Sends(e, m)
  <1>0. record[e] \in Records
    BY DEF TypeOK
  <1>00. record[e].revision \in 0 .. MaxRevision /\ record[e].generation \in 0 .. MaxGeneration
    BY <1>0 DEF Records
  <1>1. ASSUME NEW revision \in 1 .. MaxRevision, SendInstruction(e, id, revision, items)
        PROVE  \E m \in Messages : Sends(e, m)
    <2> DEFINE m == [id |-> id, from |-> e, kind |-> "instruction", revision |-> revision,
                     generation |-> record[e].generation, reply |-> 0, items |-> items]
    <2>1. revision \in 0 .. MaxRevision /\ 0 \in 0 .. MaxMessages
      BY TaskAssumption
    <2>2. m \in Messages
      BY <1>00, <2>1 DEF Messages
    <2>3. m.kind \notin Reports
      BY TaskAssumption DEF ReportKinds
    <2>4. Sends(e, m)
      BY <1>1, <2>2, <2>3 DEF SendInstruction, Sends
    <2> QED BY <2>2, <2>4
  <1>2. ASSUME NEW kind \in Controls, NEW generation \in 1 .. MaxGeneration,
               SendControl(e, id, kind, generation)
        PROVE  \E m \in Messages : Sends(e, m)
    <2> DEFINE m == [id |-> id, from |-> e, kind |-> kind, revision |-> record[e].revision,
                     generation |-> generation, reply |-> 0, items |-> {}]
    <2>1. generation \in 0 .. MaxGeneration /\ 0 \in 0 .. MaxMessages /\ {} \in SUBSET Items
      BY TaskAssumption
    <2>2. m \in Messages
      BY <1>00, <2>1 DEF Messages
    <2>3. m.kind # "instruction" /\ m.kind \notin Reports
      BY TaskAssumption DEF Controls, ReportKinds
    <2>4. Sends(e, m)
      BY <1>2, <2>2, <2>3 DEF SendControl, Sends
    <2> QED BY <2>2, <2>4
  <1>3. ASSUME NEW kind \in Reports, SendReport(e, id, kind, items)
        PROVE  \E m \in Messages : Sends(e, m)
    <2> DEFINE m == ReportOf(e, id, kind, items)
    <2>1. record[e].instruction \in Messages
      BY <1>0, <1>3 DEF SendReport, Records
    <2>2. record[e].instruction.id \in 0 .. MaxMessages
      BY <2>1 DEF Messages
    <2>3. m \in Messages
      BY <1>00, <2>2 DEF Messages, ReportOf
    <2>4. m.id = id /\ m.from = e /\ m.kind # "instruction"
      BY TaskAssumption DEF ReportOf, ReportKinds
    <2>5. Sends(e, m)
      BY <1>3, <2>3, <2>4 DEF SendReport, Sends
    <2> QED BY <2>3, <2>5
  <1> QED BY <1>1, <1>2, <1>3

\* What a step can be.
LEMMA Steps ==
    ASSUME TypeOK, [Next]_vars
    PROVE  \/ \E e \in Endpoints : Configure(e) \/ AcceptTask(e)
           \/ \E e \in Endpoints, action \in Controls : TaskControl(e, action)
           \/ \E e \in Endpoints, m \in Messages : Sends(e, m)
           \/ \E m \in sent : Receive(m)
           \/ UNCHANGED vars
  BY SendersSend DEF Next

\* The acceptance that accept_task() makes up.
LEMMA LocalAcceptance ==
    ASSUME TypeOK, NEW e \in Endpoints, record[e].instruction # NoInstruction
    PROVE  Applicable(ReportOf(e, 0, "accepted", record[e].instruction.items))
  <1>1. record[e] \in Records
    BY DEF TypeOK
  <1>2. /\ record[e].instruction \in Messages
        /\ record[e].revision \in 0 .. MaxRevision /\ record[e].generation \in 0 .. MaxGeneration
    BY <1>1 DEF Records
  <1>3. record[e].instruction.items \in SUBSET Items
    BY <1>2 DEF Messages
  <1> QED BY <1>2, <1>3 DEF Applicable, ReportOf

LEMMA TypeInit ==
    ASSUME Init
    PROVE  TypeOK
  <1>1. NewRecord \in Records
    BY TaskAssumption DEF NewRecord, Records
  <1> QED BY <1>1 DEF Init, TypeOK

LEMMA TypeStep ==
    ASSUME TypeOK, [Next]_vars
    PROVE  TypeOK'
  <1>0. \A e \in Endpoints : record[e] \in Records
    BY DEF TypeOK
  <1>1. ASSUME NEW e \in Endpoints, Configure(e) PROVE TypeOK'
    BY <1>1 DEF Configure, TypeOK
  <1>2. ASSUME NEW e \in Endpoints, AcceptTask(e) PROVE TypeOK'
    <2>1. Applicable(ReportOf(e, 0, "accepted", record[e].instruction.items))
      BY <1>2, LocalAcceptance DEF AcceptTask
    <2>2. Apply(e, record[e], ReportOf(e, 0, "accepted", record[e].instruction.items), "local")
            \in Records
      BY <1>0, <2>1, ApplyType DEF Sides
    <2> QED BY <1>2, <2>2 DEF AcceptTask, TypeOK
  <1>3. ASSUME NEW e \in Endpoints, NEW action \in Controls, TaskControl(e, action) PROVE TypeOK'
    <2>1. record[e] \in Records /\ record[e].generation + 1 \in 0 .. MaxGeneration
      BY <1>0, <1>3, TaskAssumption DEF TaskControl, Records
    <2>2. (action = "pause") \in BOOLEAN
      OBVIOUS
    <2>3. [record[e] EXCEPT !.paused = (action = "pause"), !.generation = @ + 1,
                            !.localPause = (action = "pause")] \in Records
      BY <2>1, <2>2 DEF Records
    <2>4. record' = [record EXCEPT ![e] = [record[e] EXCEPT !.paused = (action = "pause"),
                        !.generation = @ + 1, !.localPause = (action = "pause")]]
      BY <1>3 DEF TaskControl, TypeOK
    <2> QED BY <1>3, <2>3, <2>4 DEF TaskControl, TypeOK
  <1>4. ASSUME NEW e \in Endpoints, NEW m \in Messages, Sends(e, m) PROVE TypeOK'
    <2>1. Applicable(m)
      BY MessagesApply
    <2>2. /\ Apply(e, record[e], m, "local") \in Records
          /\ EvidenceAfter(e, record[e], m, "local") \in SUBSET (Sides \X Items)
      BY <1>0, <2>1, ApplyType, EvidenceType DEF Sides
    <2> QED BY <1>4, <2>2 DEF Sends, Post, TypeOK
  <1>5. ASSUME NEW m \in sent, Receive(m) PROVE TypeOK'
    <2>1. m \in Messages
      BY DEF TypeOK
    <2>2. Applicable(m) /\ Other(m.from) \in Endpoints /\ m.id \in 1 .. MaxMessages
      BY <2>1, MessagesApply, OtherEndpoint
    <2>3. /\ Apply(Other(m.from), record[Other(m.from)], m, "peer") \in Records
          /\ EvidenceAfter(Other(m.from), record[Other(m.from)], m, "peer")
                \in SUBSET (Sides \X Items)
      BY <1>0, <2>2, ApplyType, EvidenceType DEF Sides
    <2> QED BY <1>5, <2>2, <2>3 DEF Receive, TypeOK
  <1>6. CASE UNCHANGED vars
    BY <1>6 DEF vars, TypeOK
  <1> QED BY <1>1, <1>2, <1>3, <1>4, <1>5, <1>6, Steps

\* The record and the messages of both endpoints keep their types.
THEOREM TypeCorrect == Spec => []TypeOK
  BY TypeInit, TypeStep, PTL DEF Spec

-----------------------------------------------------------------------------
(* What a step does to the record of one endpoint.                           *)

\* A message that e applies: one of the peer's, one it sends with this very step, or
\* the acceptance of accept_task().
Arrives(e, m, s) ==
    \/ m \in sent /\ m.from = Other(e) /\ s = "peer"
    \/ /\ m \in sent' /\ m.from = e /\ s = "local"
       /\ m.kind = "instruction" => Supersedes(e, record[e], m, s)
    \/ m.kind = "accepted" /\ s = "local"

\* task_control() leaves the instruction and the facts alone, and sends nothing.
Interrupted(e) ==
    /\ record'[e].generation = record[e].generation + 1
    /\ record'[e].revision = record[e].revision
    /\ record'[e].conflict = record[e].conflict
    /\ record'[e].instruction = record[e].instruction
    /\ record'[e].facts = record[e].facts
    /\ UNCHANGED <<sent, handled>> /\ evidence'[e] = evidence[e]

\* Nothing happens to the record of e.
Rests(e) == record'[e] = record[e] /\ evidence'[e] = evidence[e]

\* e applies m, as a message of side s.
Applies(e, m, s) ==
    /\ s \in Sides /\ Applicable(m) /\ Arrives(e, m, s)
    /\ record'[e] = Apply(e, record[e], m, s)
    /\ evidence'[e] = EvidenceAfter(e, record[e], m, s)

LEMMA RecordStep ==
    ASSUME TypeOK, [Next]_vars, NEW e \in Endpoints
    PROVE  Rests(e) \/ Interrupted(e) \/ \E m, s : Applies(e, m, s)
  <1>0. /\ DOMAIN record = Endpoints /\ \A f \in Endpoints : record[f] \in Records
        /\ DOMAIN evidence = Endpoints
    BY DEF TypeOK
  <1>1. ASSUME NEW f \in Endpoints, Configure(f) PROVE Rests(e)
    BY <1>1 DEF Configure, Rests
  <1>2. ASSUME NEW f \in Endpoints, AcceptTask(f)
        PROVE  Rests(e) \/ \E m, s : Applies(e, m, s)
    <2> DEFINE m == ReportOf(f, 0, "accepted", record[f].instruction.items)
    <2>1. Applicable(m)
      BY <1>2, LocalAcceptance DEF AcceptTask
    <2>2. m.kind = "accepted" /\ "local" \in Sides
      BY DEF ReportOf, Sides
    <2>3. record' = [record EXCEPT ![f] = Apply(f, record[f], m, "local")] /\ evidence' = evidence
      BY <1>2 DEF AcceptTask
    <2>4. CASE e = f
      <3>1. record'[e] = Apply(e, record[e], m, "local")
        BY <1>0, <2>3, <2>4
      <3>2. Arrives(e, m, "local")
        BY <2>2 DEF Arrives
      <3> HIDE DEF m
      <3>3. EvidenceAfter(e, record[e], m, "local") = evidence[e]
        <4>1. ~Supersedes(e, record[e], m, "local")
          BY <2>2 DEF Supersedes
        <4> QED BY <2>2, <4>1 DEF EvidenceAfter
      <3>4. Applies(e, m, "local")
        BY <2>1, <2>2, <2>3, <3>1, <3>2, <3>3 DEF Applies
      <3> QED BY <3>4
    <2>5. CASE e # f
      BY <1>0, <2>3, <2>5 DEF Rests
    <2> QED BY <2>4, <2>5
  <1>3. ASSUME NEW f \in Endpoints, NEW action \in Controls, TaskControl(f, action)
        PROVE  Rests(e) \/ Interrupted(e)
    <2>1. CASE e = f
      <3>1. record[e] \in Records
        BY <1>0
      <3>2. record' = [record EXCEPT ![e] = [record[e] EXCEPT !.paused = (action = "pause"),
                          !.generation = @ + 1, !.localPause = (action = "pause")]]
        BY <1>0, <1>3, <2>1 DEF TaskControl
      <3>3. record'[e] = [record[e] EXCEPT !.paused = (action = "pause"),
                          !.generation = @ + 1, !.localPause = (action = "pause")]
        BY <1>0, <3>2
      <3>4. /\ record'[e].generation = record[e].generation + 1
            /\ record'[e].revision = record[e].revision
            /\ record'[e].conflict = record[e].conflict
            /\ record'[e].instruction = record[e].instruction
            /\ record'[e].facts = record[e].facts
        BY <3>1, <3>3 DEF Records
      <3>5. UNCHANGED <<sent, handled>> /\ evidence'[e] = evidence[e]
        BY <1>3 DEF TaskControl
      <3> QED BY <3>4, <3>5 DEF Interrupted
    <2>2. CASE e # f
      BY <1>0, <1>3, <2>2 DEF TaskControl, Rests
    <2> QED BY <2>1, <2>2
  <1>4. ASSUME NEW f \in Endpoints, NEW m \in Messages, Sends(f, m)
        PROVE  Rests(e) \/ \E n, s : Applies(e, n, s)
    <2>1. CASE e = f
      <3>1. Applicable(m) /\ "local" \in Sides
        BY MessagesApply DEF Sides
      <3>2. /\ record'[e] = Apply(e, record[e], m, "local")
            /\ evidence'[e] = EvidenceAfter(e, record[e], m, "local")
        BY <1>0, <1>4, <2>1 DEF Sends, Post
      <3>3. Arrives(e, m, "local")
        BY <1>4, <2>1 DEF Sends, Post, Arrives
      <3>4. Applies(e, m, "local")
        BY <3>1, <3>2, <3>3 DEF Applies
      <3> QED BY <3>4
    <2>2. CASE e # f
      BY <1>0, <1>4, <2>2 DEF Sends, Post, Rests
    <2> QED BY <2>1, <2>2
  <1>5. ASSUME NEW m \in sent, Receive(m)
        PROVE  Rests(e) \/ \E n, s : Applies(e, n, s)
    <2>1. m \in Messages /\ Applicable(m) /\ m.from \in Endpoints /\ "peer" \in Sides
      BY MessagesApply DEF TypeOK, Sides
    <2>2. CASE e = Other(m.from) /\ e \in configured
      <3>1. /\ record'[e] = Apply(e, record[e], m, "peer")
            /\ evidence'[e] = EvidenceAfter(e, record[e], m, "peer")
        BY <1>0, <1>5, <2>2 DEF Receive
      <3>2. Arrives(e, m, "peer")
        BY <2>1, <2>2, OtherEndpoint DEF Arrives
      <3>3. Applies(e, m, "peer")
        BY <2>1, <3>1, <3>2 DEF Applies
      <3> QED BY <3>3
    <2>3. CASE ~(e = Other(m.from) /\ e \in configured)
      BY <1>0, <1>5, <2>3 DEF Receive, Rests
    <2> QED BY <2>2, <2>3
  <1>6. CASE UNCHANGED vars
    BY <1>6 DEF vars, Rests
  <1> QED BY <1>1, <1>2, <1>3, <1>4, <1>5, <1>6, Steps

\* Revisions and generations of a record only grow.
LEMMA RecordGrows ==
    ASSUME TypeOK, [Next]_vars, NEW e \in Endpoints
    PROVE  /\ record[e].revision <= record'[e].revision
           /\ record[e].generation <= record'[e].generation
  <1>1. record[e] \in Records
    BY DEF TypeOK
  <1>2. record[e].revision \in Nat /\ record[e].generation \in Nat
    BY <1>1, TaskAssumption DEF Records
  <1>3. CASE record'[e] = record[e]
    BY <1>2, <1>3
  <1>4. CASE Interrupted(e)
    BY <1>2, <1>4 DEF Interrupted
  <1>5. ASSUME NEW m, NEW s, s \in Sides, Applicable(m), record'[e] = Apply(e, record[e], m, s)
        PROVE  /\ record[e].revision <= record'[e].revision
               /\ record[e].generation <= record'[e].generation
    <2>1. m.revision \in Nat /\ m.generation \in Nat
      BY <1>5, TaskAssumption DEF Applicable
    <2>2. Supersedes(e, record[e], m, s) => record[e].revision <= m.revision
      BY <1>2, <2>1 DEF Supersedes
    <2>3. Advances(e, record[e], m, s) => m.generation = record[e].generation + 1
      BY DEF Advances
    <2>4. /\ Supersedes(e, record[e], m, s) => record'[e].revision = m.revision
          /\ ~Supersedes(e, record[e], m, s) => record'[e].revision = record[e].revision
          /\ Advances(e, record[e], m, s) => record'[e].generation = m.generation
          /\ ~Advances(e, record[e], m, s) => record'[e].generation = record[e].generation
      BY <1>1, <1>5, ApplyRevision, ApplyGeneration
    <2> QED BY <1>2, <2>1, <2>2, <2>3, <2>4
  <1> QED BY <1>3, <1>4, <1>5, RecordStep DEF Rests, Applies

\* A message of an earlier revision or generation never becomes current.
THEOREM ObsoleteForEver == Spec => OutdatedStaysOutdated
  <1>1. ASSUME TypeOK, [Next]_vars, TypeOK'
        PROVE  [\A e \in Endpoints, m \in sent :
                    m.revision < record[e].revision \/ m.generation < record[e].generation
                    => ~Current(record'[e], m)]_vars
    <2> SUFFICES ASSUME NEW e \in Endpoints, NEW m \in sent,
                        m.revision < record[e].revision \/ m.generation < record[e].generation
                 PROVE  ~Current(record'[e], m)
      OBVIOUS
    <2>1. m \in Messages /\ record[e] \in Records /\ record'[e] \in Records
      BY <1>1 DEF TypeOK
    <2>2. /\ m.revision \in Nat /\ m.generation \in Nat
          /\ record[e].revision \in Nat /\ record[e].generation \in Nat
          /\ record'[e].revision \in Nat /\ record'[e].generation \in Nat
      BY <2>1, TaskAssumption DEF Messages, Records
    <2>3. record[e].revision <= record'[e].revision /\ record[e].generation <= record'[e].generation
      BY <1>1, RecordGrows
    <2> QED BY <2>2, <2>3 DEF Current
  <1> QED BY <1>1, TypeCorrect, PTL DEF Spec, OutdatedStaysOutdated

\* While an endpoint is paused its instruction and its facts stay, and no message
\* that is sent or received ends a local pause.
THEOREM PausesHold == Spec => PauseHolds
  <1>1. ASSUME TypeOK, [Next]_vars
        PROVE  [\A e \in Endpoints :
                  /\ record[e].paused \/ record[e].localPause =>
                        record'[e].instruction = record[e].instruction /\ record'[e].facts = record[e].facts
                  /\ record[e].localPause /\ <<sent, handled>>' # <<sent, handled>> =>
                        record'[e].localPause]_vars
    <2> SUFFICES ASSUME NEW e \in Endpoints
                 PROVE  /\ record[e].paused \/ record[e].localPause =>
                              /\ record'[e].instruction = record[e].instruction
                              /\ record'[e].facts = record[e].facts
                        /\ record[e].localPause /\ <<sent, handled>>' # <<sent, handled>> =>
                              record'[e].localPause
      OBVIOUS
    <2>1. record[e] \in Records
      BY <1>1 DEF TypeOK
    <2>2. CASE record'[e] = record[e]
      BY <2>2
    <2>3. CASE Interrupted(e)
      BY <2>3 DEF Interrupted
    <2>4. ASSUME NEW m, NEW s, s \in Sides, Applicable(m), record'[e] = Apply(e, record[e], m, s)
          PROVE  /\ record'[e].localPause = record[e].localPause
                 /\ record[e].paused \/ record[e].localPause =>
                       /\ record'[e].instruction = record[e].instruction
                       /\ record'[e].facts = record[e].facts
      <3>1. record[e].paused \/ record[e].localPause =>
               ~Supersedes(e, record[e], m, s) /\ ~Reported(e, record[e], m, s)
        BY DEF Supersedes, Reported, Current, Halted
      <3>2. /\ record'[e].localPause = record[e].localPause
            /\ ~Supersedes(e, record[e], m, s) => record'[e].instruction = record[e].instruction
            /\ ~Reported(e, record[e], m, s) /\ ~Supersedes(e, record[e], m, s) =>
                  record'[e].facts = record[e].facts
        BY <2>1, <2>4, ApplyEffect
      <3> QED BY <3>1, <3>2
    <2> QED BY <1>1, <2>2, <2>3, <2>4, RecordStep DEF Rests, Applies
  <1> QED BY <1>1, TypeCorrect, PTL DEF Spec, PauseHolds

-----------------------------------------------------------------------------
(* The agreement of the two records.                                         *)

TaskInv == TypeOK /\ RevisionsReserved /\ RecordsFollowAuthor /\ FactsOfInstruction

\* What a step adds to the messages sent: at most one, sent by its author.
LEMMA SentStep ==
    ASSUME TypeOK, [Next]_vars
    PROVE  /\ sent \subseteq sent'
           /\ \A m \in sent' \ sent : Sends(m.from, m)
           /\ \A m, n \in sent' \ sent : m = n
  <1>1. ASSUME NEW e \in Endpoints, NEW m \in Messages, Sends(e, m)
        PROVE  m.from = e /\ sent' = sent \cup {m}
    BY <1>1 DEF Sends, Post
  <1>2. CASE sent' = sent
    BY <1>2
  <1>3. CASE \E e \in Endpoints, m \in Messages : Sends(e, m)
    BY <1>1, <1>3
  <1> QED BY <1>2, <1>3, Steps DEF Configure, AcceptTask, TaskControl, Receive, vars

\* An instruction that is applied to the record of e and is taken for one of the
\* coordinator was sent by the author of e.
LEMMA FromAuthor ==
    ASSUME NEW e \in Endpoints, NEW m, NEW s \in Sides, Arrives(e, m, s),
           m.kind = "instruction", "coordinator" \in Roles[e][s]
    PROVE  m.from = Author(e)
  BY TaskAssumption DEF Arrives, Author, Sides

\* No instruction contradicts the one on record.
LEMMA NoContradiction ==
    ASSUME TaskInv, NEW e \in Endpoints, NEW m, NEW s \in Sides, Applicable(m), Arrives(e, m, s)
    PROVE  ~Contradicts(e, record[e], m, s)
  <1> SUFFICES ASSUME Contradicts(e, record[e], m, s)
               PROVE  FALSE
    OBVIOUS
  <1>1. /\ m.kind = "instruction" /\ "coordinator" \in Roles[e][s]
        /\ m.revision = record[e].revision
        /\ record[e].instruction # NoInstruction /\ m # record[e].instruction
    BY DEF Contradicts
  <1>2. ~Supersedes(e, record[e], m, s)
    BY OneEffect DEF TaskInv, TypeOK
  <1>3. m \in Instructions
    BY <1>1, <1>2 DEF Arrives, Instructions
  <1>4. m.from = Author(e)
    BY <1>1, FromAuthor
  <1>5. /\ record[e].instruction \in Instructions
        /\ record[e].instruction.from = Author(e)
        /\ record[e].instruction.revision = record[e].revision
    BY <1>1 DEF TaskInv, RecordsFollowAuthor
  <1>6. m = record[e].instruction
    BY <1>1, <1>3, <1>4, <1>5 DEF TaskInv, RevisionsReserved
  <1> QED BY <1>1, <1>6

LEMMA FollowsAuthor ==
    ASSUME TaskInv, [Next]_vars
    PROVE  RecordsFollowAuthor'
  <1> SUFFICES ASSUME NEW e \in Endpoints
               PROVE  /\ ~record'[e].conflict
                      /\ record'[e].instruction = NoInstruction => record'[e].revision = 0
                      /\ record'[e].instruction # NoInstruction =>
                            /\ record'[e].instruction \in Instructions'
                            /\ record'[e].instruction.from = Author(e)
                            /\ record'[e].instruction.revision = record'[e].revision
    BY DEF RecordsFollowAuthor, Author
  <1>1. TypeOK /\ record[e] \in Records
    BY DEF TaskInv, TypeOK
  <1>2. Instructions \subseteq Instructions'
    BY <1>1, SentStep DEF Instructions
  <1>3. /\ ~record[e].conflict
        /\ record[e].instruction = NoInstruction => record[e].revision = 0
        /\ record[e].instruction # NoInstruction =>
              /\ record[e].instruction \in Instructions'
              /\ record[e].instruction.from = Author(e)
              /\ record[e].instruction.revision = record[e].revision
    BY <1>2 DEF TaskInv, RecordsFollowAuthor
  <1>4. CASE record'[e] = record[e]
    BY <1>3, <1>4
  <1>5. CASE Interrupted(e)
    BY <1>3, <1>5 DEF Interrupted
  <1>6. ASSUME NEW m, NEW s, s \in Sides, Applicable(m), Arrives(e, m, s),
               record'[e] = Apply(e, record[e], m, s)
        PROVE  /\ ~record'[e].conflict
               /\ record'[e].instruction = NoInstruction => record'[e].revision = 0
               /\ record'[e].instruction # NoInstruction =>
                     /\ record'[e].instruction \in Instructions'
                     /\ record'[e].instruction.from = Author(e)
                     /\ record'[e].instruction.revision = record'[e].revision
    <2>1. ~record'[e].conflict
      BY <1>1, <1>3, <1>6, NoContradiction, ApplyConflict
    <2>2. CASE Supersedes(e, record[e], m, s)
      <3>1. record'[e].instruction = m /\ record'[e].revision = m.revision
        BY <1>1, <1>6, <2>2, ApplyInstruction, ApplyRevision
      <3>2. m.kind = "instruction" /\ "coordinator" \in Roles[e][s]
        BY <2>2 DEF Supersedes
      <3>3. m \in Instructions'
        BY <1>1, <1>6, <3>2, SentStep DEF Arrives, Instructions
      <3>4. m.from = Author(e)
        BY <1>6, <3>2, FromAuthor
      <3>5. m # NoInstruction
        BY <1>6, <3>2, TaskAssumption DEF Applicable
      <3> QED BY <2>1, <3>1, <3>3, <3>4, <3>5
    <2>3. CASE ~Supersedes(e, record[e], m, s)
      <3>1. record'[e].instruction = record[e].instruction /\ record'[e].revision = record[e].revision
        BY <1>1, <1>6, <2>3, ApplyInstruction, ApplyRevision
      <3> QED BY <1>3, <2>1, <3>1
    <2> QED BY <2>2, <2>3
  <1> QED BY <1>1, <1>4, <1>5, <1>6, RecordStep DEF Rests, Applies

\* A new instruction has a revision of its own.
LEMMA Reserved ==
    ASSUME TaskInv, [Next]_vars
    PROVE  RevisionsReserved'
  <1>1. TypeOK /\ sent \subseteq Messages
    BY DEF TaskInv, TypeOK
  <1>2. ASSUME NEW m \in Instructions' \ Instructions
        PROVE  /\ m.from \in Endpoints /\ m.revision \in 1 .. MaxRevision
               /\ m.revision = record'[m.from].revision
               /\ \A n \in Instructions : n.from = m.from => n.revision < m.revision
    <2>1. Sends(m.from, m) /\ m.kind = "instruction"
      BY <1>1, SentStep DEF Instructions
    <2>2. /\ m \in Messages /\ m.from \in Endpoints /\ m.revision \in 1 .. MaxRevision
          /\ Supersedes(m.from, record[m.from], m, "local")
          /\ Applicable(m) /\ "local" \in Sides
      BY <2>1, MessagesApply DEF Sends, Sides
    <2>3. record[m.from] \in Records /\ record[m.from].revision \in Nat /\ m.revision \in Nat
      BY <1>1, <2>2, TaskAssumption DEF TypeOK, Records
    <2>4. record'[m.from] = Apply(m.from, record[m.from], m, "local")
      BY <1>1, <2>1, <2>2 DEF Sends, Post, TypeOK
    <2>5. record'[m.from].revision = m.revision
      BY <2>2, <2>3, <2>4, ApplyRevision
    <2>6. record[m.from].revision < m.revision
      BY <2>2, <2>3 DEF Supersedes, TaskInv, RecordsFollowAuthor
    <2>7. ASSUME NEW n \in Instructions, n.from = m.from
          PROVE  n.revision < m.revision
      <3>1. n.revision \in Nat
        BY <1>1, TaskAssumption DEF Instructions, Messages
      <3>2. n.revision <= record[m.from].revision
        BY <2>7 DEF TaskInv, RevisionsReserved
      <3> QED BY <2>3, <2>6, <3>1, <3>2
    <2> QED BY <2>2, <2>5, <2>7
  <1>3. ASSUME NEW m \in Instructions'
        PROVE  m.revision > 0 /\ m.revision <= record'[m.from].revision
    <2>1. CASE m \in Instructions
      <3>1. m \in Messages /\ m.from \in Endpoints
        BY <1>1, <2>1, MessagesApply DEF Instructions
      <3>2. m.revision > 0 /\ m.revision <= record[m.from].revision
        BY <2>1 DEF TaskInv, RevisionsReserved
      <3>3. record[m.from].revision <= record'[m.from].revision
        BY <1>1, <3>1, RecordGrows
      <3>4. TypeOK'
        BY <1>1, TypeStep
      <3>5. /\ m.revision \in Nat /\ record[m.from].revision \in Nat
            /\ record'[m.from].revision \in Nat
        BY <1>1, <3>1, <3>4, TaskAssumption DEF TypeOK, Records, Messages
      <3> QED BY <3>2, <3>3, <3>5
    <2>2. CASE m \notin Instructions
      BY <1>2, <2>2, TaskAssumption
    <2> QED BY <2>1, <2>2
  <1>4. ASSUME NEW m \in Instructions', NEW n \in Instructions',
               m.from = n.from, m.revision = n.revision
        PROVE  m = n
    <2>1. CASE m \in Instructions /\ n \in Instructions
      BY <1>4, <2>1 DEF TaskInv, RevisionsReserved
    <2>2. CASE m \notin Instructions /\ n \notin Instructions
      BY <1>1, <2>2, SentStep DEF Instructions
    <2>3. CASE m \in Instructions <=> n \notin Instructions
      <3>1. m.revision \in Nat /\ n.revision \in Nat
        BY <1>1, <1>2, <2>3, <1>4, TaskAssumption DEF Instructions, Messages
      <3> QED BY <1>2, <1>4, <2>3, <3>1
    <2> QED BY <2>1, <2>2, <2>3
  <1> QED BY <1>3, <1>4 DEF RevisionsReserved

\* A report is recorded only about the instruction that is current.
LEMMA FactsFollow ==
    ASSUME TaskInv, [Next]_vars
    PROVE  FactsOfInstruction'
  <1> SUFFICES ASSUME NEW e \in Endpoints, NEW f \in record'[e].facts
               PROVE  /\ record'[e].instruction # NoInstruction
                      /\ f.revision = record'[e].revision
                      /\ f.generation = record'[e].instruction.generation
    BY DEF FactsOfInstruction
  <1>1. TypeOK /\ record[e] \in Records
    BY DEF TaskInv, TypeOK
  <1>2. ASSUME f \in record[e].facts, record'[e].instruction = record[e].instruction,
               record'[e].revision = record[e].revision
        PROVE  /\ record'[e].instruction # NoInstruction
               /\ f.revision = record'[e].revision
               /\ f.generation = record'[e].instruction.generation
    BY <1>2 DEF TaskInv, FactsOfInstruction
  <1>3. CASE record'[e] = record[e]
    BY <1>2, <1>3
  <1>4. CASE Interrupted(e)
    BY <1>2, <1>4 DEF Interrupted
  <1>5. ASSUME NEW m, NEW s, s \in Sides, Applicable(m), record'[e] = Apply(e, record[e], m, s)
        PROVE  /\ record'[e].instruction # NoInstruction
               /\ f.revision = record'[e].revision
               /\ f.generation = record'[e].instruction.generation
    <2>1. ~Supersedes(e, record[e], m, s)
      BY <1>1, <1>5, ApplyFacts
    <2>2. record'[e].instruction = record[e].instruction /\ record'[e].revision = record[e].revision
      BY <1>1, <1>5, <2>1, ApplyInstruction, ApplyRevision
    <2>3. CASE Reported(e, record[e], m, s)
      <3>1. /\ record[e].instruction # NoInstruction /\ m.revision = record[e].revision
            /\ m.generation = record[e].instruction.generation
        BY <2>3 DEF Reported, Current
      <3>2. f \in Noted(record[e], m, s)
        BY <1>1, <1>5, <2>3, ApplyFacts
      <3>3. f \in record[e].facts \/ (f.revision = m.revision /\ f.generation = m.generation)
        BY <3>2 DEF Noted
      <3> QED BY <1>2, <2>2, <3>1, <3>3
    <2>4. CASE ~Reported(e, record[e], m, s)
      BY <1>1, <1>2, <1>5, <2>1, <2>2, <2>4, ApplyFacts
    <2> QED BY <2>3, <2>4
  <1> QED BY <1>1, <1>3, <1>4, <1>5, RecordStep DEF Rests, Applies

LEMMA TaskInvariant == Spec => []TaskInv
  <1>1. Init => TaskInv
    <2> SUFFICES ASSUME Init
                 PROVE  TaskInv
      OBVIOUS
    <2>1. TypeOK
      BY TypeInit
    <2>2. RevisionsReserved /\ RecordsFollowAuthor /\ FactsOfInstruction
      BY DEF Init, NewRecord, RevisionsReserved, Instructions, RecordsFollowAuthor, FactsOfInstruction
    <2> QED BY <2>1, <2>2 DEF TaskInv
  <1>2. TaskInv /\ [Next]_vars => TaskInv'
    BY TypeStep, Reserved, FollowsAuthor, FactsFollow DEF TaskInv
  <1> QED BY <1>1, <1>2, PTL DEF Spec

\* Two endpoints with the same coordinator and the same revision hold the same
\* instruction, and neither record is ever in conflict.
THEOREM RecordsAgree == Spec => []Agreement
  <1>1. TaskInv => Agreement
    BY DEF TaskInv, Agreement, RecordsFollowAuthor, RevisionsReserved
  <1> QED BY <1>1, TaskInvariant, PTL

\* An instruction of the coordinator that reads as current is the one on record,
\* although only digests are compared.
THEOREM CurrentIsRecorded == Spec => []ShownIsRecorded
  <1>1. TaskInv => ShownIsRecorded
    <2> SUFFICES ASSUME TaskInv, NEW e \in Endpoints, NEW m \in sent,
                        m.kind = "instruction", m.from = Author(e), Current(record[e], m)
                 PROVE  record[e].instruction = m
      BY DEF ShownIsRecorded
    <2>1. record[e].instruction # NoInstruction /\ m.revision = record[e].revision
      BY DEF Current
    <2>2. /\ record[e].instruction \in Instructions
          /\ record[e].instruction.from = Author(e)
          /\ record[e].instruction.revision = record[e].revision
      BY <2>1 DEF TaskInv, RecordsFollowAuthor
    <2> QED BY <2>1, <2>2 DEF TaskInv, RevisionsReserved, Instructions
  <1> QED BY <1>1, TaskInvariant, PTL

\* When work is applicable, no recorded fact, and so no acceptance, is left from an
\* earlier revision or generation.
THEOREM AcceptanceIsFresh == Spec => []FactsAreFresh
  <1>1. TaskInv => FactsAreFresh
    BY DEF TaskInv, FactsAreFresh, FactsOfInstruction
  <1> QED BY <1>1, TaskInvariant, PTL

-----------------------------------------------------------------------------
(* The evidence of both records.                                             *)

\* A report was recorded by its sender before it was published, about an instruction that the
\* sender may have left since, and never takes up again.
IdsUnique == \A m, n \in sent : m.id = n.id => m = n

SenderHas(m) ==
    /\ m.kind = "accepted" => Accepted(record[m.from], "local")
    /\ m.kind = "implemented" => \A i \in m.items : <<"local", i>> \in evidence[m.from]

ReportsRecorded ==
    \A m \in sent : m.kind \in Reports =>
        \E n \in Instructions :
            /\ n.id = m.reply /\ n.revision <= record[m.from].revision
            /\ record[m.from].instruction = n => SenderHas(m)

\* What a record holds of the peer, the peer reported about the instruction on record.
PeerReport(e, m, kind) == m.from = Other(e) /\ m.kind = kind /\ m.reply = record[e].instruction.id

PeerReported ==
    \A e \in Endpoints :
        /\ Accepted(record[e], "peer") => \E m \in sent : PeerReport(e, m, "accepted")
        /\ \A i \in Items : <<"peer", i>> \in evidence[e] =>
              \E m \in sent : PeerReport(e, m, "implemented") /\ i \in m.items

\* Facts of implementation and verification rest on evidence for the instruction on record.
EvidenceKept ==
    \A e \in Endpoints : \A f \in record[e].facts : \A i \in f.items :
        /\ f.kind = "implemented" => <<f.side, i>> \in evidence[e]
        /\ f.kind = "verified" => <<OtherSide(f.side), i>> \in evidence[e]

EvidenceInv == IdsUnique /\ ReportsRecorded /\ PeerReported /\ EvidenceKept

\* A report adds its side's acceptance, or none, and takes none away.
LEMMA NotedAcceptance ==
    ASSUME NEW r, NEW q, NEW m, NEW s, NEW x, q.facts = Noted(r, m, s)
    PROVE  /\ Accepted(r, x) => Accepted(q, x)
           /\ m.kind = "accepted" => Accepted(q, s)
           /\ Accepted(q, x) => Accepted(r, x) \/ (m.kind = "accepted" /\ s = x)
  <1>1. CASE m.kind = "progress"
    BY <1>1 DEF Noted, Accepted
  <1>2. CASE m.kind # "progress"
    <2> DEFINE g == [kind |-> m.kind, side |-> s, revision |-> m.revision, generation |-> m.generation,
                     items |-> m.items]
    <2>1. q.facts = (r.facts \ Replaced(r, m.kind, s)) \cup {g} /\ g.kind = m.kind /\ g.side = s
      BY <1>2 DEF Noted
    <2> HIDE DEF g
    <2>2. ASSUME NEW f \in r.facts, f.kind = "accepted", f.side = x
          PROVE  \E h \in q.facts : h.kind = "accepted" /\ h.side = x
      <3>1. CASE f \notin Replaced(r, m.kind, s)
        BY <2>1, <2>2, <3>1
      <3>2. CASE f \in Replaced(r, m.kind, s)
        BY <2>1, <2>2, <3>2 DEF Replaced
      <3> QED BY <3>1, <3>2
    <2>3. ASSUME NEW h \in q.facts, h.kind = "accepted", h.side = x
          PROVE  (\E f \in r.facts : f.kind = "accepted" /\ f.side = x) \/ (m.kind = "accepted" /\ s = x)
      BY <2>1, <2>3
    <2> QED BY <2>1, <2>2, <2>3 DEF Accepted
  <1> QED BY <1>1, <1>2

\* What a report adds to the evidence; nothing else adds to it.
LEMMA EvidenceEffect ==
    ASSUME NEW e, NEW r \in Records, NEW m, Applicable(m), NEW s \in Sides
    PROVE  /\ Supersedes(e, r, m, s) => EvidenceAfter(e, r, m, s) = {}
           /\ Reported(e, r, m, s) /\ m.kind = "implemented" =>
                 EvidenceAfter(e, r, m, s) = evidence[e] \cup ({s} \X m.items)
           /\ ~Supersedes(e, r, m, s) /\ ~(Reported(e, r, m, s) /\ m.kind = "implemented") =>
                 EvidenceAfter(e, r, m, s) = evidence[e]
  BY OneEffect DEF EvidenceAfter

\* What applying a message may do to acceptances and evidence, unless it is another instruction.
LEMMA AppliedEvidence ==
    ASSUME TypeOK, NEW e \in Endpoints, NEW m, NEW s, Applies(e, m, s), NEW x \in Sides
    PROVE  /\ Supersedes(e, record[e], m, s) => evidence'[e] = {} /\ record'[e].facts = {}
           /\ ~Supersedes(e, record[e], m, s) =>
                 /\ evidence[e] \subseteq evidence'[e]
                 /\ Accepted(record[e], x) => Accepted(record'[e], x)
                 /\ Reported(e, record[e], m, s) /\ m.kind = "accepted" => Accepted(record'[e], s)
                 /\ Reported(e, record[e], m, s) /\ m.kind = "implemented" =>
                       \A i \in m.items : <<s, i>> \in evidence'[e]
                 /\ Accepted(record'[e], x) =>
                       \/ Accepted(record[e], x)
                       \/ Reported(e, record[e], m, s) /\ m.kind = "accepted" /\ s = x
                 /\ \A i : <<x, i>> \in evidence'[e] =>
                       \/ <<x, i>> \in evidence[e]
                       \/ Reported(e, record[e], m, s) /\ m.kind = "implemented" /\ s = x /\ i \in m.items
  <1>1. record[e] \in Records /\ s \in Sides /\ Applicable(m)
    BY DEF TypeOK, Applies
  <1>2. CASE Supersedes(e, record[e], m, s)
    <2>1. record'[e].facts = {}
      BY <1>1, <1>2, ApplyFacts DEF Applies
    <2>2. evidence'[e] = {}
      BY <1>1, <1>2, EvidenceEffect DEF Applies
    <2> QED BY <1>2, <2>1, <2>2
  <1>3. CASE ~Supersedes(e, record[e], m, s)
    <2>1. CASE ~Reported(e, record[e], m, s)
      <3>1. record'[e].facts = record[e].facts /\ evidence'[e] = evidence[e]
        BY <1>1, <1>3, <2>1, ApplyFacts, EvidenceEffect DEF Applies
      <3> QED BY <1>3, <2>1, <3>1 DEF Accepted
    <2>2. CASE Reported(e, record[e], m, s)
      <3>1. record'[e].facts = Noted(record[e], m, s)
        BY <1>1, <2>2, ApplyFacts DEF Applies
      <3>2. /\ Accepted(record[e], x) => Accepted(record'[e], x)
            /\ m.kind = "accepted" => Accepted(record'[e], s)
            /\ Accepted(record'[e], x) => Accepted(record[e], x) \/ (m.kind = "accepted" /\ s = x)
        BY <3>1, NotedAcceptance
      <3>3. /\ evidence[e] \subseteq evidence'[e]
            /\ m.kind = "implemented" => \A i \in m.items : <<s, i>> \in evidence'[e]
            /\ \A i : <<x, i>> \in evidence'[e] =>
                  <<x, i>> \in evidence[e] \/ (m.kind = "implemented" /\ s = x /\ i \in m.items)
        <4>1. CASE m.kind = "implemented"
          <5>1. evidence'[e] = evidence[e] \cup ({s} \X m.items)
            BY <1>1, <2>2, <4>1, EvidenceEffect DEF Applies
          <5> QED BY <4>1, <5>1
        <4>2. CASE m.kind # "implemented"
          <5>1. evidence'[e] = evidence[e]
            BY <1>1, <1>3, <4>2, EvidenceEffect DEF Applies
          <5> QED BY <4>2, <5>1
        <4> QED BY <4>1, <4>2
      <3> QED BY <1>3, <2>2, <3>2, <3>3
    <2> QED BY <2>1, <2>2
  <1> QED BY <1>2, <1>3

\* An instruction that a record has passed is not taken up again, and one that stays keeps
\* what was recorded about it.
LEMMA InstructionStays ==
    ASSUME TaskInv, [Next]_vars, NEW e \in Endpoints, NEW n \in Instructions, NEW x \in Sides,
           n.revision <= record[e].revision, record'[e].instruction = n
    PROVE  /\ record[e].instruction = n
           /\ Accepted(record[e], x) => Accepted(record'[e], x)
           /\ evidence[e] \subseteq evidence'[e]
  <1>0. TypeOK /\ record[e] \in Records /\ n \in Messages
    BY DEF TaskInv, TypeOK, Instructions
  <1>1. CASE Rests(e)
    BY <1>1 DEF Rests
  <1>2. CASE Interrupted(e)
    BY <1>2 DEF Interrupted, Accepted
  <1>3. ASSUME NEW m, NEW s, Applies(e, m, s)
        PROVE  /\ record[e].instruction = n
               /\ Accepted(record[e], x) => Accepted(record'[e], x)
               /\ evidence[e] \subseteq evidence'[e]
    <2>1. ~Supersedes(e, record[e], m, s)
      <3> SUFFICES ASSUME Supersedes(e, record[e], m, s)
                   PROVE  FALSE
        OBVIOUS
      <3>1. m = n
        BY <1>0, <1>3, ApplyInstruction DEF Applies
      <3>2. record[e].instruction = NoInstruction => record[e].revision = 0
        BY DEF TaskInv, RecordsFollowAuthor
      <3>3. n.revision > 0
        BY DEF TaskInv, RevisionsReserved
      <3>4. n.revision \in Nat /\ record[e].revision \in Nat
        BY <1>0, TaskAssumption DEF Messages, Records
      <3> QED BY <3>1, <3>2, <3>3, <3>4 DEF Supersedes
    <2>2. record'[e].instruction = record[e].instruction
      BY <1>0, <1>3, <2>1, ApplyInstruction DEF Applies
    <2> QED BY <1>0, <1>3, <2>1, <2>2, AppliedEvidence
  <1> QED BY <1>0, <1>1, <1>2, <1>3, RecordStep

LEMMA IdsStep == TaskInv /\ IdsUnique /\ [Next]_vars => IdsUnique'
  <1> SUFFICES ASSUME TaskInv, IdsUnique, [Next]_vars, NEW m \in sent', NEW n \in sent', m.id = n.id
               PROVE  m = n
    BY DEF IdsUnique
  <1>1. TypeOK /\ sent \subseteq Messages
    BY DEF TaskInv, TypeOK
  <1>2. ASSUME NEW x \in sent', x \notin sent, NEW y \in sent
        PROVE  x.id # y.id
    <2>1. FreshId(x.id) /\ x.id \in Nat /\ y.id \in Nat
      BY <1>1, <1>2, SentStep DEF Sends, Messages
    <2> QED BY <2>1 DEF FreshId
  <1>3. m \notin sent /\ n \notin sent => m = n
    BY <1>1, SentStep
  <1> QED BY <1>2, <1>3 DEF IdsUnique

LEMMA ReportsStep == TaskInv /\ ReportsRecorded /\ [Next]_vars => ReportsRecorded'
  <1> SUFFICES ASSUME TaskInv, ReportsRecorded, [Next]_vars, TypeOK', NEW m \in sent', m.kind \in Reports
               PROVE  \E n \in Instructions' :
                         /\ n.id = m.reply /\ n.revision <= record'[m.from].revision
                         /\ record'[m.from].instruction = n => SenderHas(m)'
    BY TypeStep DEF ReportsRecorded, TaskInv
  <1>0. TypeOK /\ m \in Messages /\ m.from \in Endpoints /\ "local" \in Sides /\ Instructions \subseteq Instructions'
    BY SentStep, MessagesApply DEF TaskInv, TypeOK, Sides, Instructions
  <1>1. record[m.from].revision \in Nat /\ record'[m.from].revision \in Nat
    BY <1>0, TaskAssumption DEF TypeOK, Records
  <1>2. record[m.from].revision <= record'[m.from].revision
    BY <1>0, RecordGrows
  <1>3. CASE m \in sent
    <2>1. PICK n \in Instructions :
                  /\ n.id = m.reply /\ n.revision <= record[m.from].revision
                  /\ record[m.from].instruction = n => SenderHas(m)
      BY <1>3 DEF ReportsRecorded
    <2>2. n.revision \in Nat
      BY <1>0, TaskAssumption DEF TypeOK, Instructions, Messages
    <2>3. ASSUME record'[m.from].instruction = n
          PROVE  SenderHas(m)'
      <3>1. /\ record[m.from].instruction = n
            /\ Accepted(record[m.from], "local") => Accepted(record'[m.from], "local")
            /\ evidence[m.from] \subseteq evidence'[m.from]
        BY <1>0, <2>1, <2>3, InstructionStays
      <3> QED BY <2>1, <3>1 DEF SenderHas
    <2> QED BY <1>0, <1>1, <1>2, <2>1, <2>2, <2>3
  <1>4. CASE m \notin sent
    <2> DEFINE f == m.from
               n == record[f].instruction
    <2>1. Sends(f, m)
      BY <1>0, <1>4, SentStep
    <2>2. Reported(f, record[f], m, "local") /\ Applicable(m)
      BY <1>0, <2>1, MessagesApply DEF Sends
    <2>3. n # NoInstruction /\ n.id = m.reply
      BY <2>2, TaskAssumption DEF Reported, Current, ReportKinds
    <2>4. n \in Instructions /\ n.revision = record[f].revision
      BY <1>0, <2>3 DEF TaskInv, RecordsFollowAuthor
    <2>5. /\ record'[f] = Apply(f, record[f], m, "local")
          /\ evidence'[f] = EvidenceAfter(f, record[f], m, "local")
      BY <1>0, <2>1 DEF Sends, Post, TypeOK
    <2>6. ~Supersedes(f, record[f], m, "local")
      BY <1>0, <2>2, OneEffect DEF TypeOK
    <2>7. Arrives(f, m, "local")
      BY <2>2 DEF Arrives, Reported, ReportKinds
    <2>8. Applies(f, m, "local")
      BY <1>0, <2>2, <2>5, <2>7 DEF Applies
    <2>9. /\ m.kind = "accepted" => Accepted(record'[f], "local")
          /\ m.kind = "implemented" => \A i \in m.items : <<"local", i>> \in evidence'[f]
      BY <1>0, <2>2, <2>6, <2>8, AppliedEvidence
    <2> HIDE DEF n
    <2> QED BY <1>0, <1>1, <1>2, <2>3, <2>4, <2>9 DEF SenderHas
  <1> QED BY <1>3, <1>4

LEMMA PeerStep == TaskInv /\ PeerReported /\ [Next]_vars => PeerReported'
  <1> SUFFICES ASSUME TaskInv, PeerReported, [Next]_vars, NEW e \in Endpoints
               PROVE  /\ Accepted(record'[e], "peer") => \E m \in sent' : PeerReport(e, m, "accepted")'
                      /\ \A i \in Items : <<"peer", i>> \in evidence'[e] =>
                            \E m \in sent' : PeerReport(e, m, "implemented")' /\ i \in m.items
    BY DEF PeerReported
  <1>0. TypeOK /\ record[e] \in Records /\ "peer" \in Sides /\ sent \subseteq sent'
    BY SentStep DEF TaskInv, TypeOK, Sides
  <1>1. ASSUME record'[e].instruction = record[e].instruction,
               Accepted(record'[e], "peer") => Accepted(record[e], "peer"), evidence'[e] = evidence[e]
        PROVE  /\ Accepted(record'[e], "peer") => \E m \in sent' : PeerReport(e, m, "accepted")'
               /\ \A i \in Items : <<"peer", i>> \in evidence'[e] =>
                     \E m \in sent' : PeerReport(e, m, "implemented")' /\ i \in m.items
    BY <1>0, <1>1 DEF PeerReported, PeerReport
  <1>2. CASE Rests(e)
    BY <1>1, <1>2 DEF Rests
  <1>3. CASE Interrupted(e)
    BY <1>1, <1>3 DEF Interrupted, Accepted
  <1>4. ASSUME NEW m, NEW s, Applies(e, m, s)
        PROVE  /\ Accepted(record'[e], "peer") => \E n \in sent' : PeerReport(e, n, "accepted")'
               /\ \A i \in Items : <<"peer", i>> \in evidence'[e] =>
                     \E n \in sent' : PeerReport(e, n, "implemented")' /\ i \in n.items
    <2>1. CASE Supersedes(e, record[e], m, s)
      <3>1. evidence'[e] = {} /\ record'[e].facts = {}
        BY <1>0, <1>4, <2>1, AppliedEvidence
      <3> QED BY <3>1 DEF Accepted
    <2>2. CASE ~Supersedes(e, record[e], m, s)
      <3>1. record'[e].instruction = record[e].instruction
        BY <1>0, <1>4, <2>2, ApplyInstruction DEF Applies
      <3>2. ASSUME Reported(e, record[e], m, s), s = "peer"
            PROVE  m \in sent' /\ PeerReport(e, m, m.kind)'
        <4>1. m \in sent /\ m.from = Other(e)
          BY <1>4, <3>2 DEF Applies, Arrives
        <4>2. m.reply = record[e].instruction.id
          BY <3>2 DEF Reported, Current, ReportKinds
        <4> QED BY <1>0, <3>1, <4>1, <4>2 DEF PeerReport
      <3>3. /\ Accepted(record'[e], "peer") =>
                  Accepted(record[e], "peer") \/ (Reported(e, record[e], m, s) /\ m.kind = "accepted" /\ s = "peer")
            /\ \A i : <<"peer", i>> \in evidence'[e] =>
                  \/ <<"peer", i>> \in evidence[e]
                  \/ Reported(e, record[e], m, s) /\ m.kind = "implemented" /\ s = "peer" /\ i \in m.items
        BY <1>0, <1>4, <2>2, AppliedEvidence
      <3>4. Accepted(record'[e], "peer") => \E n \in sent' : PeerReport(e, n, "accepted")'
        BY <1>0, <3>1, <3>2, <3>3 DEF PeerReported, PeerReport
      <3>5. ASSUME NEW i \in Items, <<"peer", i>> \in evidence'[e]
            PROVE  \E n \in sent' : PeerReport(e, n, "implemented")' /\ i \in n.items
        BY <1>0, <3>1, <3>2, <3>3, <3>5 DEF PeerReported, PeerReport
      <3> QED BY <3>4, <3>5
    <2> QED BY <2>1, <2>2
  <1> QED BY <1>0, <1>2, <1>3, <1>4, RecordStep

LEMMA KeptStep == TaskInv /\ EvidenceKept /\ [Next]_vars => EvidenceKept'
  <1> SUFFICES ASSUME TaskInv, EvidenceKept, [Next]_vars, NEW e \in Endpoints,
                      NEW f \in record'[e].facts, NEW i \in f.items
               PROVE  /\ f.kind = "implemented" => <<f.side, i>> \in evidence'[e]
                      /\ f.kind = "verified" => <<OtherSide(f.side), i>> \in evidence'[e]
    BY DEF EvidenceKept
  <1>0. TypeOK /\ record[e] \in Records
    BY DEF TaskInv, TypeOK
  <1>1. ASSUME f \in record[e].facts, evidence[e] \subseteq evidence'[e]
        PROVE  /\ f.kind = "implemented" => <<f.side, i>> \in evidence'[e]
               /\ f.kind = "verified" => <<OtherSide(f.side), i>> \in evidence'[e]
    BY <1>1 DEF EvidenceKept
  <1>2. CASE Rests(e) \/ Interrupted(e)
    BY <1>1, <1>2 DEF Rests, Interrupted
  <1>3. ASSUME NEW m, NEW s, Applies(e, m, s)
        PROVE  /\ f.kind = "implemented" => <<f.side, i>> \in evidence'[e]
               /\ f.kind = "verified" => <<OtherSide(f.side), i>> \in evidence'[e]
    <2>0. s \in Sides /\ Applicable(m)
      BY <1>3 DEF Applies
    <2>1. ~Supersedes(e, record[e], m, s)
      BY <1>0, <1>3, <2>0, AppliedEvidence
    <2>2. evidence[e] \subseteq evidence'[e]
      BY <1>0, <1>3, <2>0, <2>1, AppliedEvidence
    <2>3. CASE f \in record[e].facts
      BY <1>1, <2>2, <2>3
    <2>4. CASE f \notin record[e].facts
      <3>1. Reported(e, record[e], m, s)
        BY <1>0, <1>3, <2>0, <2>1, <2>4, ApplyFacts DEF Applies
      <3>2. f \in Noted(record[e], m, s)
        BY <1>0, <1>3, <2>0, <3>1, ApplyFacts DEF Applies
      <3>3. f.kind = m.kind /\ f.side = s /\ f.items = m.items
        BY <2>4, <3>2 DEF Noted
      <3>4. m.kind = "implemented" => <<s, i>> \in evidence'[e]
        BY <1>0, <1>3, <2>0, <2>1, <3>1, <3>3, AppliedEvidence
      <3>5. ASSUME m.kind = "verified"
            PROVE  <<OtherSide(s), i>> \in evidence'[e]
        <4>1. i \in ItemsOf(record[e], "implemented", OtherSide(s))
          BY <3>1, <3>3, <3>5 DEF Reported
        <4>2. PICK g \in record[e].facts : g.kind = "implemented" /\ g.side = OtherSide(s) /\ i \in g.items
          BY <4>1 DEF ItemsOf
        <4> QED BY <2>2, <4>2 DEF EvidenceKept
      <3> QED BY <3>3, <3>4, <3>5
    <2> QED BY <2>3, <2>4
  <1> QED BY <1>0, <1>2, <1>3, RecordStep

\* Reports are recorded by their senders first, and evidence is kept as long as its instruction.
LEMMA EvidenceInvariant == Spec => []EvidenceInv
  <1>1. Init => EvidenceInv
    BY DEF Init, NewRecord, EvidenceInv, IdsUnique, ReportsRecorded, PeerReported, EvidenceKept, Accepted
  <1>2. TaskInv /\ EvidenceInv /\ [Next]_vars => EvidenceInv'
    BY IdsStep, ReportsStep, PeerStep, KeptStep DEF EvidenceInv
  <1> QED BY <1>1, <1>2, TaskInvariant, PTL DEF Spec

LEMMA EvidenceIsMutual == TaskInv /\ EvidenceInv => MutualEvidence
  <1> SUFFICES ASSUME TaskInv, EvidenceInv, NEW e \in Endpoints, NEW f, f = Other(e),
                      record[e].instruction # NoInstruction, record[e].instruction = record[f].instruction
               PROVE  /\ Accepted(record[e], "peer") => Accepted(record[f], "local")
                      /\ \A i \in Items : <<"peer", i>> \in evidence[e] => <<"local", i>> \in evidence[f]
    BY DEF MutualEvidence
  <1>1. record[e].instruction \in Instructions /\ Instructions \subseteq sent /\ sent \subseteq Messages
    BY DEF TaskInv, RecordsFollowAuthor, Instructions, TypeOK
  <1>2. ASSUME NEW m \in sent, NEW kind \in {"accepted", "implemented"}, PeerReport(e, m, kind)
        PROVE  m.from = f /\ SenderHas(m)
    <2>1. m \in Messages /\ m.from = f /\ m.kind = kind /\ m.reply = record[e].instruction.id
      BY <1>1, <1>2 DEF PeerReport
    <2>2. m.kind \in Reports
      BY <1>2, <2>1 DEF Messages, Controls
    <2>3. PICK n \in Instructions : n.id = m.reply /\ (record[m.from].instruction = n => SenderHas(m))
      BY <2>2 DEF EvidenceInv, ReportsRecorded
    <2>4. n = record[e].instruction
      BY <1>1, <2>1, <2>3 DEF EvidenceInv, IdsUnique
    <2> QED BY <2>1, <2>3, <2>4
  <1>3. ASSUME Accepted(record[e], "peer")
        PROVE  Accepted(record[f], "local")
    <2>1. PICK m \in sent : PeerReport(e, m, "accepted")
      BY <1>3 DEF EvidenceInv, PeerReported
    <2> QED BY <1>2, <2>1 DEF PeerReport, SenderHas
  <1>4. ASSUME NEW i \in Items, <<"peer", i>> \in evidence[e]
        PROVE  <<"local", i>> \in evidence[f]
    <2>1. PICK m \in sent : PeerReport(e, m, "implemented") /\ i \in m.items
      BY <1>4 DEF EvidenceInv, PeerReported
    <2> QED BY <1>2, <2>1 DEF PeerReport, SenderHas
  <1> QED BY <1>3, <1>4

\* What an endpoint recorded of its peer about an instruction that both hold - acceptance and
\* implemented items - the peer recorded of itself, whatever was lost, delayed or replaced.
THEOREM EvidenceAgrees == Spec => []MutualEvidence
  BY EvidenceIsMutual, TaskInvariant, EvidenceInvariant, PTL

\* Work that a side verified was reported implemented by the other one, and if both hold the
\* instruction, that one recorded it as its own work.
THEOREM VerificationRestsOnWork == Spec => []VerifiedWorkWasDone
  <1>1. TaskInv /\ EvidenceInv => VerifiedWorkWasDone
    <2> SUFFICES ASSUME TaskInv, EvidenceInv, NEW e \in Endpoints, NEW f \in record[e].facts,
                        NEW i \in f.items, f.kind = "verified"
                 PROVE  /\ <<OtherSide(f.side), i>> \in evidence[e]
                        /\ f.side = "local" /\ record[Other(e)].instruction = record[e].instruction =>
                              <<"local", i>> \in evidence[Other(e)]
      BY DEF VerifiedWorkWasDone
    <2>1. <<OtherSide(f.side), i>> \in evidence[e]
      BY DEF EvidenceInv, EvidenceKept
    <2>2. ASSUME f.side = "local", record[Other(e)].instruction = record[e].instruction
          PROVE  <<"local", i>> \in evidence[Other(e)]
      <3>1. <<"peer", i>> \in evidence[e]
        BY <2>1, <2>2 DEF OtherSide
      <3>2. record[e].instruction # NoInstruction
        BY DEF TaskInv, FactsOfInstruction
      <3>3. i \in Items
        BY <3>1 DEF TaskInv, TypeOK
      <3> QED BY <2>2, <3>1, <3>2, <3>3, EvidenceIsMutual DEF MutualEvidence
    <2> QED BY <2>1, <2>2
  <1> QED BY <1>1, TaskInvariant, EvidenceInvariant, PTL

=============================================================================
