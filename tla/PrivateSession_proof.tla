----------------------- MODULE PrivateSession_proof -----------------------
(***************************************************************************)
(* Proofs about PrivateSession, for any number of clients, invitations,    *)
(* connection ids and keys.                                                *)
(***************************************************************************)
EXTENDS PrivateSession, TLAPS

\* The tables registry() hands to its body have the type of the stored ones.
LEMMA AtOpenType ==
    ASSUME TypeOK
    PROVE  /\ InvitationsAtOpen \in [Invitations -> {"unissued", "open", "closed"}]
           /\ GrantsAtOpen \in [Cids -> Keys \cup {NoKey}]
           /\ \A c \in Cids : GrantsAtOpen[c] \in {grant[c], NoKey}
           /\ \A h : SessionsAtOpen(h) \in [Cids -> Held \cup {"unused", "removed"}]
           /\ \A h : \A c \in Cids : SessionsAtOpen(h)[c] = "unused" <=> session[c] = "unused"
  BY DEF TypeOK, InvitationsAtOpen, GrantsAtOpen, SessionsAtOpen, Held

\* A step of the service keeps the types.
LEMMA ServiceTypeStep ==
    ASSUME TypeOK,
           \/ \E i \in Invitations : Generate(i) \/ RevokeInvitation(i)
           \/ \E c \in Cids : RevokeServiceSession(c) \/ ResendAcceptance(c)
           \/ \E c \in Cids, k \in Keys : GrantSession(c, k)
           \/ PublishReply
    PROVE  TypeOK'
  <1> USE AtOpenType
  <1>1. ASSUME NEW i \in Invitations, Generate(i) PROVE TypeOK'
    BY <1>1 DEF TypeOK, Generate, clientVars, wireVars
  <1>2. ASSUME NEW i \in Invitations, RevokeInvitation(i) PROVE TypeOK'
    BY <1>2 DEF TypeOK, RevokeInvitation, clientVars, wireVars
  <1>3. ASSUME NEW c \in Cids, RevokeServiceSession(c) PROVE TypeOK'
    BY <1>3 DEF TypeOK, RevokeServiceSession, clientVars, wireVars
  <1>4. ASSUME NEW c \in Cids, ResendAcceptance(c) PROVE TypeOK'
    BY <1>4 DEF TypeOK, ResendAcceptance, clientVars, wireVars, Acceptances
  <1>5. ASSUME NEW c \in Cids, NEW k \in Keys, GrantSession(c, k) PROVE TypeOK'
    BY <1>5, ConstantsAssumption
    DEF TypeOK, GrantSession, Admissible, clientVars, wireVars, Acceptances
  <1>6. CASE PublishReply
    BY <1>6 DEF TypeOK, PublishReply, clientVars
  <1> QED BY <1>1, <1>2, <1>3, <1>4, <1>5, <1>6

\* A step of a client keeps the types.
LEMMA ClientTypeStep ==
    ASSUME TypeOK,
           \/ \E c \in Cids, k \in Keys : AcceptAcceptance(c, k)
           \/ \E a \in Clients, i \in Invitations, c \in Cids : Connect(a, i, c)
           \/ \E a \in Clients : Subscribe(a)
           \/ \E a \in Clients, due \in SUBSET Cids : RequestPass(a, due)
           \/ \E c \in Cids : PublishRequest(c) \/ RevokeClientSession(c)
    PROVE  TypeOK'
  <1> USE AtOpenType
  <1>1. ASSUME NEW c \in Cids, NEW k \in Keys, AcceptAcceptance(c, k) PROVE TypeOK'
    BY <1>1 DEF TypeOK, AcceptAcceptance, serviceVars, wireVars, Held
  <1>2. ASSUME NEW a \in Clients, NEW i \in Invitations, NEW c \in Cids, Connect(a, i, c)
        PROVE  TypeOK'
    BY <1>2, ConstantsAssumption DEF TypeOK, Connect, serviceVars, wireVars, Held, Requests
  <1>3. ASSUME NEW a \in Clients, NEW due \in SUBSET Cids, RequestPass(a, due) PROVE TypeOK'
    <2>1. attempts' \in [Cids -> 0 .. MaxAttempts]
      BY <1>3, ConstantsAssumption DEF TypeOK, RequestPass, Exhausted, Connecting, ClientTopics
    <2>2. \A c \in Cids : c \in due \cup Exhausted(a) => request[c] # NoRequest
      BY <1>3 DEF RequestPass, Exhausted, Connecting, ClientTopics
    <2>3. /\ session' \in [Cids -> Held \cup {"unused", "removed"}]
          /\ \A c \in Cids : session'[c] = "unused" <=> request[c] = NoRequest
      BY <1>3, <2>2 DEF TypeOK, RequestPass, Held
    <2> QED
      BY <1>3, <2>1, <2>2, <2>3 DEF TypeOK, RequestPass, serviceVars, wireVars
  <1>4. ASSUME NEW c \in Cids, PublishRequest(c) PROVE TypeOK'
    BY <1>4 DEF TypeOK, PublishRequest, serviceVars
  <1>5. ASSUME NEW c \in Cids, RevokeClientSession(c) PROVE TypeOK'
    BY <1>5 DEF TypeOK, RevokeClientSession, serviceVars, wireVars, Held
  <1>6. ASSUME NEW a \in Clients, Subscribe(a) PROVE TypeOK'
    BY <1>6 DEF TypeOK, Subscribe, serviceVars, wireVars
  <1> QED BY <1>1, <1>2, <1>3, <1>4, <1>5, <1>6

\* So do the steps of either host and of the clocks.
LEMMA HostTypeStep ==
    ASSUME TypeOK,
           \/ \E h \in Hosts : Maintain(h) \/ Crash(h)
           \/ \E h \in Hosts, d \in Deadlines : Tick(h, d)
    PROVE  TypeOK'
  <1> USE AtOpenType
  <1>1. ASSUME NEW h \in Hosts, Maintain(h) PROVE TypeOK'
    BY <1>1 DEF TypeOK, Maintain, wireVars
  <1>2. ASSUME NEW h \in Hosts, Crash(h) PROVE TypeOK'
    <2>1. \/ subscribed' = subscribed
          \/ subscribed' = [subscribed EXCEPT ![h] = FALSE]
      BY <1>2 DEF Crash
    <2>2. subscribed' \in [Clients -> BOOLEAN]
      BY <2>1, Zenon DEF TypeOK
    <2>3. outbox' \subseteq outbox /\ replies' \subseteq replies
      BY <1>2 DEF Crash
    <2> QED BY <1>2, <2>2, <2>3 DEF TypeOK, Crash, wireVars
  <1>3. ASSUME NEW h \in Hosts, NEW d \in Deadlines, Tick(h, d) PROVE TypeOK'
    BY <1>3 DEF TypeOK, Tick, serviceVars, clientVars, wireVars
  <1> QED BY <1>1, <1>2, <1>3

\* Type correctness: every reachable state of the registries, of the snapshots
\* held between a lock and a relay and of the histories is well formed.
THEOREM TypeCorrect == Spec => []TypeOK
  <1>1. Init => TypeOK
    BY ConstantsAssumption DEF Init, TypeOK
  <1>2. TypeOK /\ [Next]_vars => TypeOK'
    <2>1. TypeOK /\ Next => TypeOK'
      BY ServiceTypeStep, ClientTypeStep, HostTypeStep DEF Next
    <2>2. TypeOK /\ UNCHANGED vars => TypeOK'
      BY DEF TypeOK, vars, serviceVars, clientVars, wireVars
    <2> QED BY <2>1, <2>2
  <1> QED BY <1>1, <1>2, PTL DEF Spec

-----------------------------------------------------------------------------
(* The inductive invariant.                                                 *)

ServiceInv ==
    /\ SessionNeedsInvitation
    /\ OneAcceptance
    /\ GrantIssued
    /\ GrantOutlivesOnlyItsInvitation
    /\ ReplyIssued

ClientInv ==
    /\ WireIssued
    /\ PinnedIssued
    /\ AttemptReserved

IInv == TypeOK /\ ServiceInv /\ ClientInv

LEMMA InitInv == Init => IInv
  BY ConstantsAssumption
  DEF Init, IInv, TypeOK, ServiceInv, ClientInv, SessionNeedsInvitation, OneAcceptance,
      GrantIssued, GrantOutlivesOnlyItsInvitation, ReplyIssued, WireIssued, PinnedIssued,
      AttemptReserved, BoundedRetries

\* What the body of a registry() block of the service finds: the purge keeps
\* what ties sessions to invitations and acceptances.
Opened ==
    /\ InvitationsAtOpen \in [Invitations -> {"unissued", "open", "closed"}]
    /\ GrantsAtOpen \in [Cids -> Keys \cup {NoKey}]
    /\ \A i \in Invitations : invitation[i] = "unissued" => InvitationsAtOpen[i] = "unissued"
    /\ \A c \in Cids : request[c] # NoRequest => request[c].invitation \in Invitations
    /\ \A c \in Cids : GrantsAtOpen[c] # NoKey =>
          /\ GrantsAtOpen[c] = grant[c]
          /\ request[c] # NoRequest
          /\ InvitationsAtOpen[request[c].invitation] = "open"
          /\ <<c, GrantsAtOpen[c]>> \in issued
    /\ \A c \in Cids, k \in Keys : <<c, k>> \in issued =>
          /\ request[c] # NoRequest
          /\ c \notin severed =>
                \/ GrantsAtOpen[c] = k
                \/ /\ GrantsAtOpen[c] = NoKey
                   /\ InvitationsAtOpen[request[c].invitation] = "closed"

LEMMA PurgeKeeps ==
    ASSUME TypeOK, ServiceInv
    PROVE  Opened
  BY DEF Opened, TypeOK, Requests, Acceptances, ServiceInv, SessionNeedsInvitation, GrantIssued,
         GrantOutlivesOnlyItsInvitation, InvitationsAtOpen, GrantsAtOpen

LEMMA ServiceInvStep ==
    ASSUME TypeOK, ServiceInv, Next
    PROVE  ServiceInv'
  <1>o. Opened
    BY PurgeKeeps
  <1> USE DEF Opened, ServiceInv
  <1>1. ASSUME NEW i \in Invitations, Generate(i) PROVE ServiceInv'
    <2>1. SessionNeedsInvitation' /\ GrantIssued' /\ GrantOutlivesOnlyItsInvitation'
      BY <1>o, <1>1
      DEF Generate, clientVars, SessionNeedsInvitation, GrantIssued, GrantOutlivesOnlyItsInvitation
    <2>2. OneAcceptance' /\ ReplyIssued'
      BY <1>1 DEF Generate, OneAcceptance, ReplyIssued
    <2> QED BY <2>1, <2>2
  <1>2. ASSUME NEW i \in Invitations, RevokeInvitation(i) PROVE ServiceInv'
    <2>1. SessionNeedsInvitation' /\ GrantIssued' /\ GrantOutlivesOnlyItsInvitation'
      BY <1>o, <1>2
      DEF RevokeInvitation, clientVars, SessionNeedsInvitation, GrantIssued,
          GrantOutlivesOnlyItsInvitation
    <2>2. OneAcceptance' /\ ReplyIssued'
      BY <1>2 DEF RevokeInvitation, OneAcceptance, ReplyIssued
    <2> QED BY <2>1, <2>2
  <1>3. ASSUME NEW c \in Cids, RevokeServiceSession(c) PROVE ServiceInv'
    <2>1. SessionNeedsInvitation' /\ GrantIssued'
      BY <1>o, <1>3
      DEF RevokeServiceSession, clientVars, SessionNeedsInvitation, GrantIssued
    <2>3. GrantOutlivesOnlyItsInvitation'
      BY <1>o, <1>3 DEF RevokeServiceSession, clientVars, GrantOutlivesOnlyItsInvitation
    <2>2. OneAcceptance' /\ ReplyIssued'
      BY <1>3 DEF RevokeServiceSession, OneAcceptance, ReplyIssued
    <2> QED BY <2>1, <2>2, <2>3
  <1>4. ASSUME NEW c \in Cids, ResendAcceptance(c) PROVE ServiceInv'
    <2>1. SessionNeedsInvitation' /\ GrantIssued' /\ GrantOutlivesOnlyItsInvitation'
      BY <1>o, <1>4
      DEF ResendAcceptance, clientVars, SessionNeedsInvitation, GrantIssued,
          GrantOutlivesOnlyItsInvitation
    <2>2. OneAcceptance' /\ ReplyIssued'
      BY <1>o, <1>4 DEF ResendAcceptance, OneAcceptance, ReplyIssued
    <2> QED BY <2>1, <2>2
  <1>5. ASSUME NEW c \in Cids, NEW k \in Keys, GrantSession(c, k) PROVE ServiceInv'
    <2>1. /\ request[c] # NoRequest
          /\ InvitationsAtOpen[request[c].invitation] = "open"
      BY <1>5 DEF GrantSession, Admissible, TypeOK
    <2>2. c \notin severed => \A l \in Keys : <<c, l>> \notin issued
      BY <1>o, <1>5, <2>1, ConstantsAssumption DEF GrantSession
    <2>3. SessionNeedsInvitation' /\ GrantIssued'
      <3>1. grant'[c] = k /\ \A d \in Cids : d # c => grant'[d] = GrantsAtOpen[d]
        BY <1>o, <1>5 DEF GrantSession
      <3>2. SessionNeedsInvitation'
        BY <1>o, <1>5, <2>1, <3>1 DEF GrantSession, clientVars, SessionNeedsInvitation
      <3>3. GrantIssued'
        BY <1>o, <1>5, <3>1 DEF GrantSession, GrantIssued
      <3> QED BY <3>2, <3>3
    <2>4. GrantOutlivesOnlyItsInvitation'
      BY <1>o, <1>5, <2>1, <2>2 DEF GrantSession, clientVars, GrantOutlivesOnlyItsInvitation
    <2>5. OneAcceptance' /\ ReplyIssued'
      BY <1>5, <2>2 DEF GrantSession, OneAcceptance, ReplyIssued
    <2> QED BY <2>3, <2>4, <2>5
  <1>6. CASE PublishReply
    BY <1>6
    DEF PublishReply, clientVars, SessionNeedsInvitation, GrantIssued, OneAcceptance,
        GrantOutlivesOnlyItsInvitation, ReplyIssued
  <1>7. ASSUME NEW c \in Cids, NEW k \in Keys, AcceptAcceptance(c, k) PROVE ServiceInv'
    BY <1>7
    DEF AcceptAcceptance, serviceVars, SessionNeedsInvitation, GrantIssued, OneAcceptance,
        GrantOutlivesOnlyItsInvitation, ReplyIssued
  <1>8. ASSUME NEW a \in Clients, NEW i \in Invitations, NEW c \in Cids, Connect(a, i, c)
        PROVE  ServiceInv'
    <2>1. request[c] = NoRequest /\ grant[c] = NoKey /\ \A k \in Keys : <<c, k>> \notin issued
      BY <1>8 DEF Connect, TypeOK, GrantOutlivesOnlyItsInvitation
    <2>2. \A d \in Cids : d # c => request'[d] = request[d]
      BY <1>8 DEF Connect, TypeOK
    <2>3. request'[c] # NoRequest
      BY <1>8, ConstantsAssumption DEF Connect, TypeOK
    <2>4. SessionNeedsInvitation' /\ GrantIssued' /\ OneAcceptance' /\ ReplyIssued'
      BY <1>8, <2>1, <2>2
      DEF Connect, serviceVars, SessionNeedsInvitation, GrantIssued, OneAcceptance, ReplyIssued
    <2>5. GrantOutlivesOnlyItsInvitation'
      BY <1>8, <2>1, <2>2, <2>3 DEF Connect, serviceVars, GrantOutlivesOnlyItsInvitation
    <2> QED BY <2>4, <2>5
  <1>9. ASSUME NEW a \in Clients, NEW due \in SUBSET Cids, RequestPass(a, due) PROVE ServiceInv'
    BY <1>9
    DEF RequestPass, serviceVars, SessionNeedsInvitation, GrantIssued, OneAcceptance,
        GrantOutlivesOnlyItsInvitation, ReplyIssued
  <1>10. ASSUME NEW c \in Cids, PublishRequest(c) \/ RevokeClientSession(c) PROVE ServiceInv'
    BY <1>10
    DEF PublishRequest, RevokeClientSession, serviceVars, SessionNeedsInvitation, GrantIssued,
        OneAcceptance, GrantOutlivesOnlyItsInvitation, ReplyIssued
  <1>11. ASSUME NEW h \in Hosts, Maintain(h) PROVE ServiceInv'
    <2>1. SessionNeedsInvitation' /\ GrantIssued'
      BY <1>o, <1>11 DEF Maintain, SessionNeedsInvitation, GrantIssued
    <2>3. GrantOutlivesOnlyItsInvitation'
      BY <1>o, <1>11 DEF Maintain, GrantOutlivesOnlyItsInvitation
    <2>2. OneAcceptance' /\ ReplyIssued'
      BY <1>11 DEF Maintain, OneAcceptance, ReplyIssued
    <2> QED BY <2>1, <2>2, <2>3
  <1>12. ASSUME NEW h \in Hosts, Crash(h) PROVE ServiceInv'
    BY <1>12
    DEF Crash, SessionNeedsInvitation, GrantIssued, OneAcceptance,
        GrantOutlivesOnlyItsInvitation, ReplyIssued
  <1>13. ASSUME NEW h \in Hosts, NEW d \in Deadlines, Tick(h, d) PROVE ServiceInv'
    BY <1>13
    DEF Tick, serviceVars, clientVars, SessionNeedsInvitation, GrantIssued, OneAcceptance,
        GrantOutlivesOnlyItsInvitation, ReplyIssued
  <1>14. ASSUME NEW a \in Clients, Subscribe(a) PROVE ServiceInv'
    BY <1>14
    DEF Subscribe, serviceVars, SessionNeedsInvitation, GrantIssued, OneAcceptance,
        GrantOutlivesOnlyItsInvitation, ReplyIssued
  <1> QED
    BY <1>1, <1>2, <1>3, <1>4, <1>5, <1>6, <1>7, <1>8, <1>9, <1>10, <1>11, <1>12, <1>13, <1>14
    DEF Next


LEMMA ClientInvStep ==
    ASSUME TypeOK, TypeOK', ServiceInv, ClientInv, Next
    PROVE  ClientInv'
  <1> USE DEF ClientInv
  <1>1. WireIssued'
    <2>1. issued \subseteq issued'
      BY DEF Next, Generate, RevokeInvitation, RevokeServiceSession, ResendAcceptance,
             GrantSession, PublishReply, AcceptAcceptance, Connect, Subscribe, RequestPass,
             PublishRequest, RevokeClientSession, Maintain, Crash, Tick, serviceVars
    <2>2. acceptances' \subseteq acceptances \cup replies
      BY DEF Next, Generate, RevokeInvitation, RevokeServiceSession, ResendAcceptance,
             GrantSession, PublishReply, AcceptAcceptance, Connect, Subscribe, RequestPass,
             PublishRequest, RevokeClientSession, Maintain, Crash, Tick, wireVars
    <2> QED BY <2>1, <2>2 DEF WireIssued, ServiceInv, ReplyIssued
  <1>2. PinnedIssued'
    <2>1. issued \subseteq issued'
      BY DEF Next, Generate, RevokeInvitation, RevokeServiceSession, ResendAcceptance,
             GrantSession, PublishReply, AcceptAcceptance, Connect, Subscribe, RequestPass,
             PublishRequest, RevokeClientSession, Maintain, Crash, Tick, serviceVars
    <2>2. \A c \in Cids : session'[c] = "active" =>
             \/ session[c] = "active" /\ clientKey'[c] = clientKey[c]
             \/ <<c, clientKey'[c]>> \in acceptances
      <3>1. ASSUME NEW c \in Cids, NEW k \in Keys, AcceptAcceptance(c, k) PROVE <2>2
        BY <3>1 DEF AcceptAcceptance, SessionsAtOpen, TypeOK
      <3>2. ASSUME NEW a \in Clients, NEW i \in Invitations, NEW c \in Cids, Connect(a, i, c)
            PROVE  <2>2
        BY <3>2 DEF Connect, SessionsAtOpen, TypeOK
      <3>3. ASSUME NEW a \in Clients, NEW due \in SUBSET Cids, RequestPass(a, due) PROVE <2>2
        BY <3>3 DEF RequestPass, SessionsAtOpen, TypeOK
      <3>4. ASSUME NEW c \in Cids, PublishRequest(c) \/ RevokeClientSession(c) PROVE <2>2
        BY <3>4 DEF PublishRequest, RevokeClientSession, SessionsAtOpen, TypeOK
      <3>5. ASSUME NEW h \in Hosts, Maintain(h) \/ Crash(h) PROVE <2>2
        BY <3>5 DEF Maintain, Crash, SessionsAtOpen, TypeOK
      <3>6. ASSUME UNCHANGED <<session, clientKey>> PROVE <2>2
        BY <3>6
      <3>7. ASSUME \/ \E i \in Invitations : Generate(i) \/ RevokeInvitation(i)
                   \/ \E c \in Cids : RevokeServiceSession(c) \/ ResendAcceptance(c)
                   \/ \E c \in Cids, k \in Keys : GrantSession(c, k)
                   \/ PublishReply
                   \/ \E h \in Hosts, d \in Deadlines : Tick(h, d)
            PROVE  UNCHANGED <<session, clientKey>>
        BY <3>7 DEF Generate, RevokeInvitation, RevokeServiceSession, ResendAcceptance,
                    GrantSession, PublishReply, Tick, clientVars
      <3>8. ASSUME NEW a \in Clients, Subscribe(a) PROVE <2>2
        BY <3>8 DEF Subscribe, SessionsAtOpen, TypeOK
      <3> QED BY <3>1, <3>2, <3>3, <3>4, <3>5, <3>6, <3>7, <3>8 DEF Next
    <2> QED BY <2>1, <2>2 DEF PinnedIssued, WireIssued
  <1>3. AttemptReserved'
    <2>1. ASSUME NEW a \in Clients, NEW due \in SUBSET Cids, RequestPass(a, due)
          PROVE  AttemptReserved'
      <3>1. \A c \in due : c \notin outbox /\ attempts[c] < MaxAttempts
        BY <2>1, ConstantsAssumption
        DEF RequestPass, Connecting, Exhausted, ClientTopics, TypeOK
      <3>2. \A c \in Cids : attempts'[c] = IF c \in due THEN attempts[c] + 1 ELSE attempts[c]
        BY <2>1 DEF RequestPass
      <3> QED
        BY <2>1, <3>1, <3>2, ConstantsAssumption
        DEF RequestPass, AttemptReserved, BoundedRetries, TypeOK
    <2>2. ASSUME NEW c \in Cids, PublishRequest(c) PROVE AttemptReserved'
      BY <2>2, ConstantsAssumption
      DEF PublishRequest, AttemptReserved, BoundedRetries, TypeOK
    <2>3. ASSUME UNCHANGED <<attempts, published>>, outbox' \subseteq outbox
          PROVE  AttemptReserved'
      BY <2>3 DEF AttemptReserved, BoundedRetries
    <2>4. \/ \E a \in Clients, due \in SUBSET Cids : RequestPass(a, due)
          \/ \E c \in Cids : PublishRequest(c)
          \/ UNCHANGED <<attempts, published>> /\ outbox' \subseteq outbox
      BY DEF Next, Generate, RevokeInvitation, RevokeServiceSession, ResendAcceptance,
             GrantSession, PublishReply, AcceptAcceptance, Connect, Subscribe,
             RevokeClientSession, Maintain, Crash, Tick, clientVars
    <2> QED BY <2>1, <2>2, <2>3, <2>4
  <1> QED BY <1>1, <1>2, <1>3

\* The inductive invariant holds of every reachable state.
THEOREM InductiveInvariant == Spec => []IInv
  <1>1. Init => IInv
    BY InitInv
  <1>2. IInv /\ [Next]_vars => IInv'
    <2>1. IInv /\ Next => IInv'
      BY ServiceTypeStep, ClientTypeStep, HostTypeStep, ServiceInvStep, ClientInvStep
      DEF IInv, Next
    <2>2. IInv /\ UNCHANGED vars => IInv'
      BY DEF IInv, TypeOK, ServiceInv, ClientInv, SessionNeedsInvitation, OneAcceptance,
             GrantIssued, GrantOutlivesOnlyItsInvitation, ReplyIssued, WireIssued, PinnedIssued,
             AttemptReserved, BoundedRetries, vars, serviceVars, clientVars, wireVars
    <2> QED BY <2>1, <2>2
  <1> QED BY <1>1, <1>2, PTL DEF Spec

\* No session of the service survives its invitation, for any number of clients
\* and whatever is in flight when the invitation is revoked or expires.
THEOREM SessionsNeedInvitations == Spec => []SessionNeedsInvitation
  <1>1. IInv => SessionNeedsInvitation
    BY DEF IInv, ServiceInv
  <1> QED BY <1>1, InductiveInvariant, PTL

\* A request is answered by one acceptance unless its session alone was revoked.
THEOREM AcceptanceIsUnique == Spec => []OneAcceptance
  <1>1. IInv => OneAcceptance
    BY DEF IInv, ServiceInv
  <1> QED BY <1>1, InductiveInvariant, PTL

\* Both ends of a session hold keys of the same acceptance, under that proviso.
THEOREM Agreement == Spec => []EndpointsAgree
  <1>1. IInv => EndpointsAgree
    BY DEF IInv, TypeOK, ServiceInv, ClientInv, OneAcceptance, GrantIssued, PinnedIssued,
           EndpointsAgree, Acceptances
  <1> QED BY <1>1, InductiveInvariant, PTL

\* A request is published at most MaxAttempts times, however often the broker
\* crashes between reserving an attempt and publishing it.
THEOREM RetriesAreBounded == Spec => []BoundedRetries
  <1>1. IInv => BoundedRetries
    BY DEF IInv, ClientInv, AttemptReserved
  <1> QED BY <1>1, InductiveInvariant, PTL

-----------------------------------------------------------------------------
(* Action properties.                                                       *)

\* What one step may do to the client's end of a connection.
LEMMA ClientEndStep ==
    ASSUME TypeOK, ClientInv, ServiceInv, Next, NEW c \in Cids
    PROVE  \/ session'[c] = session[c] /\ clientKey'[c] = clientKey[c]
           \/ session[c] = "unused" /\ session'[c] = "connecting" /\ clientKey'[c] = clientKey[c]
           \/ /\ session[c] \in {"connecting", "active"}
              /\ session'[c] \in {"failed", "removed"}
              /\ clientKey'[c] = clientKey[c]
           \/ session[c] = "failed" /\ session'[c] = "removed" /\ clientKey'[c] = clientKey[c]
           \/ /\ session[c] = "connecting" /\ session'[c] = "active"
              /\ <<c, clientKey'[c]>> \in issued /\ clientKey'[c] \in Keys
              /\ UNCHANGED serviceVars
  <1> DEFINE Goal ==
           \/ session'[c] = session[c] /\ clientKey'[c] = clientKey[c]
           \/ session[c] = "unused" /\ session'[c] = "connecting" /\ clientKey'[c] = clientKey[c]
           \/ /\ session[c] \in {"connecting", "active"}
              /\ session'[c] \in {"failed", "removed"}
              /\ clientKey'[c] = clientKey[c]
           \/ session[c] = "failed" /\ session'[c] = "removed" /\ clientKey'[c] = clientKey[c]
           \/ /\ session[c] = "connecting" /\ session'[c] = "active"
              /\ <<c, clientKey'[c]>> \in issued /\ clientKey'[c] \in Keys
              /\ UNCHANGED serviceVars
  <1>1. ASSUME NEW d \in Cids, NEW k \in Keys, AcceptAcceptance(d, k) PROVE Goal
    BY <1>1 DEF AcceptAcceptance, SessionsAtOpen, TypeOK, Held, ClientInv, WireIssued
  <1>2. ASSUME NEW a \in Clients, NEW i \in Invitations, NEW d \in Cids, Connect(a, i, d)
        PROVE  Goal
    BY <1>2 DEF Connect, SessionsAtOpen, TypeOK, Held
  <1>3. ASSUME NEW a \in Clients, NEW due \in SUBSET Cids, RequestPass(a, due) PROVE Goal
    BY <1>3 DEF RequestPass, SessionsAtOpen, TypeOK, Held, Exhausted, Connecting
  <1>4. ASSUME NEW d \in Cids, PublishRequest(d) \/ RevokeClientSession(d) PROVE Goal
    BY <1>4 DEF PublishRequest, RevokeClientSession, SessionsAtOpen, TypeOK, Held
  <1>5. ASSUME NEW h \in Hosts, Maintain(h) \/ Crash(h) PROVE Goal
    BY <1>5 DEF Maintain, Crash, SessionsAtOpen, TypeOK, Held
  <1>6. ASSUME \/ \E i \in Invitations : Generate(i) \/ RevokeInvitation(i)
               \/ \E d \in Cids : RevokeServiceSession(d) \/ ResendAcceptance(d)
               \/ \E d \in Cids, k \in Keys : GrantSession(d, k)
               \/ PublishReply
               \/ \E h \in Hosts, d \in Deadlines : Tick(h, d)
        PROVE  Goal
    BY <1>6 DEF Generate, RevokeInvitation, RevokeServiceSession, ResendAcceptance,
                GrantSession, PublishReply, Tick, clientVars
  <1>7. ASSUME NEW a \in Clients, Subscribe(a) PROVE Goal
    BY <1>7 DEF Subscribe, SessionsAtOpen, TypeOK, Held
  <1> QED BY <1>1, <1>2, <1>3, <1>4, <1>5, <1>6, <1>7 DEF Next

\* A failed attempt is never revived, whatever acceptance arrives late.
THEOREM FailedAttemptsStayFailed == Spec => FailedIsFinal
  <1>1. IInv /\ [Next]_vars =>
            [\A c \in Cids : session[c] = "failed" => session'[c] \in {"failed", "removed"}]_vars
    BY ClientEndStep DEF IInv
  <1> QED BY <1>1, InductiveInvariant, PTL DEF Spec, FailedIsFinal

-----------------------------------------------------------------------------
(* Refinement.                                                              *)

\* Each connection id starts as its contract does.
LEMMA ContractInit == Init => \A c \in Cids : Contract(c)!Init
  BY DEF Init, Contract!Init, ServiceEnd, ClientEnd

\* A step that only takes grants away, and a step that grants one fresh key,
\* seen from the service's end of connection c.
LEMMA GrantsTakenAway ==
    ASSUME TypeOK, ServiceInv, NEW c \in Cids,
           grant'[c] \in {grant[c], NoKey}, issued' = issued,
           \/ severed' = severed
           \/ \E d \in Cids : severed' = severed \cup {d} /\ grant[d] # NoKey /\ grant'[d] = NoKey
    PROVE  \/ ServiceEnd(c)' = ServiceEnd(c)
           \/ ServiceEnd(c) = "up" /\ ServiceEnd(c)' \in {"severed", "down"}
  <1>1. grant[c] # NoKey => \E k \in Keys : <<c, k>> \in issued
    BY DEF TypeOK, ServiceInv, GrantIssued, Acceptances
  <1>2. CASE grant'[c] = grant[c]
    BY <1>2 DEF ServiceEnd
  <1>3. CASE grant[c] # NoKey /\ grant'[c] = NoKey
    BY <1>1, <1>3 DEF ServiceEnd
  <1> QED BY <1>2, <1>3

LEMMA ServiceEndStep ==
    ASSUME TypeOK, ServiceInv, Next, NEW c \in Cids
    PROVE  \/ ServiceEnd(c)' = ServiceEnd(c) /\ issued' = issued
           \/ /\ ServiceEnd(c) = "up" /\ ServiceEnd(c)' \in {"severed", "down"}
              /\ issued' = issued /\ UNCHANGED <<session, clientKey>>
           \/ \E k \in Keys, d \in Cids :
                 /\ issued' = issued \cup {<<d, k>>} /\ \A e \in Cids : <<e, k>> \notin issued
                 /\ UNCHANGED <<session, clientKey>>
                 /\ IF d = c THEN ServiceEnd(c) \in {"none", "severed"} /\ ServiceEnd(c)' = "up"
                             ELSE \/ ServiceEnd(c)' = ServiceEnd(c)
                                  \/ ServiceEnd(c) = "up" /\ ServiceEnd(c)' \in {"severed", "down"}
  <1>o. Opened
    BY PurgeKeeps
  <1>1. ASSUME NEW i \in Invitations, Generate(i) \/ RevokeInvitation(i)
        PROVE  /\ grant'[c] \in {grant[c], NoKey}
               /\ UNCHANGED <<issued, severed, session, clientKey>>
    BY <1>1, AtOpenType DEF Generate, RevokeInvitation, clientVars
  <1>2. ASSUME NEW d \in Cids, RevokeServiceSession(d)
        PROVE  /\ grant'[c] \in {grant[c], NoKey}
               /\ severed' = severed \cup {d} /\ grant[d] # NoKey /\ grant'[d] = NoKey
               /\ UNCHANGED <<issued, session, clientKey>>
    BY <1>2, AtOpenType DEF RevokeServiceSession, clientVars, TypeOK
  <1>3. ASSUME NEW d \in Cids, ResendAcceptance(d)
        PROVE  /\ grant'[c] \in {grant[c], NoKey}
               /\ UNCHANGED <<issued, severed, session, clientKey>>
    BY <1>3, AtOpenType DEF ResendAcceptance, clientVars
  <1>4. ASSUME NEW h \in Hosts, Maintain(h)
        PROVE  /\ UNCHANGED <<issued, severed, clientKey>>
               /\ \/ UNCHANGED grant
                  \/ grant'[c] \in {grant[c], NoKey} /\ UNCHANGED session
    BY <1>4, AtOpenType DEF Maintain
  <1>5. ASSUME NEW d \in Cids, NEW k \in Keys, GrantSession(d, k)
        PROVE  /\ issued' = issued \cup {<<d, k>>} /\ \A e \in Cids : <<e, k>> \notin issued
               /\ UNCHANGED <<session, clientKey>>
               /\ IF d = c THEN ServiceEnd(c) \in {"none", "severed"} /\ ServiceEnd(c)' = "up"
                           ELSE \/ ServiceEnd(c)' = ServiceEnd(c)
                                \/ ServiceEnd(c) = "up" /\ ServiceEnd(c)' \in {"severed", "down"}
    <2>1. /\ issued' = issued \cup {<<d, k>>} /\ severed' = severed
          /\ \A e \in Cids : <<e, k>> \notin issued
          /\ UNCHANGED <<session, clientKey>>
      BY <1>5 DEF GrantSession, clientVars
    <2>2. CASE d = c
      <3>1. grant'[c] = k /\ k # NoKey
        BY <1>5, <1>o, <2>2, ConstantsAssumption DEF GrantSession, Opened
      <3>2. /\ request[c] # NoRequest
            /\ InvitationsAtOpen[request[c].invitation] = "open"
        BY <1>5, <2>2 DEF GrantSession, Admissible, TypeOK
      <3>3. c \notin severed => \A l \in Keys : <<c, l>> \notin issued
        BY <1>o, <1>5, <2>2, <3>2, ConstantsAssumption DEF GrantSession, Opened
      <3>4. grant[c] = NoKey
        BY <1>5, <2>2, <3>2 DEF GrantSession, GrantsAtOpen, InvitationsAtOpen, TypeOK, Requests,
                               ServiceInv, SessionNeedsInvitation
      <3>5. ServiceEnd(c) \in {"none", "severed"}
        BY <3>3, <3>4 DEF ServiceEnd
      <3>6. ServiceEnd(c)' = "up"
        BY <3>1 DEF ServiceEnd
      <3> QED BY <2>1, <2>2, <3>5, <3>6
    <2>3. CASE d # c
      <3>1. grant'[c] \in {grant[c], NoKey}
        BY <1>5, <2>3, AtOpenType DEF GrantSession
      <3>2. \A l \in Keys : <<c, l>> \in issued' <=> <<c, l>> \in issued
        BY <2>1, <2>3
      <3>3. grant[c] # NoKey => \E l \in Keys : <<c, l>> \in issued
        BY DEF TypeOK, ServiceInv, GrantIssued, Acceptances
      <3>4. \/ ServiceEnd(c)' = ServiceEnd(c)
            \/ ServiceEnd(c) = "up" /\ ServiceEnd(c)' \in {"severed", "down"}
        BY <2>1, <3>1, <3>2, <3>3 DEF ServiceEnd
      <3> QED BY <2>1, <2>3, <3>4
    <2> QED BY <2>2, <2>3
  <1>6. ASSUME \/ PublishReply
               \/ \E d \in Cids, k \in Keys : AcceptAcceptance(d, k)
               \/ \E a \in Clients, i \in Invitations, d \in Cids : Connect(a, i, d)
               \/ \E a \in Clients : Subscribe(a)
               \/ \E a \in Clients, due \in SUBSET Cids : RequestPass(a, due)
               \/ \E d \in Cids : PublishRequest(d) \/ RevokeClientSession(d)
               \/ \E h \in Hosts : Crash(h)
               \/ \E h \in Hosts, d \in Deadlines : Tick(h, d)
        PROVE  UNCHANGED <<grant, issued, severed>>
    BY <1>6 DEF PublishReply, AcceptAcceptance, Connect, Subscribe, RequestPass, PublishRequest,
                RevokeClientSession, Crash, Tick, serviceVars
  <1>7. UNCHANGED <<grant, issued, severed>> => ServiceEnd(c)' = ServiceEnd(c)
    BY DEF ServiceEnd
  <1> QED
    BY <1>1, <1>2, <1>3, <1>4, <1>5, <1>6, <1>7, GrantsTakenAway DEF Next

\* Every step of the system is, for each connection id, a step of its contract
\* or leaves it unchanged.
LEMMA ContractStep ==
    ASSUME TypeOK, ServiceInv, ClientInv, Next, NEW c \in Cids
    PROVE  [Contract(c)!Next]_(Contract(c)!vars)
  <1> DEFINE Offers == {k \in Keys : <<c, k>> \in issued}
  <1> USE DEF Contract!Next, Contract!vars, Contract!Offer, Contract!CloseService,
              Contract!Join, Contract!CloseClient
  <1>1. UNCHANGED session => UNCHANGED ClientEnd(c)
    BY DEF ClientEnd
  <1>2. issued' = issued => Offers' = Offers
    OBVIOUS
  <1>3. CASE UNCHANGED <<session, clientKey>>
    <2>1. CASE ServiceEnd(c)' = ServiceEnd(c) /\ issued' = issued
      BY <1>1, <1>2, <1>3, <2>1
    <2>2. CASE /\ ServiceEnd(c) = "up" /\ ServiceEnd(c)' \in {"severed", "down"}
               /\ issued' = issued
      BY <1>1, <1>2, <1>3, <2>2
    <2>3. ASSUME NEW k \in Keys, NEW d \in Cids,
                 issued' = issued \cup {<<d, k>>}, \A e \in Cids : <<e, k>> \notin issued,
                 IF d = c THEN ServiceEnd(c) \in {"none", "severed"} /\ ServiceEnd(c)' = "up"
                          ELSE \/ ServiceEnd(c)' = ServiceEnd(c)
                               \/ ServiceEnd(c) = "up" /\ ServiceEnd(c)' \in {"severed", "down"}
          PROVE  [Contract(c)!Next]_(Contract(c)!vars)
      <3>1. CASE d = c
        <4>1. Offers' = Offers \cup {k} /\ k \notin Offers
          BY <2>3, <3>1
        <4> QED BY <1>1, <1>3, <2>3, <3>1, <4>1
      <3>2. CASE d # c
        <4>1. Offers' = Offers
          BY <2>3, <3>2
        <4> QED BY <1>1, <1>3, <2>3, <3>2, <4>1
      <3> QED BY <3>1, <3>2
    <2> QED BY <2>1, <2>2, <2>3, ServiceEndStep
  <1>4. CASE ~UNCHANGED <<session, clientKey>>
    <2>1. ServiceEnd(c)' = ServiceEnd(c) /\ Offers' = Offers
      BY <1>2, <1>4, ServiceEndStep
    <2>2. \/ UNCHANGED <<ClientEnd(c), clientKey[c]>>
          \/ /\ ClientEnd(c) \in {"idle", "up"} /\ ClientEnd(c)' = "down"
             /\ UNCHANGED clientKey[c]
          \/ /\ ClientEnd(c) = "idle" /\ ClientEnd(c)' = "up"
             /\ clientKey'[c] \in Offers
      BY ClientEndStep DEF ClientEnd
    <2>3. Offers \subseteq Keys
      OBVIOUS
    <2> QED BY <2>1, <2>2, <2>3
  <1> QED BY <1>3, <1>4

\* PrivateSession implements SessionContract for every connection id.
THEOREM ImplementsContract == Spec => EveryConnectionKeepsContract
  <1>1. Init => \A c \in Cids : Contract(c)!Init
    BY ContractInit
  <1>2. IInv /\ [Next]_vars => [\A c \in Cids : [Contract(c)!Next]_(Contract(c)!vars)]_vars
    BY ContractStep DEF IInv
  <1> QED BY <1>1, <1>2, InductiveInvariant, PTL DEF Spec, EveryConnectionKeepsContract

=============================================================================
