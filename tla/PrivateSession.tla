--------------------------- MODULE PrivateSession ---------------------------
(***************************************************************************)
(* Invitations, connection requests and private sessions (connections.py). *)
(*                                                                         *)
(* One service agent hands out invitations. A client that was given one    *)
(* stores a "connecting" session under a fresh connection id and its       *)
(* refresher publishes the same signed request a bounded number of times.  *)
(* The service answers with a signed acceptance that carries a fresh       *)
(* X25519 key; both sides derive the session keys from it.                 *)
(*                                                                         *)
(* Every registry() block is one locked read-modify-write of one JSON      *)
(* file: it first drops what has expired, then runs its body, and writes   *)
(* nothing when the body raises. So each is one action here, an exception  *)
(* is no step, and every action that writes writes the purge too.          *)
(*                                                                         *)
(* Abstractions. An acceptance is the pair <<connection id, service key>>: *)
(* all derived keys are functions of it and of the client's own ephemeral. *)
(* Relays keep, lose, repeat and reorder: what was published stays in a    *)
(* set, delivery never removes it and may never happen. A deadline is      *)
(* passed on each host's own clock independently (hosts may disagree).     *)
(***************************************************************************)
EXTENDS Naturals, FiniteSets

CONSTANTS
    Clients,      \* client agents, each behind a broker of its own
    Invitations,  \* topics of the invitations the service may generate
    Permanent,    \* those generated with ttl_hours = 0
    Cids,         \* connection ids (uuid4)
    Keys,         \* X25519 ephemerals of the service
    Service,      \* the service agent's host
    NoKey, NoRequest,
    MaxAttempts,  \* publications of one request (5 in pending_requests)
    MaxTopics     \* MAX_CONNECTIONS, 1024: topics of one registry

ASSUME ConstantsAssumption ==
    /\ MaxAttempts \in Nat
    /\ MaxTopics \in Nat
    /\ Permanent \subseteq Invitations
    /\ Service \notin Clients
    /\ NoKey \notin Keys
    /\ NoRequest \notin [client : Clients, invitation : Invitations]

VARIABLES
    invitation,   \* service registry: state of each invitation
    grant,        \* service registry: the key of the session of a cid
    request,      \* the signed request of a cid, immutable once connect() signed it
    session,      \* client registry: state of the session of a cid
    clientKey,    \* client registry: the service key an active session pinned
    attempts,     \* client registry: publications reserved for a request
    outbox,       \* snapshots pending_requests holds between its lock and the relay
    subscribed,   \* the client's listener is past the subscription of its round
    replies,      \* the acceptance accept_control holds between its lock and the relay
    requests,     \* cids whose request some relay has seen
    acceptances,  \* acceptances some relay has seen
    past,         \* deadlines passed, per host
    published,    \* history: publications attempted per cid
    issued,       \* history: acceptances ever signed
    severed       \* history: cids whose session alone the service revoked

serviceVars == <<invitation, grant, replies, issued, severed>>
clientVars == <<request, session, clientKey, attempts, outbox, published, subscribed>>
wireVars == <<requests, acceptances>>
vars == <<serviceVars, clientVars, wireVars, past>>

Hosts == Clients \cup {Service}
Deadlines == Invitations \cup Cids \cup Keys
Requests == [client : Clients, invitation : Invitations]
Acceptances == Cids \X Keys
Held == {"connecting", "failed", "active"}

TypeOK ==
    /\ invitation \in [Invitations -> {"unissued", "open", "closed"}]
    /\ grant \in [Cids -> Keys \cup {NoKey}]
    /\ request \in [Cids -> Requests \cup {NoRequest}]
    /\ session \in [Cids -> Held \cup {"unused", "removed"}]
    /\ clientKey \in [Cids -> Keys \cup {NoKey}]
    /\ attempts \in [Cids -> 0 .. MaxAttempts]
    /\ outbox \subseteq Cids
    /\ subscribed \in [Clients -> BOOLEAN]
    /\ replies \subseteq Acceptances
    /\ requests \subseteq Cids
    /\ acceptances \subseteq Acceptances
    /\ past \subseteq Hosts \X Deadlines
    /\ published \in [Cids -> Nat]
    /\ issued \subseteq Acceptances
    /\ severed \subseteq Cids
    /\ \A c \in Cids : session[c] # "unused" <=> request[c] # NoRequest
    /\ \A c \in Cids : grant[c] # NoKey => request[c] # NoRequest
    /\ requests \cup outbox \subseteq {c \in Cids : request[c] # NoRequest}

Init ==
    /\ invitation = [i \in Invitations |-> "unissued"]
    /\ grant = [c \in Cids |-> NoKey]
    /\ request = [c \in Cids |-> NoRequest]
    /\ session = [c \in Cids |-> "unused"]
    /\ clientKey = [c \in Cids |-> NoKey]
    /\ attempts = [c \in Cids |-> 0]
    /\ subscribed = [a \in Clients |-> FALSE]
    /\ outbox = {} /\ replies = {} /\ requests = {} /\ acceptances = {}
    /\ past = {} /\ issued = {} /\ severed = {}
    /\ published = [c \in Cids |-> 0]

-----------------------------------------------------------------------------
(* What registry() leaves of each table when it opens: topics live on.      *)

Expired(h, d) == <<h, d>> \in past

InvitationsAtOpen ==
    [i \in Invitations |->
        IF invitation[i] = "open" /\ Expired(Service, i) THEN "closed" ELSE invitation[i]]

\* A session inherits the expiration of its invitation.
GrantsAtOpen ==
    [c \in Cids |->
        IF grant[c] # NoKey /\ Expired(Service, request[c].invitation) THEN NoKey ELSE grant[c]]

SessionsAtOpen(h) ==
    [c \in Cids |->
        IF /\ session[c] \in Held
           /\ request[c].client = h
           /\ Expired(h, request[c].invitation)
        THEN "removed" ELSE session[c]]

ServiceTopics ==
    {i \in Invitations : InvitationsAtOpen[i] = "open"} \cup {c \in Cids : GrantsAtOpen[c] # NoKey}

ClientTopics(a) ==
    {c \in Cids : request[c] # NoRequest /\ request[c].client = a /\ SessionsAtOpen(a)[c] \in Held}

-----------------------------------------------------------------------------
(* The service's operations.                                                *)

Generate(i) ==
    /\ invitation[i] = "unissued"
    /\ Cardinality(ServiceTopics) < MaxTopics
    /\ invitation' = [InvitationsAtOpen EXCEPT ![i] = "open"]
    /\ grant' = GrantsAtOpen
    /\ UNCHANGED <<replies, issued, severed, clientVars, wireVars, past>>

\* Mutant: revoke() pops the invitation and leaves its sessions.
RevokeInvitationAlone(i) ==
    /\ InvitationsAtOpen[i] = "open"
    /\ invitation' = [InvitationsAtOpen EXCEPT ![i] = "closed"]
    /\ grant' = GrantsAtOpen
    /\ UNCHANGED <<replies, issued, severed, clientVars, wireVars, past>>

\* revoke() of an invitation also pops every session derived from it.
RevokeInvitation(i) ==
    /\ InvitationsAtOpen[i] = "open"
    /\ invitation' = [InvitationsAtOpen EXCEPT ![i] = "closed"]
    /\ grant' = [c \in Cids |->
                    IF grant[c] # NoKey /\ request[c].invitation = i THEN NoKey ELSE GrantsAtOpen[c]]
    /\ UNCHANGED <<replies, issued, severed, clientVars, wireVars, past>>

\* revoke() of one service session leaves its invitation in place.
RevokeServiceSession(c) ==
    /\ GrantsAtOpen[c] # NoKey
    /\ grant' = [GrantsAtOpen EXCEPT ![c] = NoKey]
    /\ invitation' = InvitationsAtOpen
    /\ severed' = severed \cup {c}
    /\ UNCHANGED <<replies, issued, clientVars, wireVars, past>>

\* The invitation branch of accept_control. The notification handler runs one
\* event at a time, so no reply of an earlier event is pending.
Admissible(c) ==
    /\ replies = {}
    /\ c \in requests
    /\ InvitationsAtOpen[request[c].invitation] = "open"
    /\ ~Expired(Service, c)

\* The session exists: its stored acceptance is sent again.
ResendAcceptance(c) ==
    /\ Admissible(c)
    /\ GrantsAtOpen[c] # NoKey
    /\ replies' = {<<c, GrantsAtOpen[c]>>}
    /\ invitation' = InvitationsAtOpen
    /\ grant' = GrantsAtOpen
    /\ UNCHANGED <<issued, severed, clientVars, wireVars, past>>

\* Mutant: accept_control does not look for an existing session.
GrantSessionAgain(c, k) ==
    /\ Admissible(c)
    /\ Cardinality(ServiceTopics) < MaxTopics
    /\ \A d \in Cids : <<d, k>> \notin issued
    /\ grant' = [GrantsAtOpen EXCEPT ![c] = k]
    /\ invitation' = InvitationsAtOpen
    /\ replies' = {<<c, k>>}
    /\ issued' = issued \cup {<<c, k>>}
    /\ UNCHANGED <<severed, clientVars, wireVars, past>>

\* A fresh ephemeral, a signed acceptance and an active session.
GrantSession(c, k) ==
    /\ Admissible(c)
    /\ GrantsAtOpen[c] = NoKey
    /\ Cardinality(ServiceTopics) < MaxTopics
    /\ \A d \in Cids : <<d, k>> \notin issued
    /\ grant' = [GrantsAtOpen EXCEPT ![c] = k]
    /\ invitation' = InvitationsAtOpen
    /\ replies' = {<<c, k>>}
    /\ issued' = issued \cup {<<c, k>>}
    /\ UNCHANGED <<severed, clientVars, wireVars, past>>

\* The publication after the lock: seen by a relay, or not confirmed and lost.
PublishReply ==
    /\ replies # {}
    /\ acceptances' \in {acceptances, acceptances \cup replies}
    /\ replies' = {}
    /\ UNCHANGED <<invitation, grant, issued, severed, clientVars, requests, past>>

-----------------------------------------------------------------------------
(* The client's operations.                                                 *)

\* The token may be stale: the client cannot tell that it was revoked.
Connect(a, i, c) ==
    /\ session[c] = "unused"
    /\ invitation[i] # "unissued"
    /\ ~Expired(a, i)
    /\ Cardinality(ClientTopics(a)) < MaxTopics
    /\ request' = [request EXCEPT ![c] = [client |-> a, invitation |-> i]]
    /\ session' = [SessionsAtOpen(a) EXCEPT ![c] = "connecting"]
    /\ UNCHANGED <<serviceVars, clientKey, attempts, outbox, published, subscribed, wireVars, past>>

\* What comes before a pass: the listener starts (its dead thread is started
\* again), or the refresher begins a round, the last batch being published. Topics
\* that are new or changed are subscribed, and some relay has to take them: if none
\* does the coroutine or the round raises, having written the purge (a Maintain).
Subscribe(a) ==
    /\ ~subscribed[a]
    /\ \A c \in outbox : request[c].client # a
    /\ subscribed' = [subscribed EXCEPT ![a] = TRUE]
    /\ session' = SessionsAtOpen(a)
    /\ UNCHANGED <<serviceVars, request, clientKey, attempts, outbox, published, wireVars, past>>

Connecting(a) == {c \in ClientTopics(a) : SessionsAtOpen(a)[c] = "connecting"}

Exhausted(a) == {c \in Connecting(a) : attempts[c] >= MaxAttempts \/ Expired(a, c)}

\* Mutant: an exhausted request is skipped, not failed.
RequestPassSkips(a, due) ==
    /\ subscribed[a]
    /\ \A c \in outbox : request[c].client # a
    /\ due \subseteq Connecting(a) \ Exhausted(a)
    /\ session' = SessionsAtOpen(a)
    /\ attempts' = [c \in Cids |-> IF c \in due THEN attempts[c] + 1 ELSE attempts[c]]
    /\ outbox' = outbox \cup due
    /\ subscribed' = [subscribed EXCEPT ![a] = FALSE]
    /\ UNCHANGED <<serviceVars, request, clientKey, published, wireVars, past>>

\* The locked half of pending_requests. The clock chooses who is due. The one
\* refresher task publishes a whole batch before it starts the next pass.
RequestPass(a, due) ==
    /\ subscribed[a]
    /\ \A c \in outbox : request[c].client # a
    /\ due \subseteq Connecting(a) \ Exhausted(a)
    /\ session' = [c \in Cids |-> IF c \in Exhausted(a) THEN "failed" ELSE SessionsAtOpen(a)[c]]
    /\ attempts' = [c \in Cids |-> IF c \in due THEN attempts[c] + 1 ELSE attempts[c]]
    /\ outbox' = outbox \cup due
    /\ subscribed' = [subscribed EXCEPT ![a] = FALSE]
    /\ UNCHANGED <<serviceVars, request, clientKey, published, wireVars, past>>

\* The unlocked half: one publication of a snapshot, confirmed or not. Nothing
\* rereads the registry here.
PublishRequest(c) ==
    /\ c \in outbox
    /\ outbox' = outbox \ {c}
    /\ published' = [published EXCEPT ![c] = @ + 1]
    /\ requests' \in {requests, requests \cup {c}}
    /\ UNCHANGED <<serviceVars, request, session, clientKey, attempts, subscribed, acceptances,
                   past>>

\* Mutant: an acceptance is taken in every state the entry can have.
AcceptAcceptanceAnyState(c, k) ==
    LET a == request[c].client IN
    /\ <<c, k>> \in acceptances
    /\ SessionsAtOpen(a)[c] \in Held
    /\ ~Expired(a, k)
    /\ session' = [SessionsAtOpen(a) EXCEPT ![c] = "active"]
    /\ clientKey' = [clientKey EXCEPT ![c] = k]
    /\ UNCHANGED <<serviceVars, request, attempts, outbox, published, subscribed, wireVars, past>>

\* The connecting branch of accept_control. After it the entry has neither the
\* request nor its counters.
AcceptAcceptance(c, k) ==
    LET a == request[c].client IN
    /\ <<c, k>> \in acceptances
    /\ SessionsAtOpen(a)[c] = "connecting"
    /\ ~Expired(a, k)
    /\ session' = [SessionsAtOpen(a) EXCEPT ![c] = "active"]
    /\ clientKey' = [clientKey EXCEPT ![c] = k]
    /\ UNCHANGED <<serviceVars, request, attempts, outbox, published, subscribed, wireVars, past>>

RevokeClientSession(c) ==
    LET a == request[c].client IN
    /\ request[c] # NoRequest
    /\ SessionsAtOpen(a)[c] \in Held
    /\ session' = [SessionsAtOpen(a) EXCEPT ![c] = "removed"]
    /\ UNCHANGED <<serviceVars, request, clientKey, attempts, outbox, published, subscribed,
                   wireVars, past>>

-----------------------------------------------------------------------------
(* Both hosts.                                                              *)

\* active_topics() and every other registry() block without an effect here: the
\* purge alone is written.
Maintain(h) ==
    /\ \/ /\ h = Service
          /\ invitation' = InvitationsAtOpen
          /\ grant' = GrantsAtOpen
          /\ UNCHANGED session
       \/ /\ h \in Clients
          /\ session' = SessionsAtOpen(h)
          /\ UNCHANGED <<invitation, grant>>
    /\ <<invitation, grant, session>>' # <<invitation, grant, session>>
    /\ UNCHANGED <<replies, issued, severed, request, clientKey, attempts, outbox, published,
                   subscribed, wireVars, past>>

\* The worker, or its listener thread, dies and is started again: what was not in
\* the registry is lost.
Crash(h) ==
    /\ \/ h = Service /\ replies # {} /\ replies' = {} /\ UNCHANGED <<outbox, subscribed>>
       \/ /\ h \in Clients
          /\ outbox' = {c \in outbox : request[c].client # h}
          /\ subscribed' = [subscribed EXCEPT ![h] = FALSE]
          /\ <<outbox, subscribed>>' # <<outbox, subscribed>>
          /\ UNCHANGED replies
    /\ UNCHANGED <<invitation, grant, issued, severed, request, session, clientKey, attempts,
                   published, wireVars, past>>

\* Time passes a deadline on one host: of an invitation with a ttl, of a signed
\* request (both hosts check it) or of an acceptance (the client checks it).
Tick(h, d) ==
    /\ \/ d \in Invitations \ Permanent /\ invitation[d] # "unissued"
       \/ d \in Cids /\ request[d] # NoRequest /\ h \in {Service, request[d].client}
       \/ \E c \in Cids : <<c, d>> \in issued /\ h = request[c].client
    /\ past' = past \cup {<<h, d>>}
    /\ UNCHANGED <<serviceVars, clientVars, wireVars>>

Next ==
    \/ \E i \in Invitations : Generate(i) \/ RevokeInvitation(i)
    \/ \E c \in Cids : RevokeServiceSession(c) \/ ResendAcceptance(c)
    \/ \E c \in Cids, k \in Keys : GrantSession(c, k) \/ AcceptAcceptance(c, k)
    \/ PublishReply
    \/ \E a \in Clients, i \in Invitations, c \in Cids : Connect(a, i, c)
    \/ \E a \in Clients : Subscribe(a)
    \/ \E a \in Clients, due \in SUBSET Cids : RequestPass(a, due)
    \/ \E c \in Cids : PublishRequest(c) \/ RevokeClientSession(c)
    \/ \E h \in Hosts : Maintain(h) \/ Crash(h)
    \/ \E h \in Hosts, d \in Deadlines : Tick(h, d)

Spec == Init /\ [][Next]_vars

-----------------------------------------------------------------------------
(* Properties.                                                              *)

\* A session of the service lives only while the invitation it was derived from
\* is open: revoke() and the purge of registry() close both or neither, whatever
\* request is still in flight.
SessionNeedsInvitation ==
    \A c \in Cids : grant[c] # NoKey => invitation[request[c].invitation] = "open"

\* However often a request is retried, replayed or reordered, and whatever
\* crashes, the service signs one acceptance for it ("a repeated identical
\* request resends the original acceptance"), as long as the session alone was
\* never revoked on the service: then the next repeat gets new keys.
OneAcceptance ==
    \A c \in Cids, k, l \in Keys :
        c \notin severed /\ <<c, k>> \in issued /\ <<c, l>> \in issued => k = l

\* An active client and the service's session of the same connection id derive
\* their keys from the same acceptance, under the same proviso.
EndpointsAgree ==
    \A c \in Cids :
        session[c] = "active" /\ grant[c] # NoKey /\ c \notin severed => clientKey[c] = grant[c]

\* pending_requests reserves an attempt durably before it publishes, so a request
\* is published at most MaxAttempts times, crashes included.
BoundedRetries ==
    \A c \in Cids : published[c] <= attempts[c] /\ attempts[c] <= MaxAttempts

\* What makes the properties above inductive. A session's acceptance was issued;
\* an acceptance outlives its session only when that session alone was revoked
\* or the invitation is closed for good; what is on the wire, and what a client
\* pinned, was issued; a snapshot in flight holds one reserved attempt.
GrantIssued == \A c \in Cids : grant[c] # NoKey => <<c, grant[c]>> \in issued

GrantOutlivesOnlyItsInvitation ==
    \A c \in Cids, k \in Keys : <<c, k>> \in issued =>
        /\ request[c] # NoRequest
        /\ c \notin severed =>
              \/ grant[c] = k
              \/ grant[c] = NoKey /\ invitation[request[c].invitation] = "closed"

ReplyIssued == replies \subseteq issued
WireIssued == acceptances \subseteq issued
PinnedIssued == \A c \in Cids : session[c] = "active" => <<c, clientKey[c]>> \in issued

AttemptReserved ==
    /\ BoundedRetries
    /\ \A c \in outbox : published[c] < attempts[c]

\* A failed attempt dropped its ephemeral key: no acceptance, however late,
\* revives it.
FailedIsFinal ==
    [][\A c \in Cids : session[c] = "failed" => session'[c] \in {"failed", "removed"}]_vars

-----------------------------------------------------------------------------
(* Each connection id keeps the contract of SessionContract.                *)

ServiceEnd(c) ==
    CASE grant[c] # NoKey -> "up"
      [] grant[c] = NoKey /\ c \in severed -> "severed"
      [] grant[c] = NoKey /\ c \notin severed ->
            IF \E k \in Keys : <<c, k>> \in issued THEN "down" ELSE "none"

ClientEnd(c) ==
    CASE session[c] \in {"unused", "connecting"} -> "idle"
      [] session[c] = "active" -> "up"
      [] session[c] \in {"failed", "removed"} -> "down"

Contract(c) ==
    INSTANCE SessionContract WITH
        offers <- {k \in Keys : <<c, k>> \in issued},
        service <- ServiceEnd(c),
        client <- ClientEnd(c),
        pinned <- clientKey[c]

\* Every connection id implements the contract: one offer unless severed, a
\* closed end stays closed, the client joins once and with an offered key.
\* (This is Contract(c)!Spec of every c, with the quantifier inside the box.)
EveryConnectionKeepsContract ==
    /\ \A c \in Cids : Contract(c)!Init
    /\ [][\A c \in Cids : [Contract(c)!Next]_(Contract(c)!vars)]_vars

-----------------------------------------------------------------------------
(* Fairness. The worker starts a dead listener again, the refresher loops for *)
(* ever and opens the registry every two seconds, an entry is due again 15 s   *)
(* after its last attempt, and a publication returns or times out after 20 s.  *)

\* A pass of the refresher in which c is retried or given up.
PassOver(c) ==
    \E a \in Clients, due \in SUBSET Cids :
        c \in due \cup Exhausted(a) /\ RequestPass(a, due)

\* The code's own part: a subscription is followed by the pass, in which what is
\* due is treated, what the pass holds is published, the registry is opened.
RefresherRuns ==
    /\ \A c \in Cids : SF_vars(PassOver(c)) /\ WF_vars(PublishRequest(c))
    /\ \A a \in Clients : WF_vars(Maintain(a))

\* ASSUMED of the environment: of the subscriptions a client tries again and
\* again, some relay takes one. As in any fairness, a crash may hit every kind of
\* step, yet not every single attempt at it.
RelaysTakeSubscriptions == \A a \in Clients : SF_vars(Subscribe(a))

FairSpec == Spec /\ RefresherRuns /\ RelaysTakeSubscriptions

\* A connection request does not stay "connecting" for ever: it is accepted,
\* given up, revoked or expires, even if every publication is lost and the
\* broker crashes again and again, as long as relays take subscriptions. While
\* none does no attempt is counted: a request for a permanent invitation then
\* stays "connecting", because the pass comes after the subscription.
HandshakeResolves ==
    \A c \in Cids : session[c] = "connecting" ~> session[c] # "connecting"

=============================================================================
