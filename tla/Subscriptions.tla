---------------------------- MODULE Subscriptions ----------------------------
(***************************************************************************)
(* The relay subscription of a listener (_run_listener_loop and            *)
(* subscribe_topics in nostr_relay.py, _subscribe in connections.py). One  *)
(* subscription covers the topics of the registry. The start of the        *)
(* listener, its refresher and its event handler replace it, and note in   *)
(* ACTIVE_LISTENER_TOPICS what they asked for once the call has returned.  *)
(* A chat's tools change the registry at any time.                         *)
(*                                                                         *)
(* The SDK is external: calls take effect in the order they were made, and *)
(* return in any order. A call succeeds if one relay took it. A topic is   *)
(* derived from a fresh key and never used again.                          *)
(***************************************************************************)
EXTENDS Naturals, Sequences, RelaySet

CONSTANTS
    Topics,
    Main, Refresher, Handler, \* the coroutines of a listener
    NoTopic,
    MaxDeaths                 \* bound of the model

Tasks == {Main, Refresher, Handler}

ASSUME SubscriptionsAssumption ==
    /\ Main # Refresher /\ Main # Handler /\ Refresher # Handler
    /\ NoTopic \notin Topics /\ Relays # {} /\ MaxDeaths \in Nat

VARIABLES
    fresh,      \* topics that were not used yet
    topics,     \* active_topics(): those of the registry
    connecting, granted, \* among them: a client's that asks, a service's that was asked
    listening,  \* ACTIVE_LISTENER_TOPICS
    at,         \* what each relay has as the subscription
    calls,       \* of each coroutine: the topics of its last call, and what came of it
    order,      \* the calls that did not take effect yet
    loop,       \* of the listener
    position, topic, \* of each coroutine: its position, and the topic it works for
    todo,       \* requests that pending_requests() still has to publish
    deaths

registry == <<fresh, topics, connecting, granted>>
relay == <<at, calls, order>>
tasks == <<position, topic, todo>>
listenerVars == <<registry, listening, relay, loop, tasks, deaths>>

ListenerTypeOK ==
    /\ fresh \subseteq Topics /\ topics \subseteq Topics
    /\ connecting \subseteq topics /\ granted \subseteq topics
    /\ listening \subseteq Topics /\ todo \subseteq Topics
    /\ at \in [Relays -> SUBSET Topics]
    /\ calls \in [Tasks -> [topics : SUBSET Topics, status : {"none", "asked", "taken", "failed"}]]
    /\ order \in Seq(Tasks) /\ \A i, j \in 1 .. Len(order) : order[i] = order[j] => i = j
    /\ loop \in {"down", "starting", "running"}
    /\ position \in [Tasks -> {"idle", "refreshing", "requesting", "subscribing", "publishing"}]
    /\ topic \in [Tasks -> Topics \cup {NoTopic}]
    /\ deaths \in 0 .. MaxDeaths

NoCall == [topics |-> {}, status |-> "none"]

ListenerInit ==
    /\ fresh = Topics /\ topics = {} /\ connecting = {} /\ granted = {}
    /\ listening = {} /\ at = [r \in Relays |-> {}]
    /\ calls = [k \in Tasks |-> NoCall] /\ order = <<>>
    /\ loop = "down" /\ deaths = 0
    /\ position = [k \in Tasks |-> "idle"] /\ topic = [k \in Tasks |-> NoTopic] /\ todo = {}

-----------------------------------------------------------------------------
(* The registry, as far as subscriptions depend on it.                      *)

\* generate() of an invitation, and connect() of a client's session.
AddTopic(t, connects) ==
    /\ t \in fresh
    /\ fresh' = fresh \ {t} /\ topics' = topics \cup {t}
    /\ connecting' = IF connects THEN connecting \cup {t} ELSE connecting
    /\ UNCHANGED <<granted, listening, relay, loop, tasks, deaths>>

\* revoke(), or expiry and the purge.
RemoveTopic(t) ==
    /\ t \in topics
    /\ topics' = topics \ {t} /\ connecting' = connecting \ {t} /\ granted' = granted \ {t}
    /\ UNCHANGED <<fresh, listening, relay, loop, tasks, deaths>>

-----------------------------------------------------------------------------
(* subscribe_topics() and the SDK.                                          *)

Ask(k, set) ==
    /\ calls' = [calls EXCEPT ![k] = [topics |-> set, status |-> "asked"]]
    /\ order' = Append(order, k)
    /\ UNCHANGED at

\* The next call takes effect at some relays; without one it fails, unless it only
\* unsubscribes.
TakeEffect(rs) ==
    /\ order # <<>>
    /\ LET k == Head(order) IN
       /\ at' = [r \in Relays |-> IF r \in rs THEN calls[k].topics ELSE at[r]]
       /\ calls' = [calls EXCEPT ![k].status =
                      IF rs # {} \/ calls[k].topics = {} THEN "taken" ELSE "failed"]
       /\ order' = Tail(order)
    /\ UNCHANGED <<registry, listening, loop, tasks, deaths>>

\* The await of k returns, without or with PublishError.
Returned(k) == calls[k].status = "taken" /\ calls' = [calls EXCEPT ![k] = NoCall] /\ UNCHANGED <<at, order>>
Raised(k) == calls[k].status = "failed" /\ calls' = [calls EXCEPT ![k] = NoCall] /\ UNCHANGED <<at, order>>

-----------------------------------------------------------------------------
(* The listener thread.                                                     *)

\* The first subscription of a new client. Its topics are noted before the call, when no
\* other coroutine runs yet.
Start ==
    /\ loop = "down"
    /\ listening' = topics
    /\ IF topics = {} THEN loop' = "running" /\ UNCHANGED relay
       ELSE loop' = "starting" /\ Ask(Main, topics)
    /\ UNCHANGED <<registry, tasks, deaths>>

Started ==
    /\ loop = "starting"
    /\ \/ Returned(Main) /\ loop' = "running"
       \/ Raised(Main) /\ loop' = "down"
    /\ UNCHANGED <<registry, listening, tasks, deaths>>

\* The loop ends, with its coroutines and its client; the worker starts another one.
Die ==
    /\ loop = "running" /\ deaths < MaxDeaths
    /\ deaths' = deaths + 1 /\ loop' = "down"
    /\ at' = [r \in Relays |-> {}] /\ calls' = [k \in Tasks |-> NoCall] /\ order' = <<>>
    /\ position' = [k \in Tasks |-> "idle"] /\ topic' = [k \in Tasks |-> NoTopic] /\ todo' = {}
    /\ UNCHANGED <<registry, listening>>

At(k, s) == loop = "running" /\ position[k] = s
Go(k, s, t) == position' = [position EXCEPT ![k] = s] /\ topic' = [topic EXCEPT ![k] = t]

\* _subscribe(): the topics are read when a topic is missing, just before the call.
Subscribe(k, t, known) ==
    IF t \notin listening
    THEN Ask(k, known) /\ Go(k, "subscribing", t)
    ELSE UNCHANGED relay /\ Go(k, "publishing", t)

\* The call of _subscribe() returned: the topics are noted, the control message follows.
Subscribed(k) ==
    /\ At(k, "subscribing")
    /\ Returned(k) /\ listening' = calls[k].topics /\ Go(k, "publishing", topic[k])
    /\ UNCHANGED <<registry, loop, todo, deaths>>

\* A control message was published, or its subscription or publication failed.
Finish(k) ==
    /\ \/ At(k, "publishing") /\ UNCHANGED relay
       \/ At(k, "subscribing") /\ Raised(k)
    /\ Go(k, IF k = Refresher /\ todo # {} THEN "requesting" ELSE "idle", NoTopic)
    /\ UNCHANGED <<registry, listening, loop, todo, deaths>>

\* pending_requests() collects the requests that are due.
CollectDue ==
    \E due \in SUBSET connecting :
        todo' = due /\ Go(Refresher, IF due = {} THEN "idle" ELSE "requesting", NoTopic)

\* Mutant: the topics are noted before the call.
PassNotesEarly ==
    /\ At(Refresher, "idle")
    /\ listening' = topics
    /\ IF topics # listening
       THEN Ask(Refresher, topics) /\ Go(Refresher, "refreshing", NoTopic) /\ UNCHANGED todo
       ELSE CollectDue /\ UNCHANGED relay
    /\ UNCHANGED <<registry, loop, deaths>>

\* A pass of _topic_refresher().
Pass ==
    /\ At(Refresher, "idle")
    /\ IF topics # listening
       THEN Ask(Refresher, topics) /\ Go(Refresher, "refreshing", NoTopic) /\ UNCHANGED todo
       ELSE CollectDue /\ UNCHANGED relay
    /\ UNCHANGED <<registry, listening, loop, deaths>>

\* Mutant: the topics are noted although the call failed.
RefreshedAnyway ==
    /\ At(Refresher, "refreshing")
    /\ listening' = calls[Refresher].topics
    /\ \/ Returned(Refresher) /\ CollectDue
       \/ Raised(Refresher) /\ Go(Refresher, "idle", NoTopic) /\ UNCHANGED todo
    /\ UNCHANGED <<registry, loop, deaths>>

Refreshed ==
    /\ At(Refresher, "refreshing")
    /\ \/ Returned(Refresher) /\ listening' = calls[Refresher].topics /\ CollectDue
       \/ Raised(Refresher) /\ Go(Refresher, "idle", NoTopic) /\ UNCHANGED <<listening, todo>>
    /\ UNCHANGED <<registry, loop, deaths>>

Request(t) ==
    /\ At(Refresher, "requesting") /\ t \in todo
    /\ todo' = todo \ {t}
    /\ Subscribe(Refresher, t, topics)
    /\ UNCHANGED <<registry, listening, loop, deaths>>

\* accept_control() of a connection request: a session is granted, or its acceptance is
\* sent again.
Grant(t) ==
    /\ At(Handler, "idle") /\ t \in fresh \cup granted
    /\ fresh' = fresh \ {t} /\ topics' = topics \cup {t} /\ granted' = granted \cup {t}
    /\ Subscribe(Handler, t, topics \cup {t})
    /\ UNCHANGED <<connecting, listening, loop, todo, deaths>>

ListenerNext ==
    \/ \E t \in Topics, b \in BOOLEAN : AddTopic(t, b)
    \/ \E t \in Topics : RemoveTopic(t) \/ Request(t) \/ Grant(t)
    \/ \E rs \in SUBSET Relays : TakeEffect(rs)
    \/ \E k \in Tasks : Subscribed(k) \/ Finish(k)
    \/ Start \/ Started \/ Die \/ Pass \/ Refreshed

ListenerSpec == ListenerInit /\ [][ListenerNext]_listenerVars

\* The coroutines run on, publications time out, the worker starts its listener again.
\* A relay that is asked again and again accepts a subscription at last.
ListenerFairSpec ==
    /\ ListenerSpec
    /\ WF_listenerVars(Start \/ Started)
    /\ WF_listenerVars(Pass \/ Refreshed \/ \E t \in Topics : Request(t))
    /\ \A k \in Tasks : WF_listenerVars(Subscribed(k) \/ Finish(k))
    /\ WF_listenerVars(\E rs \in SUBSET Relays : TakeEffect(rs))
    /\ \A k \in Tasks :
          SF_listenerVars(/\ order # <<>> /\ Head(order) = k
                          /\ \E rs \in SUBSET Relays \ {{}} : TakeEffect(rs))

-----------------------------------------------------------------------------
(* Properties.                                                              *)

\* A relay has t in its subscription.
Covered(t) == \E r \in Relays : t \in at[r]

\* "Subscription happens before control publication" (CONNECTIONS.md): while a request
\* or an acceptance is published, an answer to it can be received, whatever the other
\* coroutine replaces or notes meanwhile.
SubscribedFirst == \A k \in Tasks : position[k] = "publishing" /\ topic[k] \in topics => Covered(topic[k])

\* An active topic is in the subscription for good, also after failed calls, a new
\* listener, and overlapping calls that note their topics in another order.
TopicsAreCovered == \A t \in Topics : <>[](t \in topics => Covered(t))

=============================================================================
