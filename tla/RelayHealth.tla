----------------------------- MODULE RelayHealth -----------------------------
(***************************************************************************)
(* relay_health.py: the limits a relay advertises (NIP-11), kept for       *)
(* CACHE_SECONDS, and the cooldown after it refused a publication or a     *)
(* subscription. Both are in relay_health.json, which the threads of the   *)
(* worker and of the tools read and write under the registry lock. Every   *)
(* process converts a cooldown to its monotonic clock when it first sees   *)
(* it. The wall clock, by which the file is written, may be set.           *)
(*                                                                         *)
(* Times are in units of the base cooldown. What the limits are, and the   *)
(* jitter that makes two cooldowns differ, is left out; a cooldown has a   *)
(* serial number instead.                                                  *)
(***************************************************************************)
EXTENDS Integers, FiniteSets, RelaySet

CONSTANTS
    Processes, Threads,
    Categories, Base(_),    \* what makes a cooldown: rate_limited, blocked ...
    CacheSeconds, MaxCooldown, MaxStrikes,
    Capacity,               \* entries of the file (128)
    MaxFetch, MaxPublish,   \* how long a fetch, and a publication, may take
    Skews, Drift,           \* how far the wall clock may be from the monotonic one, and be set
    MaxTime, MaxResults, MaxJumps    \* bounds of the model

Never == -1000  \* before any time: a time that was not set

ASSUME RelayHealthAssumption ==
    /\ Skews \subseteq Int /\ 0 \in Skews /\ \A s \in Skews : s > Never
    /\ Drift \in Nat /\ \A a, b \in Skews : a - b <= Drift
    /\ {CacheSeconds, MaxCooldown, MaxStrikes, Capacity, MaxFetch, MaxPublish} \subseteq Nat \ {0}
    /\ {MaxTime, MaxResults, MaxJumps} \subseteq Nat
    /\ \A c \in Categories : Base(c) \in 1 .. MaxCooldown

VARIABLES
    now, skew, jumps, \* the monotonic clock, and how far the wall clock is ahead
    known,       \* relays with an entry in the file
    health,      \* the entries
    deadlines,   \* _deadlines of each process: cooldowns by the monotonic clock
    thread,      \* a publication: it discovers a relay and then selects
    results      \* answers of relays observed so far

clocks == <<now, skew, jumps>>
file == <<known, health>>
healthVars == <<clocks, file, deadlines, thread, results>>

wall == now + skew
NoUntil == [serial |-> 0, time |-> Never]
\* An entry: when the limits were recorded (by the wall clock), strikes, the cooldown. The
\* last three fields are what really happened, by the monotonic clock: when the relay gave
\* these limits, when it refused and the wait it was then given.
NoEntry == [checked |-> Never, strikes |-> 0, until |-> NoUntil,
            said |-> Never, refused |-> Never, wait |-> 0]
NoDeadline == [until |-> [serial |-> -1, time |-> 0], end |-> 0]
Idle == [step |-> "idle", since |-> 0, said |-> Never]

Untils == [serial : 0 .. MaxResults, time : Int]
Entries == [checked : Int, strikes : 0 .. MaxStrikes, until : Untils,
            said : Int, refused : Int, wait : Int]
Deadlines == {NoDeadline} \cup [until : Untils, end : Int]
Works == [relay : Relays, since : 0 .. MaxTime, said : Int, step : {"fetching", "answered", "selecting"}]

HealthTypeOK ==
    /\ now \in 0 .. MaxTime /\ skew \in Skews /\ jumps \in 0 .. MaxJumps /\ results \in 0 .. MaxResults
    /\ known \subseteq Relays
    /\ health \in [Relays -> Entries]
    /\ deadlines \in [Processes -> [Relays -> Deadlines]]
    /\ \A r \in Relays : health[r].wait <= MaxCooldown /\ (r \notin known => health[r] = NoEntry)
    /\ thread \in [Threads -> {Idle} \cup Works]

HealthInit ==
    /\ now = 0 /\ skew = 0 /\ jumps = 0 /\ results = 0
    /\ known = {} /\ health = [r \in Relays |-> NoEntry]
    /\ deadlines = [p \in Processes |-> [r \in Relays |-> NoDeadline]]
    /\ thread = [t \in Threads |-> Idle]

-----------------------------------------------------------------------------
(* Clocks and processes.                                                    *)

\* Fetches and publications time out.
Tick ==
    /\ now < MaxTime
    /\ \A t \in Threads : thread[t].step # "idle" =>
          now < thread[t].since + (IF thread[t].step = "selecting" THEN MaxPublish ELSE MaxFetch)
    /\ now' = now + 1
    /\ UNCHANGED <<skew, jumps, file, deadlines, thread, results>>

SetClock ==
    /\ jumps < MaxJumps /\ jumps' = jumps + 1
    /\ skew' \in Skews \ {skew}
    /\ UNCHANGED <<now, file, deadlines, thread, results>>

\* A process starts again, or _deadlines was full.
Forget(p) ==
    /\ deadlines' = [deadlines EXCEPT ![p] = [r \in Relays |-> NoDeadline]]
    /\ UNCHANGED <<clocks, file, thread, results>>

-----------------------------------------------------------------------------
(* _discover().                                                             *)

Fresh(r) == wall - health[r].checked < CacheSeconds

Discover(t, r) ==
    /\ thread[t] = Idle
    /\ thread' = [thread EXCEPT ![t] =
          [relay |-> r, since |-> now, step |-> IF Fresh(r) THEN "selecting" ELSE "fetching", said |-> Never]]
    /\ UNCHANGED <<clocks, file, deadlines, results>>

\* fetch_information() without the lock. It may fail: the limits are then unknown.
Answer(t) ==
    /\ thread[t].step = "fetching"
    /\ thread' = [thread EXCEPT ![t].step = "answered", ![t].said = now]
    /\ UNCHANGED <<clocks, file, deadlines, results>>

NoRoom(r) == r \notin known /\ Cardinality(known) >= Capacity

\* The limits are stored, unless the file is full; then the publication fails.
Store(t) ==
    /\ thread[t].step = "answered"
    /\ LET r == thread[t].relay IN
       IF NoRoom(r) THEN thread' = [thread EXCEPT ![t] = Idle] /\ UNCHANGED file
       ELSE /\ known' = known \cup {r}
            /\ health' = [health EXCEPT ![r] = [@ EXCEPT !.checked = wall, !.said = thread[t].said]]
            /\ thread' = [thread EXCEPT ![t].step = "selecting", ![t].since = now]
    /\ UNCHANGED <<clocks, deadlines, results>>

\* The publication is over, at any point; a fetch ends with its process.
End(t) ==
    /\ thread[t] # Idle /\ thread' = [thread EXCEPT ![t] = Idle]
    /\ UNCHANGED <<clocks, file, deadlines, results>>

-----------------------------------------------------------------------------
(* observe(), remaining() and eligible().                                   *)

\* Mutant: the answer also renews the limits.
AcceptedRenews(r) ==
    /\ known' = known \cup {r}
    /\ health' = [health EXCEPT ![r] =
          [@ EXCEPT !.strikes = 0, !.until = NoUntil, !.refused = Never, !.wait = 0, !.checked = wall]]

Accepted(r) ==
    /\ known' = known \cup {r}
    /\ health' = [health EXCEPT ![r] =
          [@ EXCEPT !.strikes = 0, !.until = NoUntil, !.refused = Never, !.wait = 0]]

Smaller(a, b) == IF a < b THEN a ELSE b

\* Mutant: the doubling is not capped.
WaitUncapped(c, strikes) == Base(c) * 2 ^ (strikes - 1)

Wait(c, strikes) == Smaller(MaxCooldown, Base(c) * 2 ^ (strikes - 1))

Refused(r, c) ==
    LET strikes == Smaller(MaxStrikes, health[r].strikes + 1)
        wait == Wait(c, strikes) IN
    /\ known' = known \cup {r}
    /\ health' = [health EXCEPT ![r] = [@ EXCEPT !.strikes = strikes, !.refused = now, !.wait = wait,
                                !.until = [serial |-> results + 1, time |-> wall + wait]]]

\* An answer of r, or a warning. Without room it is not noted; any other category only
\* replaces the diagnostics.
Observe(r) ==
    /\ results < MaxResults /\ results' = results + 1
    /\ IF NoRoom(r) THEN UNCHANGED file
       ELSE Accepted(r) \/ \E c \in Categories : Refused(r, c)
    /\ UNCHANGED <<clocks, deadlines, thread>>

\* Mutant: a deadline is kept whatever was observed since.
DeadlineKept(p, r) ==
    IF deadlines[p][r] # NoDeadline THEN deadlines[p][r]
    ELSE LET left == health[r].until.time - wall IN
         [until |-> health[r].until, end |-> now + Smaller(MaxCooldown, IF left < 0 THEN 0 ELSE left)]

Deadline(p, r) ==
    IF deadlines[p][r].until = health[r].until THEN deadlines[p][r]
    ELSE LET left == health[r].until.time - wall IN
         [until |-> health[r].until, end |-> now + Smaller(MaxCooldown, IF left < 0 THEN 0 ELSE left)]

Cooling(p, r) == Deadline(p, r).end > now

\* eligible() or snapshot() of a process.
Look(p, r) ==
    /\ deadlines' = [deadlines EXCEPT ![p][r] = Deadline(p, r)]
    /\ UNCHANGED <<clocks, file, thread, results>>

HealthNext ==
    \/ Tick \/ SetClock
    \/ \E p \in Processes : Forget(p) \/ \E r \in Relays : Look(p, r)
    \/ \E t \in Threads : Answer(t) \/ Store(t) \/ End(t) \/ \E r \in Relays : Discover(t, r)
    \/ \E r \in Relays : Observe(r)

HealthSpec == HealthInit /\ [][HealthNext]_healthVars

-----------------------------------------------------------------------------
(* Properties.                                                              *)

\* A publication selects by limits ("a fifteen-minute cache", CONNECTIONS.md) that the
\* relay gave at most that long before, but for the fetch, the publication itself and
\* the setting of the clock; also when an older answer was stored after a newer one.
LimitsAreRecent ==
    \A t \in Threads : thread[t].step = "selecting" =>
        now - health[thread[t].relay].said < CacheSeconds + MaxFetch + MaxPublish + Drift

\* No process selects a relay before the wait it was given ("persistent"), also one that
\* saw an earlier cooldown or none, and after a restart.
WaitIsKept ==
    \A p \in Processes, r \in known :
        health[r].wait > 0 /\ ~Cooling(p, r) => now >= health[r].refused + health[r].wait - Drift

\* No process excludes a relay longer than MAX_COOLDOWN after its last refusal ("bounded"),
\* whatever it saw before.
CooldownEnds ==
    \A p \in Processes, r \in known :
        Cooling(p, r) => now < health[r].refused + MaxCooldown + Drift

=============================================================================
