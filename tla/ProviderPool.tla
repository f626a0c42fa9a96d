----------------------------- MODULE ProviderPool -----------------------------
(***************************************************************************)
(* The pool of model providers that classifies requests.  A request takes  *)
(* an order of the providers that are not cooling down, by the policy, and *)
(* tries them one by one; each outcome is recorded under the lock of that  *)
(* provider's health, and overlapping requests record in any order.        *)
(***************************************************************************)
EXTENDS Integers, FiniteSets, Sequences, SequencesExt

CONSTANTS
    ProviderCount,   \* number of enabled providers
    Policies,        \* routing policies
    Asking,          \* requests that may overlap
    Cooldowns,       \* ticks of cooldown after the first, second, ... failure in a row
    WindowSize,      \* latency samples kept
    Latencies,
    MaxClock

ASSUME ProviderPoolAssumption ==
    /\ ProviderCount \in Nat \ {0} /\ WindowSize \in Nat \ {0} /\ MaxClock \in Nat
    /\ Cooldowns \in Seq(Nat) /\ Cooldowns # <<>> /\ Latencies \subseteq Nat

Provider == 1 .. ProviderCount

VARIABLES
    policy,
    health,   \* ProviderHealth of each provider
    robin,    \* round_robin_index, modulo the number of providers
    clock,
    asking    \* what each request is doing

poolVars == <<policy, health, robin, clock, asking>>

NewHealth == [status |-> "unknown", failures |-> 0, until |-> 0, samples |-> <<>>]
Rest == [phase |-> "idle", order |-> <<>>, picked |-> <<>>, failed |-> {}, skipped |-> {}, intent |-> "none"]

PoolTypeOK ==
    /\ policy \in Policies /\ robin \in 0 .. ProviderCount - 1 /\ clock \in 0 .. MaxClock
    /\ \A i \in Provider :
          /\ health[i].status \in {"unknown", "healthy", "unhealthy"}
          /\ health[i].failures \in 0 .. Len(Cooldowns) /\ health[i].until \in Nat
          /\ health[i].samples \in Seq(Latencies) /\ Len(health[i].samples) <= WindowSize
    /\ \A r \in Asking :
          /\ asking[r].phase \in {"idle", "selecting", "trying", "answered"}
          /\ asking[r].order \in Seq(Provider) /\ asking[r].picked \in Seq([id: Provider, p50: Nat])
          /\ asking[r].failed \subseteq Provider /\ asking[r].skipped \subseteq Provider
          /\ asking[r].intent \in {"none", "rules", "provider"}

PoolInit ==
    /\ policy \in Policies
    /\ health = [i \in Provider |-> NewHealth]
    /\ robin = 0 /\ clock = 0 /\ asking = [r \in Asking |-> Rest]

-----------------------------------------------------------------------------
(* Health.                                                                  *)
IsAvailable(h) == h.status = "unhealthy" => clock >= h.until

(* The sample in the middle of the window, were it sorted.                  *)
P50(h) ==
    LET s == h.samples
        below(v) == Cardinality({k \in DOMAIN s : s[k] < v})
    IN IF s = <<>> THEN 0
       ELSE CHOOSE v \in Range(s) : below(v) <= Len(s) \div 2 /\ below(v + 1) > Len(s) \div 2

CooldownDuration(n) == Cooldowns[IF n < Len(Cooldowns) THEN n ELSE Len(Cooldowns)]

MutRecordSuccess(h, latency) ==   \* the window grows for ever
    [status |-> "healthy", failures |-> 0, until |-> 0, samples |-> Append(h.samples, latency)]

RecordSuccess(h, latency) ==
    LET samples == Append(h.samples, latency) IN
    [status |-> "healthy", failures |-> 0, until |-> 0,
     samples |-> IF Len(samples) > WindowSize THEN Tail(samples) ELSE samples]

(* The count of failures is kept up to the last step of the cooldown.       *)
RecordFailure(h) ==
    LET n == h.failures + 1 IN
    [h EXCEPT !.status = "unhealthy", !.failures = IF n > Len(Cooldowns) THEN Len(Cooldowns) ELSE n,
              !.until = clock + CooldownDuration(n)]

-----------------------------------------------------------------------------
(* classify.  Availability is looked at provider by provider, each under    *)
(* its own lock: order is then what is left to look at.                     *)
Rotated(start) == [k \in Provider |-> ((start + k - 1) % ProviderCount) + 1]

ClassifyBegins(r) ==
    /\ asking[r].phase \in {"idle", "answered"}
    /\ robin' = IF policy = "RoundRobin" THEN (robin + 1) % ProviderCount ELSE robin
    /\ asking' = [asking EXCEPT ![r] = [Rest EXCEPT !.phase = "selecting",
                     !.order = Rotated(IF policy = "RoundRobin" THEN robin ELSE 0)]]
    /\ UNCHANGED <<policy, health, clock>>

SelectProvider(r) ==
    /\ asking[r].phase = "selecting" /\ asking[r].order # <<>>
    /\ LET i == Head(asking[r].order) IN
       asking' = [asking EXCEPT ![r].order = Tail(@),
          ![r].picked = IF IsAvailable(health[i]) THEN Append(@, [id |-> i, p50 |-> P50(health[i])]) ELSE @,
          ![r].skipped = IF IsAvailable(health[i]) THEN @ ELSE @ \union {i}]
    /\ UNCHANGED <<policy, health, robin, clock>>

MutOrdersOf(picked) ==   \* the first that is available is all there is to try
    {IF picked = <<>> THEN <<>> ELSE <<picked[1].id>>}

(* By median latency, those with the same in the order of the list: the one *)
(* arrangement of the positions that sorts them.                            *)
Sooner(a, b) == a.p50 < b.p50 \/ (a.p50 = b.p50 /\ a.id < b.id)
Arrangements(picked) ==
    {p \in [DOMAIN picked -> DOMAIN picked] :
        \A j, k \in DOMAIN picked : j < k => p[j] # p[k] /\ Sooner(picked[p[j]], picked[p[k]])}
OrdersOf(picked) ==
    IF policy = "Latency" THEN {[k \in DOMAIN picked |-> picked[p[k]].id] : p \in Arrangements(picked)}
    ELSE {[k \in DOMAIN picked |-> picked[k].id]}

StartTrying(r) ==
    /\ asking[r].phase = "selecting" /\ asking[r].order = <<>>
    /\ \E order \in OrdersOf(asking[r].picked) :
         asking' = [asking EXCEPT ![r].phase = "trying", ![r].order = order, ![r].picked = <<>>]
    /\ UNCHANGED <<policy, health, robin, clock>>

ProviderAnswers(r, latency) ==
    /\ asking[r].phase = "trying" /\ asking[r].order # <<>>
    /\ health' = [health EXCEPT ![Head(asking[r].order)] = RecordSuccess(@, latency)]
    /\ asking' = [asking EXCEPT ![r].phase = "answered", ![r].order = <<>>, ![r].intent = "provider"]
    /\ UNCHANGED <<policy, robin, clock>>

(* The connect check or the request fails: the next one is tried.           *)
ProviderFails(r) ==
    /\ asking[r].phase = "trying" /\ asking[r].order # <<>>
    /\ health' = [health EXCEPT ![Head(asking[r].order)] = RecordFailure(@)]
    /\ asking' = [asking EXCEPT ![r].order = Tail(@), ![r].failed = @ \union {Head(asking[r].order)}]
    /\ UNCHANGED <<policy, robin, clock>>

(* route_with_pool: the rules decide when every provider failed.            *)
FallsBackToRules(r) ==
    /\ asking[r].phase = "trying" /\ asking[r].order = <<>>
    /\ asking' = [asking EXCEPT ![r].phase = "answered", ![r].intent = "rules"]
    /\ UNCHANGED <<policy, health, robin, clock>>

ClockTicks ==
    /\ clock < MaxClock /\ clock' = clock + 1
    /\ UNCHANGED <<policy, health, robin, asking>>

PoolNext ==
    \/ \E r \in Asking :
          \/ ClassifyBegins(r) \/ SelectProvider(r) \/ StartTrying(r)
          \/ \E latency \in Latencies : ProviderAnswers(r, latency)
          \/ ProviderFails(r) \/ FallsBackToRules(r)
    \/ ClockTicks

PoolSpec == PoolInit /\ [][PoolNext]_poolVars

-----------------------------------------------------------------------------
(* Properties.                                                              *)
(* A request is left to the rules only when every provider was cooling down *)
(* as it began or failed it, whatever overlapping requests recorded; and no *)
(* provider is tried twice.                                                 *)
RulesAreTheLastResort ==
    \A r \in Asking :
        /\ asking[r].intent = "rules" => asking[r].failed \union asking[r].skipped = Provider
        /\ \A k \in DOMAIN asking[r].order : asking[r].order[k] \notin asking[r].failed
=============================================================================
