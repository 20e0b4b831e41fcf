------------------------------- MODULE Policy -------------------------------
(***************************************************************************)
(* The policy bundle a BatchFabric instance is configured with             *)
(* (include/batch_fabric/policy.hpp) and the pure decisions taken from it: *)
(* deadlines, hard batch budgets, the allowed wait of a forming batch, the *)
(* batch former's seal-or-wait decision and the fairness order of tenants. *)
(*                                                                         *)
(* The four 64-bit sums a budget limits (input tokens, output tokens, work *)
(* and memory) are handled by identical code; one of them, the work, stands*)
(* for all four.  A zero limit means "unlimited", as in the code.          *)
(***************************************************************************)
EXTENDS Integers, Sequences

CONSTANTS
  Tenant,           \* tenant ids; naturals, because ties are broken by id
  MaxRequests,      \* budget.max_requests (0: unlimited)
  MaxWork,          \* budget.max_work (0: unlimited)
  Word,             \* number of values of a 64-bit unsigned sum
  MaxWait,          \* constraints.global_max_wait_ns (0: none)
  ClassWait,        \* wait.latency_max_wait_ns, a partial map from latency classes
  MinPreferred,     \* constraints.minimum_preferred_batch
  SoloSeal,         \* wait.immediate_seal_when_solo
  FairnessEnabled,  \* fairness.enabled
  Weight,           \* fairness.weight(t)
  MaxOutstanding,   \* fairness.max_outstanding_per_tenant (0: unlimited)
  MaxContribution,  \* fairness.max_contribution_per_batch (0: unlimited)
  MergeEnabled,     \* merge.enabled
  MaxMerges,        \* merge.max_merges_per_cycle
  RetryEnabled,     \* retry.enabled
  MaxAttempts       \* retry.max_attempts, the first attempt included

ASSUME PolicyAssumption ==
  /\ Tenant \subseteq Nat
  /\ {MaxRequests, MaxWork, MaxWait, MinPreferred, MaxOutstanding,
      MaxContribution, MaxMerges, MaxAttempts} \subseteq Nat
  /\ Word \in Nat \ {0}
  /\ Weight \in [Tenant -> Nat]
  /\ {SoloSeal, FairnessEnabled, MergeEnabled, RetryEnabled} \subseteq BOOLEAN

ASSUME WaitAssumption == \A c \in DOMAIN ClassWait : ClassWait[c] \in Nat

-----------------------------------------------------------------------------
(* Deadlines: 0 is "no deadline". *)

Expired(deadline, now) == deadline > 0 /\ now >= deadline

Remaining(deadline, now) == IF deadline > now THEN deadline - now ELSE 0

-----------------------------------------------------------------------------
(* Hard budgets. *)

(* Would a batch of count requests and this much work stay in the budget    *)
(* with addCount requests and addWork more?  The sum of the work wraps.     *)
AllowsAdd(count, work, addCount, addWork) ==
  /\ MaxRequests # 0 => count + addCount <= MaxRequests
  /\ MaxWork # 0 => (work + addWork) % Word <= MaxWork

(* A request no batch could ever hold is turned away at submission. *)
Oversized(work) == MaxWork # 0 /\ work > MaxWork

-----------------------------------------------------------------------------
(* Latency protection and the seal-or-wait decision. *)

(* The waits that bound a forming batch whose members have these metadata.  *)
(* The code folds them into their minimum; "elapsed >= the minimum" is      *)
(* "elapsed >= one of them".                                                *)
WaitLimits(metas, count, now) ==
  (IF MaxWait > 0 THEN {MaxWait} ELSE {})
    \cup {ClassWait[m.class] : m \in {n \in metas : n.class \in DOMAIN ClassWait}}
    \cup {Remaining(m.deadline, now) : m \in {n \in metas : n.deadline > 0}}
    \cup (IF SoloSeal /\ count = 1 THEN {0} ELSE {})

(* Faulty: the batch is sealed one instant after its limit. *)
DecideSealLate(formed, metas, count, work, more, now) ==
  \/ \E limit \in WaitLimits(metas, count, now) : now - formed > limit
  \/ MaxRequests # 0 /\ count >= MaxRequests
  \/ MaxWork # 0 /\ work >= MaxWork
  \/ ~more /\ (count >= MinPreferred \/ count = 0)

(* Faulty: no wait limit seals a batch. *)
DecideSealFull(formed, metas, count, work, more, now) ==
  \/ MaxRequests # 0 /\ count >= MaxRequests
  \/ MaxWork # 0 /\ work >= MaxWork
  \/ ~more /\ (count >= MinPreferred \/ count = 0)

(* BatchFormer::decide: seal the batch now, or keep waiting?                *)
(* more says whether compatible waiting requests were left over by the fill.*)
DecideSeal(formed, metas, count, work, more, now) ==
  \/ \E limit \in WaitLimits(metas, count, now) : now - formed >= limit
  \/ MaxRequests # 0 /\ count >= MaxRequests
  \/ MaxWork # 0 /\ work >= MaxWork
  \/ ~more /\ (count >= MinPreferred \/ count = 0)

-----------------------------------------------------------------------------
(* Fairness between tenants: served work over weight, ties by tenant id. *)

EffectiveWeight(t) == IF Weight[t] = 0 THEN 1 ELSE Weight[t]

MoreUnderServed(served, t, u) ==
  served[t] * EffectiveWeight(u) < served[u] * EffectiveWeight(t)

(* select_next: the tenant of ts the next place in a batch goes to. *)
IsNext(served, ts, t) ==
  \A u \in ts \ {t} :
    \/ MoreUnderServed(served, t, u)
    \/ ~MoreUnderServed(served, u, t) /\ t < u

AtOutstandingCap(outstanding, t) ==
  MaxOutstanding # 0 /\ outstanding[t] >= MaxOutstanding

(* note_completed never drives the outstanding work below zero. *)
Release(outstanding, work) == IF outstanding > work THEN outstanding - work ELSE 0
=============================================================================
