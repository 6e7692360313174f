---------------------------- MODULE DeadlineFlow ----------------------------
(***************************************************************************)
(* The execution-plan selector of one lane (core/protocol/deadline_flow.h):*)
(* a portfolio of plans, an estimate of each plan's latency, and the plan  *)
(* observed last.                                                          *)
(*                                                                         *)
(* max stands for 2^64 - 1.  A hardware mask is the set of its bits, and a *)
(* quality is a whole number of hundredths, NotFinite when it is a NaN or  *)
(* infinite.                                                               *)
(***************************************************************************)
EXTENDS Integers, Sequences, FiniteSets, FiniteSetsExt, Folds

CONSTANTS Portfolios,   \* the portfolios given to create
          Contexts,     \* the contexts given to select
          Latencies,    \* the latencies given to observe
          kMaxPlans,
          max

ASSUME FlowAssumption ==
  /\ \A p \in Portfolios : /\ Len(p) \in Nat
                           /\ \A i \in 1..Len(p) : p[i].latency_ns \in Nat
  /\ Latencies \subseteq Nat

VARIABLES plans,        \* plans_ and count_
          estimates,    \* estimates_
          last_plan,    \* last_, 0 when there is none
          worst         \* ghost: the largest latency observed of each plan

flow_vars == <<plans, estimates, last_plan, worst>>

NotFinite == -1
Nothing == 0            \* no plan: plan identifiers are positive

Larger(a, b) == IF a >= b THEN a ELSE b
Smaller(a, b) == IF a <= b THEN a ELSE b

IsQuality(q) == q # NotFinite /\ 0 <= q /\ q <= 100

\* create accepts the portfolio.
Valid(portfolio) ==
  /\ portfolio # <<>> /\ Len(portfolio) <= kMaxPlans
  /\ \A i \in 1..Len(portfolio) :
       /\ portfolio[i].steps # 0 /\ portfolio[i].latency_ns # 0
       /\ portfolio[i].hardware_mask # {} /\ IsQuality(portfolio[i].quality)
       /\ \A j \in 1..(i - 1) : portfolio[j].id # portfolio[i].id

buffer_ns(c) ==
  IF c.period_ns # 0 /\ c.buffered_actions > max \div c.period_ns
  THEN max ELSE c.buffered_actions * c.period_ns

budget(c) ==
  IF c.buffered_actions = 0 THEN c.slack_ns ELSE Smaller(c.slack_ns, buffer_ns(c))

Eligible(plan, c) ==
  /\ plan.hardware_mask \subseteq c.hardware_mask
  /\ plan.memory_bytes <= c.available_memory_bytes
  /\ plan.quality >= c.minimum_quality

switching(i, c) == IF last_plan # Nothing /\ last_plan # plans[i].id THEN c.switch_ns ELSE 0

Affordable(i, c) ==
  LET available == budget(c) - c.reserve_ns
  IN  switching(i, c) <= available /\ estimates[i] <= available - switching(i, c)

\* Mutation for SelectsBest: a tie is settled in favour of the later plan.
BetterLater(i, best, cost, best_cost) ==
  best = 0 \/ plans[i].quality >= plans[best].quality

Better(i, best, cost, best_cost) ==
  \/ best = 0
  \/ plans[i].quality > plans[best].quality
  \/ plans[i].quality = plans[best].quality /\ cost < best_cost

\* One round of the loop over the plans.
Considered(chosen, i, c) ==
  LET cost == estimates[i] + switching(i, c)
  IN  IF Eligible(plans[i], c) /\ Affordable(i, c) /\ Better(i, chosen.best, cost, chosen.best_cost)
      THEN [best |-> i, best_cost |-> cost] ELSE chosen

select(c) ==
  IF ~c.healthy \/ ~IsQuality(c.minimum_quality) \/ budget(c) <= c.reserve_ns THEN Nothing
  ELSE LET chosen == MapThenFoldSet(LAMBDA i, before : Considered(before, i, c),
                                    [best |-> 0, best_cost |-> max], LAMBDA i : i,
                                    LAMBDA S : Max(S), 1..Len(plans))
       IN  IF chosen.best = 0 THEN Nothing ELSE plans[chosen.best].id

\* Mutation for EstimateInRange: the estimate falls below the calibrated floor.
UpdatedUnfloored(i, latency_ns) == Larger(latency_ns, estimates[i] - estimates[i] \div 8)

Updated(i, latency_ns) ==
  Larger(plans[i].latency_ns, Larger(latency_ns, estimates[i] - estimates[i] \div 8))

observe(id, latency_ns) ==
  /\ latency_ns # 0
  /\ \E i \in 1..Len(plans) :
       /\ plans[i].id = id
       /\ estimates' = [estimates EXCEPT ![i] = Updated(i, latency_ns)]
       /\ worst' = [worst EXCEPT ![i] = Larger(@, latency_ns)]
  /\ last_plan' = id
  /\ UNCHANGED plans

\* Before create there is no selector.
FlowInit == plans = <<>> /\ estimates = <<>> /\ worst = <<>> /\ last_plan = Nothing

create(portfolio) ==
  /\ plans = <<>> /\ Valid(portfolio)
  /\ plans' = portfolio
  /\ estimates' = [i \in 1..Len(portfolio) |-> portfolio[i].latency_ns]
  /\ worst' = [i \in 1..Len(portfolio) |-> 0]
  /\ UNCHANGED last_plan

\* An observation of no plan, or of latency zero, is refused.
FlowNext ==
  \/ \E portfolio \in Portfolios : create(portfolio)
  \/ \E id \in {plans[i].id : i \in 1..Len(plans)}, latency_ns \in Latencies :
       observe(id, latency_ns)

FlowSpec == FlowInit /\ [][FlowNext]_flow_vars

(***************************************************************************)
(* Properties.                                                             *)
(***************************************************************************)

\* The estimate of a plan never falls below its calibrated latency and never
\* exceeds what has been measured of it, so a slowdown is believed at once and
\* a recovered plan comes back, whatever the order of observations.
EstimateInRange ==
  \A i \in 1..Len(plans) :
    plans[i].latency_ns <= estimates[i] /\ estimates[i] <= Larger(plans[i].latency_ns, worst[i])

\* The plan selected is one whose hardware, memory, quality and time (switching
\* included) fit the context; none that fits has a better quality, or the same
\* quality at a lower cost; and nothing is selected only when nothing fits.  A
\* buffered time beyond 64 bits saturates instead of shrinking the budget.
SelectsBest ==
  plans # <<>> => \A c \in Contexts :
    LET room == (IF c.buffered_actions = 0 THEN c.slack_ns
                 ELSE Min({c.slack_ns, c.buffered_actions * c.period_ns})) - c.reserve_ns
        cost(i) == estimates[i] + switching(i, c)
        fits == {i \in 1..Len(plans) : /\ c.healthy /\ c.minimum_quality \in 0..100
                                       /\ Eligible(plans[i], c) /\ 0 < room /\ cost(i) <= room}
        first == CHOOSE i \in fits :
                   \A j \in fits \ {i} :
                     \/ plans[i].quality > plans[j].quality
                     \/ /\ plans[i].quality = plans[j].quality
                        /\ cost(i) < cost(j) \/ (cost(i) = cost(j) /\ i < j)
    IN  select(c) = IF fits = {} THEN Nothing ELSE plans[first].id
=============================================================================
