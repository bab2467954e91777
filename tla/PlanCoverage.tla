---------------------------- MODULE PlanCoverage ----------------------------
(***************************************************************************)
(* The receivable plans of one effective contract and the check that keeps *)
(* their total at or below the contract amount and asks for the finance    *)
(* override when they drift from it.                                       *)
(*                                                                         *)
(* The database runs at REPEATABLE READ: the first plain SELECT of a       *)
(* transaction fixes the committed state (the read view) that all its      *)
(* later plain SELECTs see, whatever locks it takes in between.  The       *)
(* contract lock of inspectPlanCoverage is taken by a locking read, the    *)
(* plan total behind it is a plain SELECT.  CreateManualPlan and           *)
(* AdjustPlan open their view in RequireContractAccessTx, before they      *)
(* queue for that lock, so they are two steps here; ConfirmPlan locks the  *)
(* contract row in its first statement and is one.  What runs after the    *)
(* lock is granted cannot interleave with another change of the contract's *)
(* plans, and the lock is released by the commit or rollback that ends the *)
(* step.  Contracts on import HOLD are not modelled here.                  *)
(***************************************************************************)
EXTENDS Naturals, FiniteSets, FiniteSetsExt

CONSTANTS EventPlans,      \* plans written with the contract event
          ManualPlans,     \* ids of plans created by hand
          Sessions,        \* API requests in flight
          Amounts,         \* amounts requests ask for
          ContractAmount,  \* contract_amount of the snapshot
          GapLimit,        \* SETTLEMENT_PLAN_COVERAGE_GAP_PERCENT
          DropLimit        \* SETTLEMENT_PLAN_COVERAGE_DROP_PERCENT

ASSUME CoverageAssumption ==
    /\ EventPlans \cap ManualPlans = {}
    /\ IsFiniteSet(EventPlans) /\ IsFiniteSet(ManualPlans)
    /\ Amounts \subseteq Nat \ {0}
    /\ ContractAmount \in Nat \ {0}
    /\ GapLimit \in 0 .. 100 /\ DropLimit \in 0 .. 100

Plans == EventPlans \cup ManualPlans
NoAmount == 0                       \* amounts are positive: no such plan

VARIABLES
    plan,     \* committed rows: plan -> [amount, confirmed]
    request,  \* session -> the request between its two steps, or NoRequest
    audit     \* the SETTLEMENT_PLAN_COVERAGE_DEVIATION row written with the
              \* latest change: a set of at most one row

vars == <<plan, request, audit>>

NoRequest == [op |-> "none"]

Rows == [amount : Amounts \cup {NoAmount}, confirmed : BOOLEAN]
Views == [Plans -> Amounts \cup {NoAmount}]
Requests == [op : {"create", "adjust"}, plan : Plans, amount : Amounts, 
             override : BOOLEAN, view : Views]
Audits == [total : Nat, high : BOOLEAN, override : BOOLEAN]

Committed == [p \in Plans |-> plan[p].amount]
Total(amounts) == MapThenSumSet(LAMBDA p : amounts[p], Plans)

\* The plans of the event add up to the contract amount (a contract whose terms
\* do not is HELD and has no effective snapshot).
Init ==
    /\ plan \in [Plans -> Rows]
    /\ \A p \in Plans : /\ ~ plan[p].confirmed
                        /\ plan[p].amount = NoAmount <=> p \in ManualPlans
    /\ Total(Committed) = ContractAmount
    /\ request = [s \in Sessions |-> NoRequest]
    /\ audit = {}

-----------------------------------------------------------------------------
Distance(m, n) == IF m > n THEN m - n ELSE n - m

GapExceeds(total) ==
    100 * Distance(ContractAmount, total) > GapLimit * ContractAmount

DropExceeds(before, after) ==
    before # NoAmount /\ after < before
      /\ 100 * (before - after) > DropLimit * before

\* Mutant: the plan being replaced is counted at its old amount.
CoverageTotalKeepsOld(view, p, amount) == Total(view)

\* inspectPlanCoverage: every other plan as the view has it, and the new amount.
CoverageTotal(view, p, amount) == Total([view EXCEPT ![p] = amount])

\* Mutant: only a drop of the one installment asks for the override.
CoveredByDropOnly(total, before, amount, override) ==
    /\ total <= ContractAmount
    /\ DropExceeds(before, amount) => override

\* requirePlanCoverage for a plan that goes from `before` to `amount`.
Covered(total, before, amount, override) ==
    /\ total <= ContractAmount
    /\ GapExceeds(total) \/ DropExceeds(before, amount) => override

\* auditPlanCoverageDeviation writes nothing when the gap is zero.
Deviation(total, before, amount, override) ==
    IF total = ContractAmount THEN {}
    ELSE {[total |-> total, override |-> override,
           high |-> GapExceeds(total) \/ DropExceeds(before, amount)]}

\* What all three requests do once they hold the contract lock.
Change(view, p, before, amount, override, confirmed) ==
    LET total == CoverageTotal(view, p, amount) IN
    /\ Covered(total, before, amount, override)
    /\ plan' = [plan EXCEPT ![p] = [amount |-> amount, confirmed |-> confirmed]]
    /\ audit' = Deviation(total, before, amount, override)

-----------------------------------------------------------------------------
\* RequireContractAccessTx of CreateManualPlan and AdjustPlan: the read view.
OpenView(s, op, p, amount, override) ==
    /\ request[s] = NoRequest
    /\ request' = [request EXCEPT ![s] =
         [op |-> op, plan |-> p, amount |-> amount, override |-> override,
          view |-> Committed]]
    /\ UNCHANGED <<plan, audit>>

StartCreateManualPlan(s, p, amount, override) ==
    /\ p \in ManualPlans
    /\ OpenView(s, "create", p, amount, override)

\* AdjustPlan first locks the confirmed plan row: one adjustment of it at a time.
StartAdjustPlan(s, p, amount, override) ==
    /\ plan[p].confirmed
    /\ \A t \in Sessions : request[t].op = "adjust" => request[t].plan # p
    /\ OpenView(s, "adjust", p, amount, override)

\* The contract lock is granted; the installment number is unique.
FinishCreateManualPlan(s) ==
    /\ request[s].op = "create"
    /\ LET q == request[s] IN
       /\ plan[q.plan].amount = NoAmount
       /\ Change(q.view, q.plan, NoAmount, q.amount, q.override, FALSE)
    /\ request' = [request EXCEPT ![s] = NoRequest]

FinishAdjustPlan(s) ==
    /\ request[s].op = "adjust"
    /\ LET q == request[s] IN
       Change(q.view, q.plan, plan[q.plan].amount, q.amount, q.override, TRUE)
    /\ request' = [request EXCEPT ![s] = NoRequest]

\* The request is refused or its process stops: the transaction rolls back.
Rollback(s) ==
    /\ request[s] # NoRequest
    /\ request' = [request EXCEPT ![s] = NoRequest]
    /\ UNCHANGED <<plan, audit>>

\* ConfirmPlan: lock, view and check in one step.
ConfirmPlan(s, p, amount, override) ==
    /\ request[s] = NoRequest
    /\ plan[p].amount # NoAmount
    /\ ~ plan[p].confirmed
    /\ Change(Committed, p, plan[p].amount, amount, override, TRUE)
    /\ UNCHANGED request

Next ==
    \/ \E s \in Sessions, p \in Plans, x \in Amounts, o \in BOOLEAN :
         \/ StartCreateManualPlan(s, p, x, o)
         \/ StartAdjustPlan(s, p, x, o)
         \/ ConfirmPlan(s, p, x, o)
    \/ \E s \in Sessions : \/ FinishCreateManualPlan(s)
                           \/ FinishAdjustPlan(s)
                           \/ Rollback(s)

Spec == Init /\ [][Next]_vars

-----------------------------------------------------------------------------
\* The types of the rows.
TypeOK ==
    /\ plan \in [Plans -> Rows]
    /\ request \in [Sessions -> Requests \cup {NoRequest}]
    /\ audit \in SUBSET Audits

\* What plan_coverage.go:147 says of the contract lock: the total of the plans
\* never exceeds the contract amount.  Two overlapping requests break it.
TotalWithinContract == Total(Committed) <= ContractAmount

\* The step commits a request that another change of the plans has overtaken
\* since its read view was opened.
CommitsOvertaken ==
    \E s \in Sessions : /\ request[s] # NoRequest /\ request'[s] = NoRequest
                        /\ request[s].view # Committed

\* requirePlanCoverage with any number of requests in flight: whatever override
\* it carries, and whatever state earlier races left, a change of the plans ends
\* with a total within the contract unless another change overtook its request
\* between the read view and the contract lock.
OnlyRacesExceed ==
    [][plan' # plan => Total(Committed') <= ContractAmount \/ CommitsOvertaken]_vars

\* auditPlanCoverageDeviation: no change leaves a gap between the plans and the
\* contract silently.  The gap is audited with exactly the total left, and beyond
\* the threshold the row is HIGH and the request carried the finance override;
\* only an overtaken request audits (and checks) the total of its own view.
DeviationAudited ==
    [][plan' # plan /\ Total(Committed') # ContractAmount =>
         \/ CommitsOvertaken
         \/ \E d \in audit' :
              /\ d.total = Total(Committed')
              /\ GapExceeds(Total(Committed')) => d.high /\ d.override]_vars
=============================================================================
