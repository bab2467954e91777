------------------------ MODULE PlanCoverage_proofs ------------------------
(***************************************************************************)
(* Proofs about PlanCoverage for every value of its constants, any number  *)
(* of overlapping requests included.                                       *)
(*                                                                         *)
(* The check sums the plans of a read view.  A change made on the view     *)
(* that is committed is checked, and audited, at the total it leaves       *)
(* (ChangeOnCommitted); the only other changes are those of requests that  *)
(* another change has overtaken, and the properties name them.             *)
(***************************************************************************)
EXTENDS PlanCoverage, TLAPS

\* The rows of the plans and requests keep their types.  (That the total of an
\* audit row is a number is not needed.)
RowsTyped ==
    /\ plan \in [Plans -> Rows]
    /\ request \in [Sessions -> Requests \cup {NoRequest}]

\* The total left is within the contract, and a gap is audited with that total.
CheckedAndAudited ==
    /\ Total(Committed') <= ContractAmount
    /\ Total(Committed') # ContractAmount =>
         \E d \in audit' :
           /\ d.total = Total(Committed')
           /\ GapExceeds(Total(Committed')) => d.high /\ d.override

-----------------------------------------------------------------------------
\* The request of a session.
LEMMA RequestTyped ==
    ASSUME RowsTyped, NEW s \in Sessions, request[s].op # "none"
    PROVE  /\ request[s] \in Requests /\ request[s] # NoRequest
           /\ request[s].plan \in Plans /\ request[s].amount \in Amounts
           /\ request[s].override \in BOOLEAN
<1>1. NoRequest.op = "none"
  BY DEF NoRequest
<1>2. request[s] # NoRequest
  BY <1>1
<1>3. request[s] \in Requests
  BY <1>2 DEF RowsTyped
<1> QED
  BY <1>2, <1>3 DEF Requests

\* The committed amounts.
LEMMA CommittedTyped ==
    ASSUME RowsTyped
    PROVE  Committed \in Views
<1>1. \A p \in Plans : plan[p].amount \in Amounts \cup {NoAmount}
  BY DEF RowsTyped, Rows
<1> QED
  BY <1>1 DEF Committed, Views

\* The rows after a change, whatever view it was checked on.
LEMMA ChangeTyped ==
    ASSUME RowsTyped, NEW view, NEW p \in Plans, NEW before, NEW amount \in Amounts,
           NEW o \in BOOLEAN, NEW c \in BOOLEAN, Change(view, p, before, amount, o, c)
    PROVE  plan' \in [Plans -> Rows]
<1>1. plan' = [plan EXCEPT ![p] = [amount |-> amount, confirmed |-> c]]
  BY DEF Change
<1> QED
  BY <1>1 DEF RowsTyped, Rows

\* A change made on the committed amounts is checked at the total it leaves, and
\* what it audits is that total.
LEMMA ChangeOnCommitted ==
    ASSUME RowsTyped, NEW p \in Plans, NEW before, NEW amount \in Amounts, NEW o \in BOOLEAN,
           NEW c \in BOOLEAN, Change(Committed, p, before, amount, o, c)
    PROVE  CheckedAndAudited
<1>1. PICK total : total = CoverageTotal(Committed, p, amount)
  OBVIOUS
<1>2. /\ Covered(total, before, amount, o)
      /\ plan' = [plan EXCEPT ![p] = [amount |-> amount, confirmed |-> c]]
      /\ audit' = Deviation(total, before, amount, o)
  BY <1>1 DEF Change
<1>3. Committed' = [Committed EXCEPT ![p] = amount]
  BY <1>2 DEF Committed, RowsTyped
<1>4. total = Total(Committed')
  BY <1>1, <1>3 DEF CoverageTotal
<1>5. Total(Committed') <= ContractAmount
  BY <1>2, <1>4 DEF Covered
<1>6. CASE total # ContractAmount
  <2> DEFINE d == [total |-> total, override |-> o,
                   high |-> GapExceeds(total) \/ DropExceeds(before, amount)]
  <2>1. d \in audit'
    BY <1>2, <1>6 DEF Deviation
  <2>2. GapExceeds(total) => d.high /\ d.override
    BY <1>2 DEF Covered
  <2>3. d.total = total
    OBVIOUS
  <2> HIDE DEF d
  <2> QED
    BY <1>4, <1>5, <2>1, <2>2, <2>3 DEF CheckedAndAudited
<1>7. CASE total = ContractAmount
  BY <1>4, <1>5, <1>7 DEF CheckedAndAudited
<1> QED
  BY <1>6, <1>7

-----------------------------------------------------------------------------
LEMMA CoverageInit == Init => RowsTyped
  BY DEF Init, RowsTyped

\* The commit of a two-step request: typed, and checked at the total it leaves
\* unless it was overtaken.
LEMMA FinishKept ==
    ASSUME RowsTyped, NEW s \in Sessions, NEW before, NEW c \in BOOLEAN,
           request[s].op # "none",
           Change(request[s].view, request[s].plan, before, request[s].amount,
                  request[s].override, c),
           request' = [request EXCEPT ![s] = NoRequest]
    PROVE  RowsTyped' /\ (CheckedAndAudited \/ CommitsOvertaken)
<1>1. /\ request[s] # NoRequest /\ request[s].plan \in Plans
      /\ request[s].amount \in Amounts /\ request[s].override \in BOOLEAN
  BY RequestTyped
<1>2. plan' \in [Plans -> Rows]
  BY <1>1, ChangeTyped
<1>3. RowsTyped' /\ request'[s] = NoRequest
  BY <1>2 DEF RowsTyped
<1>4. CASE request[s].view = Committed
  BY <1>1, <1>3, <1>4, ChangeOnCommitted
<1>5. CASE request[s].view # Committed
  BY <1>1, <1>3, <1>5 DEF CommitsOvertaken
<1> QED
  BY <1>4, <1>5

\* What a step of the plans does.
LEMMA CoverageStep ==
    ASSUME RowsTyped, [Next]_vars
    PROVE  RowsTyped' /\ (plan' # plan => CheckedAndAudited \/ CommitsOvertaken)
<1> DEFINE Goal == RowsTyped' /\ (plan' # plan => CheckedAndAudited \/ CommitsOvertaken)
<1>1. ASSUME NEW s \in Sessions, NEW p \in Plans, NEW x \in Amounts, NEW o \in BOOLEAN,
             NEW op \in {"create", "adjust"}, OpenView(s, op, p, x, o)
      PROVE  Goal
  <2> DEFINE q == [op |-> op, plan |-> p, amount |-> x, override |-> o, view |-> Committed]
  <2>1. request' = [request EXCEPT ![s] = q] /\ UNCHANGED plan
    BY <1>1 DEF OpenView
  <2>2. q \in Requests
    BY CommittedTyped DEF Requests
  <2> HIDE DEF q
  <2> QED
    BY <2>1, <2>2 DEF RowsTyped
<1>2. ASSUME NEW s \in Sessions, FinishCreateManualPlan(s) PROVE Goal
  <2>1. /\ request[s].op # "none"
        /\ Change(request[s].view, request[s].plan, NoAmount, request[s].amount,
                  request[s].override, FALSE)
        /\ request' = [request EXCEPT ![s] = NoRequest]
    BY <1>2 DEF FinishCreateManualPlan
  <2> QED
    BY <2>1, FinishKept
<1>3. ASSUME NEW s \in Sessions, FinishAdjustPlan(s) PROVE Goal
  <2>1. /\ request[s].op # "none"
        /\ Change(request[s].view, request[s].plan, plan[request[s].plan].amount,
                  request[s].amount, request[s].override, TRUE)
        /\ request' = [request EXCEPT ![s] = NoRequest]
    BY <1>3 DEF FinishAdjustPlan
  <2> QED
    BY <2>1, FinishKept
<1>4. ASSUME NEW s \in Sessions, Rollback(s) PROVE Goal
  BY <1>4 DEF Rollback, RowsTyped
<1>5. ASSUME NEW s \in Sessions, NEW p \in Plans, NEW x \in Amounts, NEW o \in BOOLEAN,
             ConfirmPlan(s, p, x, o)
      PROVE  Goal
  <2>1. request' = request /\ Change(Committed, p, plan[p].amount, x, o, TRUE)
    BY <1>5 DEF ConfirmPlan
  <2>2. plan' \in [Plans -> Rows]
    BY <2>1, ChangeTyped
  <2>3. CheckedAndAudited
    BY <2>1, ChangeOnCommitted
  <2> QED
    BY <2>1, <2>2, <2>3 DEF RowsTyped
<1>6. CASE UNCHANGED vars
  BY <1>6 DEF vars, RowsTyped
<1> QED
  BY <1>1, <1>2, <1>3, <1>4, <1>5, <1>6 DEF Next, StartCreateManualPlan, StartAdjustPlan

\* The rows keep their types.
LEMMA RowsAlwaysTyped == Spec => []RowsTyped
<1>1. RowsTyped /\ [Next]_vars => RowsTyped'
  BY CoverageStep
<1> QED
  BY <1>1, CoverageInit, PTL DEF Spec

\* With any number of requests in flight, and after any earlier race, a change
\* of the plans leaves a total within the contract unless the request that makes
\* it was overtaken between its read view and the contract lock
\* (requirePlanCoverage).
THEOREM OnlyRacesEverExceed == Spec => OnlyRacesExceed
<1>1. RowsTyped /\ [Next]_vars =>
        [plan' # plan => Total(Committed') <= ContractAmount \/ CommitsOvertaken]_vars
  BY CoverageStep DEF CheckedAndAudited
<1> QED
  BY <1>1, RowsAlwaysTyped, PTL DEF Spec, OnlyRacesExceed

\* With any number of requests in flight, every gap a change leaves is audited
\* with its exact total and, beyond the threshold, marked HIGH and made with the
\* finance override, unless the request was overtaken
\* (auditPlanCoverageDeviation).
THEOREM DeviationAlwaysAudited == Spec => DeviationAudited
<1>1. RowsTyped /\ [Next]_vars =>
        [plan' # plan /\ Total(Committed') # ContractAmount =>
           \/ CommitsOvertaken
           \/ \E d \in audit' :
                /\ d.total = Total(Committed')
                /\ GapExceeds(Total(Committed')) => d.high /\ d.override]_vars
  BY CoverageStep DEF CheckedAndAudited
<1> QED
  BY <1>1, RowsAlwaysTyped, PTL DEF Spec, DeviationAudited
============================================================================
