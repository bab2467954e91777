--------------------------- MODULE ContractRevision ---------------------------
(***************************************************************************)
(* The financial events of one contract: the first version, which lays     *)
(* down the baseline, and its revisions, which move the plans to a new     *)
(* snapshot, rewrite the ones nothing has happened to yet and leave the    *)
(* others to a manual review (settlement_contract_revision_hold).          *)
(*                                                                         *)
(* ingestContract opens its read view when it looks for the event in the   *)
(* inbox, then queues for the lock of the contract's stream row and for    *)
(* the locks of the plans and receivables.  The locked rows are read as    *)
(* they are; the snapshot row, the reservations and the references to a    *)
(* plan are plain reads and come from the view.  A delivery is therefore   *)
(* two steps: the view, and everything done under the locks.  The requests *)
(* that touch plans in between hold the same row locks and are one step    *)
(* each (the races between them are the subject of PlanCoverage).          *)
(*                                                                         *)
(* A plan is keyed by its installment number, unique within a snapshot.    *)
(* Contracts on import HOLD, which refuse every revision, are left out.    *)
(***************************************************************************)
EXTENDS Naturals, FiniteSets, FiniteSetsExt

CONSTANTS Installments,   \* installment numbers
          Amounts,        \* amounts of requests
          Dues,           \* due dates of requests
          Events,         \* what the contract system may send
          Deliveries      \* deliveries in progress at the same time

Term == [amount : Nat \ {0}, due : Nat \ {0}]
NoTerm == [amount |-> 0, due |-> 0]

\* terms[i] = NoTerm: the event has no such installment.
EventRecords == [id : Nat, version : Nat \ {0}, amount : Nat \ {0},
                 terms : [Installments -> Term \cup {NoTerm}]]

ASSUME RevisionAssumption ==
    /\ IsFiniteSet(Installments)
    /\ Amounts \subseteq Nat \ {0} /\ Dues \subseteq Nat \ {0}
    /\ Events \subseteq EventRecords
    /\ \A e \in Events : \E i \in Installments : e.terms[i] # NoTerm

VARIABLES
    stream,    \* settlement_contract_stream.current_version, 0 without a row
    snapshot,  \* version -> [status, amount]
    plan,      \* installment -> plan row with its receivable, or NoPlan
    inbox,     \* event -> status of its inbox row
    hold,      \* event -> status of its review
    delivery   \* delivery -> [event, view], or NoDelivery

vars == <<stream, snapshot, plan, inbox, hold, delivery>>

Versions == {e.version : e \in Events}
NoSnapshot == [status |-> "NONE", amount |-> 0]
NoPlan == [snap |-> 0]
NoDelivery == [event |-> 0]

\* rsnap: the receivable's snapshot, 0 while the plan is not confirmed.
\* cited: dunning cases or invoice allocations refer to the plan.
\* allocated: receipt allocations do, reversed ones included.
PlanRows == [snap : Versions, amount : Nat \ {0}, due : Nat \ {0},
             rsnap : Versions \cup {0}, received : Nat, invoiced : Nat,
             reserved : Nat, cited : BOOLEAN, allocated : BOOLEAN]

Views == [effective : Versions \cup {0}, reserved : [Installments -> Nat],
          cited : [Installments -> BOOLEAN]]

Planned == {i \in Installments : plan[i] # NoPlan}
Confirmed == {i \in Planned : plan[i].rsnap # 0}
PlanTotal == MapThenSumSet(LAMBDA i : plan[i].amount, Planned)

Init ==
    /\ stream = 0
    /\ snapshot = [v \in Versions |-> NoSnapshot]
    /\ plan = [i \in Installments |-> NoPlan]
    /\ inbox = [e \in Events |-> "NONE"]
    /\ hold = [e \in Events |-> "NONE"]
    /\ delivery = [d \in Deliveries |-> NoDelivery]

-----------------------------------------------------------------------------
\* ingestContract, up to the stream lock: no inbox row, and the view.
StartIngest(d, e) ==
    /\ delivery[d] = NoDelivery
    /\ inbox[e] = "NONE"
    /\ delivery' = [delivery EXCEPT ![d] =
         [event |-> e,
          view |-> [effective |-> stream,
                    reserved |-> [i \in Installments |->
                       IF i \in Planned THEN plan[i].reserved ELSE 0],
                    cited |-> [i \in Installments |->
                       i \in Planned /\ plan[i].cited]]]]
    /\ UNCHANGED <<stream, snapshot, plan, inbox, hold>>

\* Refused, a duplicate, a deadlock victim, or a process that stopped.
Rollback(d) ==
    /\ delivery[d] # NoDelivery
    /\ delivery' = [delivery EXCEPT ![d] = NoDelivery]
    /\ UNCHANGED <<stream, snapshot, plan, inbox, hold>>

TermsOf(e) == {i \in Installments : e.terms[i] # NoTerm}
Balanced(e) == MapThenSumSet(LAMBDA i : e.terms[i].amount, TermsOf(e)) = e.amount

\* Mutant: any event that is not in the inbox yet is taken, in any order.
NotSeen(e) == stream # 0 /\ e.version # stream /\ inbox[e] = "NONE"

\* The versions are compared under the stream lock, and the inbox row is new.
Newer(e) == stream # 0 /\ e.version > stream /\ inbox[e] = "NONE"

Disposition(held) == IF held THEN "HELD" ELSE "COMPLETED"

\* registerContractRevisionHold; an event has at most one review, as it is
\* either unbalanced or has differences.
RegisterContractRevisionHold(e) == hold' = [hold EXCEPT ![e] = "PENDING_REVIEW"]

Pending(e, i) ==
    [snap |-> e.version, amount |-> e.terms[i].amount, due |-> e.terms[i].due,
     rsnap |-> 0, received |-> 0, invoiced |-> 0, reserved |-> 0,
     cited |-> FALSE, allocated |-> FALSE]

\* The first version: the terms add up to the amount or nothing is written.
IngestFirst(d) ==
    LET e == delivery[d].event IN
    /\ delivery[d] # NoDelivery
    /\ stream = 0 /\ Balanced(e)
    /\ stream' = e.version
    /\ snapshot' = [snapshot EXCEPT ![e.version] =
                      [status |-> "EFFECTIVE", amount |-> e.amount]]
    /\ plan' = [i \in Installments |->
                  IF i \in TermsOf(e) THEN Pending(e, i) ELSE NoPlan]
    /\ inbox' = [inbox EXCEPT ![e] = Disposition(FALSE)]
    /\ delivery' = [delivery EXCEPT ![d] = NoDelivery]
    /\ UNCHANGED hold

\* The terms of the revision do not add up: reviewed by hand, nothing moves.
\* The snapshot of the current version has to be in the view.
HoldUnbalanced(d) ==
    LET e == delivery[d].event IN
    /\ delivery[d] # NoDelivery
    /\ Newer(e) /\ delivery[d].view.effective = stream
    /\ ~ Balanced(e)
    /\ inbox' = [inbox EXCEPT ![e] = Disposition(TRUE)]
    /\ RegisterContractRevisionHold(e)
    /\ delivery' = [delivery EXCEPT ![d] = NoDelivery]
    /\ UNCHANGED <<stream, snapshot, plan>>

-----------------------------------------------------------------------------
\* The sorting of the plans of the old snapshot, with the reservations and
\* references of view w.

\* Mutant: an issued invoice is not counted as a fact.
FactsWithoutInvoiced(i, w) == plan[i].received > 0 \/ w.reserved[i] > 0

\* revisionImplementedFacts.any; no operation writes write_off_amount.
Facts(i, w) ==
    plan[i].received > 0 \/ plan[i].invoiced > 0 \/ w.reserved[i] > 0

OldPlans == {i \in Planned : plan[i].snap = stream}

Changed(e, i) ==
    plan[i].amount # e.terms[i].amount \/ plan[i].due # e.terms[i].due

\* Mutant: an installment the contract dropped raises no difference.
MatchedDiffs(e, w) ==
    {i \in OldPlans \cap TermsOf(e) : Facts(i, w) /\ Changed(e, i)}

Diffs(e, w) ==
    {i \in OldPlans : IF i \in TermsOf(e) THEN Facts(i, w) /\ Changed(e, i)
                                          ELSE Facts(i, w) \/ w.cited[i]}

Removed(e, w) ==
    {i \in OldPlans \ TermsOf(e) : ~ Facts(i, w) /\ ~ w.cited[i]}

Adjusted(e, w) ==
    {i \in OldPlans \cap TermsOf(e) : ~ Facts(i, w) /\ Changed(e, i)}

\* Mutant: a plan that keeps its terms takes its receivable along only later.
MovedWithoutReceivable(e, i) == [plan[i] EXCEPT !.snap = e.version]

\* A kept plan and its receivable move to the new snapshot.
Moved(e, i) ==
    [plan[i] EXCEPT !.snap = e.version,
                    !.rsnap = IF @ = 0 THEN 0 ELSE e.version]

Revised(e, w) ==
    [i \in Installments |->
       CASE i \in Removed(e, w) -> NoPlan
         [] i \in TermsOf(e) \ OldPlans -> Pending(e, i)
         [] i \in Adjusted(e, w) ->
              [Moved(e, i) EXCEPT !.amount = e.terms[i].amount,
                                  !.due = e.terms[i].due]
         [] i \in OldPlans \ (Removed(e, w) \cup Adjusted(e, w)) -> Moved(e, i)
         [] OTHER -> plan[i]]

\* DELETE fails on the foreign keys of dunning cases, invoice allocations and
\* receipt allocations, and takes the whole revision with it.
Deletable(i) == ~ plan[i].cited /\ ~ plan[i].allocated

Superseded(e) ==
    [snapshot EXCEPT ![e.version] = [status |-> "EFFECTIVE", amount |-> e.amount],
                     ![stream].status = "SUPERSEDED"]

\* applyContractRevision
ApplyRevision(d) ==
    LET e == delivery[d].event
        w == delivery[d].view IN
    /\ delivery[d] # NoDelivery
    /\ Newer(e) /\ w.effective = stream
    /\ Balanced(e)
    /\ snapshot[e.version] = NoSnapshot
    /\ \A i \in Removed(e, w) : Deletable(i)
    /\ plan' = Revised(e, w)
    /\ snapshot' = Superseded(e)
    /\ stream' = e.version
    /\ inbox' = [inbox EXCEPT ![e] = Disposition(Diffs(e, w) # {})]
    /\ IF Diffs(e, w) # {} THEN RegisterContractRevisionHold(e) ELSE UNCHANGED hold
    /\ delivery' = [delivery EXCEPT ![d] = NoDelivery]

ResolveContractRevisionHold(e) ==
    /\ hold[e] = "PENDING_REVIEW"
    /\ hold' = [hold EXCEPT ![e] = "RESOLVED"]
    /\ UNCHANGED <<stream, snapshot, plan, inbox, delivery>>

-----------------------------------------------------------------------------
\* The requests that change plans, reduced to what a revision reads of them.
SetPlan(i, row) ==
    /\ plan' = [plan EXCEPT ![i] = row]
    /\ UNCHANGED <<stream, snapshot, inbox, hold, delivery>>

\* requirePlanCoverage, for a caller with the finance override.
WithinContract(i, x) ==
    PlanTotal - (IF i \in Planned THEN plan[i].amount ELSE 0) + x
      <= snapshot[stream].amount

CreateManualPlan(i, x, due) ==
    /\ stream # 0 /\ i \notin Planned
    /\ WithinContract(i, x)
    /\ SetPlan(i, [snap |-> stream, amount |-> x, due |-> due, rsnap |-> 0,
                   received |-> 0, invoiced |-> 0, reserved |-> 0,
                   cited |-> FALSE, allocated |-> FALSE])

ConfirmPlan(i, x, due) ==
    /\ i \in Planned \ Confirmed
    /\ WithinContract(i, x)
    /\ SetPlan(i, [plan[i] EXCEPT !.amount = x, !.due = due, !.rsnap = plan[i].snap])

AdjustPlan(i, x, due) ==
    /\ i \in Confirmed
    /\ x >= plan[i].received /\ x >= plan[i].invoiced + plan[i].reserved
    /\ WithinContract(i, x)
    /\ SetPlan(i, [plan[i] EXCEPT !.amount = x, !.due = due])

ConfirmAllocation(i, x) ==
    /\ i \in Confirmed
    /\ plan[i].received + x <= plan[i].amount
    /\ SetPlan(i, [plan[i] EXCEPT !.received = @ + x, !.allocated = TRUE])

ReverseAllocation(i, x) ==
    /\ i \in Confirmed
    /\ x <= plan[i].received
    /\ SetPlan(i, [plan[i] EXCEPT !.received = @ - x])

CreateInvoiceRequest(i, x) ==
    /\ i \in Confirmed
    /\ plan[i].invoiced + plan[i].reserved + x <= plan[i].amount
    /\ SetPlan(i, [plan[i] EXCEPT !.reserved = @ + x, !.cited = TRUE])

\* A request is rejected or cancelled.
ReleaseReservation(i, x) ==
    /\ i \in Confirmed
    /\ x <= plan[i].reserved
    /\ SetPlan(i, [plan[i] EXCEPT !.reserved = @ - x])

FinalizeInvoice(i, x) ==
    /\ i \in Confirmed
    /\ x <= plan[i].reserved
    /\ SetPlan(i, [plan[i] EXCEPT !.reserved = @ - x, !.invoiced = @ + x])

\* A red flush reaches its receivables (reverseInvoiceAllocations).
RedFlush(i, x) ==
    /\ i \in Confirmed
    /\ x <= plan[i].invoiced
    /\ SetPlan(i, [plan[i] EXCEPT !.invoiced = @ - x])

OpenDunningCase(i) ==
    /\ i \in Planned
    /\ ~ plan[i].cited
    /\ SetPlan(i, [plan[i] EXCEPT !.cited = TRUE])

Next ==
    \/ \E d \in Deliveries :
         \/ \E e \in Events : StartIngest(d, e)
         \/ IngestFirst(d)
         \/ HoldUnbalanced(d)
         \/ ApplyRevision(d)
         \/ Rollback(d)
    \/ \E e \in Events : ResolveContractRevisionHold(e)
    \/ \E i \in Installments, x \in Amounts :
         \/ \E due \in Dues : \/ CreateManualPlan(i, x, due)
                              \/ ConfirmPlan(i, x, due)
                              \/ AdjustPlan(i, x, due)
         \/ ConfirmAllocation(i, x)
         \/ ReverseAllocation(i, x)
         \/ CreateInvoiceRequest(i, x)
         \/ ReleaseReservation(i, x)
         \/ FinalizeInvoice(i, x)
         \/ RedFlush(i, x)
    \/ \E i \in Installments : OpenDunningCase(i)

Spec == Init /\ [][Next]_vars

-----------------------------------------------------------------------------
\* The types of the rows.
TypeOK ==
    /\ stream \in Versions \cup {0}
    /\ snapshot \in [Versions -> [status : {"NONE", "EFFECTIVE", "SUPERSEDED"},
                                  amount : Nat]]
    /\ plan \in [Installments -> PlanRows \cup {NoPlan}]
    /\ inbox \in [Events -> {"NONE", "COMPLETED", "HELD"}]
    /\ hold \in [Events -> {"NONE", "PENDING_REVIEW", "RESOLVED"}]
    /\ delivery \in [Deliveries -> [event : Events, view : Views] \cup {NoDelivery}]

\* Whatever order events, duplicates and requests come in, the contract has one
\* effective snapshot, the one of the stream's version, and every plan and every
\* receivable hangs on it (the rows applyContractRevision moves one by one).
OneBaseline ==
    /\ \A v \in Versions : snapshot[v].status = "EFFECTIVE" <=> v = stream
    /\ \A i \in Planned : /\ plan[i].snap = stream
                          /\ plan[i].rsnap \in {0, stream}

\* Events that arrive late, twice or out of order never take the contract back:
\* its version only grows and a superseded snapshot stays as it is.
NeverRegresses ==
    [][/\ stream' >= stream
       /\ \A v \in Versions :
            snapshot[v].status = "SUPERSEDED" => snapshot'[v] = snapshot[v]]_vars

Taken == {e \in Events : inbox'[e] # inbox[e]}

\* A revision that moves the contract to a new version either leaves exactly
\* the plans of its terms behind or raises a review: no difference is silent.
RevisionAccounted ==
    [][stream' # stream =>
         \E e \in Taken :
           \/ hold'[e] = "PENDING_REVIEW"
           \/ \A i \in Installments :
                IF i \in TermsOf(e)
                THEN /\ plan'[i] # NoPlan
                     /\ plan'[i].amount = e.terms[i].amount
                     /\ plan'[i].due = e.terms[i].due
                ELSE plan'[i] = NoPlan]_vars

\* A revision never rewrites or deletes a plan with money received or invoiced
\* on it, and never deletes one that anything still refers to.
FactsKept ==
    [][stream' # stream =>
         \A i \in Planned :
           /\ plan[i].received > 0 \/ plan[i].invoiced > 0 =>
                plan'[i] = [plan[i] EXCEPT !.snap = stream', !.rsnap = stream']
           /\ plan[i].cited \/ plan[i].allocated => plan'[i] # NoPlan]_vars
=============================================================================
