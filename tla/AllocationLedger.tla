-------------------------- MODULE AllocationLedger --------------------------
(***************************************************************************)
(* Receivables, receipts, allocations and reversals, differences that hold *)
(* back part of a receipt, and refunds: the money side of the settlement   *)
(* service, with the credit events its transactions write.                 *)
(*                                                                         *)
(* Every operation runs in one database transaction that takes the rows it *)
(* reads balances from with SELECT ... FOR UPDATE before it computes with  *)
(* them, so one action stands for one committed transaction; a refused     *)
(* request (ErrConflict, ErrInvalid, ...) rolls back and is no step.       *)
(* Amounts are in the smallest unit.  A receivable id also names its plan: *)
(* uq_settlement_receivable_plan makes the two one-to-one.                 *)
(*                                                                         *)
(* The plan-coverage check of ConfirmPlan and AdjustPlan can only refuse   *)
(* a request; it reads other plans and is modelled in PlanCoverage.  The   *)
(* invoiced-and-reserved floor of AdjustPlan is modelled in InvoiceIssue.  *)
(* Contracts on import HOLD are not modelled here.                         *)
(***************************************************************************)
EXTENDS CreditSync

CONSTANTS Receipts,        \* receipt ids
          Allocations,     \* allocation ids
          Differences,     \* receipt difference ids
          Keys,            \* Idempotency-Key values of reversal requests
          Users,           \* principals
          Accounts,        \* pairs of customer and currency
          AccountOf,       \* receivable -> account of its contract
          CreditEligible,  \* receivables of numeric CRM customers under subscription
          Amounts,         \* amounts of plans, receipts, allocations, reversals
          AdjustAmounts    \* amounts AdjustPlan is called with

ASSUME LedgerAssumption ==
    /\ AccountOf \in [Receivables -> Accounts]
    /\ CreditEligible \subseteq Receivables
    /\ Amounts \subseteq Nat \ {0}
    /\ AdjustAmounts \subseteq Nat \ {0}
    /\ IsFiniteSet(Keys) /\ IsFiniteSet(Allocations) /\ IsFiniteSet(Differences)

VARIABLES
    receivable,  \* plan and receivable row
    receipt,     \* settlement_receipt
    difference,  \* settlement_receipt_difference
    allocation,  \* settlement_receipt_allocation
    reversal     \* key -> settlement_receipt_allocation_reversal row and
                 \* idempotency record written with it

ledgerVars == <<receivable, receipt, difference, allocation, reversal>>
vars == <<ledgerVars, creditVars>>

CollectionStatuses == {"UNPAID", "PARTIALLY_SETTLED", "SETTLED"}
ReceiptStatuses == {"AVAILABLE", "PARTIALLY_ALLOCATED", "FULLY_ALLOCATED"}
AllocationStatuses == {"CONFIRMED", "PARTIALLY_REVERSED", "REVERSED"}
DifferenceStatuses == {"HELD", "REVIEW_PENDING", "APPROVED", "REFUND_PENDING",
                       "REFUND_CONFIRMED"}

Absent == [exists |-> FALSE]     \* a row that has not been inserted

\* confirmed = FALSE: the plan is PENDING_CONFIRMATION, no receivable exists.
ReceivableRows == [confirmed : BOOLEAN, planned : Nat, original : Nat,
                   received : Nat, open : Nat, status : CollectionStatuses]
ReceiptRows == [exists : {TRUE}, account : Accounts, amount : Nat,
                unallocated : Nat, status : ReceiptStatuses]
AllocationRows == [exists : {TRUE}, receipt : Receipts, rcv : Receivables,
                   amount : Nat, by : Users, status : AllocationStatuses]
ReversalRows == [exists : {TRUE}, alloc : Allocations, amount : Nat, by : Users]
\* short: kind SHORTPAYMENT, money that never came; the other kinds hold money
\* of the receipt.  refund: resolution REFUND_PENDING; the other resolutions
\* release it.  by: who requested and who resolved it.
DifferenceRows == [exists : {TRUE}, receipt : Receipts, amount : Nat, short : BOOLEAN,
                   refund : BOOLEAN, by : SUBSET Users, status : DifferenceStatuses]

PendingPlan(amount) ==
    [confirmed |-> FALSE, planned |-> amount, original |-> 0, received |-> 0,
     open |-> 0, status |-> "UNPAID"]

\* Plans arrive with the contract event; nothing else exists.
Init ==
    /\ receivable \in [Receivables -> {PendingPlan(x) : x \in Amounts}]
    /\ receipt = [c \in Receipts |-> Absent]
    /\ difference = [d \in Differences |-> Absent]
    /\ allocation = [a \in Allocations |-> Absent]
    /\ reversal = [k \in Keys |-> Absent]
    /\ CreditInit

-----------------------------------------------------------------------------
\* The SUM over settlement_receipt_allocation_reversal of one allocation.
Reversed(a) ==
    MapThenSumSet(LAMBDA k : reversal[k].amount,
                  {k \in Keys : reversal[k].exists /\ reversal[k].alloc = a})

\* Mutant: earlier reversals of the allocation are forgotten.
RemainingAtFirst(a) == allocation[a].amount

\* What is left of an allocation to reverse.
Remaining(a) == allocation[a].amount - Reversed(a)

\* ConfirmPlan: the plan becomes CONFIRMED at the confirmed amount and its
\* receivable is created fully open.
ConfirmPlan(r, amount) ==
    /\ ~ receivable[r].confirmed
    /\ receivable' = [receivable EXCEPT ![r] =
         [confirmed |-> TRUE, planned |-> amount, original |-> amount,
          received |-> 0, open |-> amount, status |-> "UNPAID"]]
    /\ UNCHANGED <<receipt, difference, allocation, reversal, creditVars>>

\* CreateReceipt: a repeated key returns the first receipt and changes nothing.
CreateReceipt(c, account, amount) ==
    /\ ~ receipt[c].exists
    /\ receipt' = [receipt EXCEPT ![c] =
         [exists |-> TRUE, account |-> account, amount |-> amount,
          unallocated |-> amount, status |-> "AVAILABLE"]]
    /\ UNCHANGED <<receivable, difference, allocation, reversal, creditVars>>

\* Mutant: only the receipt's balance is checked.
CoversReceiptOnly(c, r, amount) ==
    /\ receipt[c].account = AccountOf[r]
    /\ amount <= receipt[c].unallocated

\* UPDATE settlement_receipt SET unallocated_amount=?,status=?
UpdateReceipt(c, unallocated, status) ==
    receipt' = [receipt EXCEPT ![c] =
      [exists |-> TRUE, account |-> @.account, amount |-> @.amount,
       unallocated |-> unallocated, status |-> status]]

\* UPDATE settlement_receivable SET received_amount=?,open_amount=?,collection_status=?
UpdateReceivable(r, received, open, status) ==
    receivable' = [receivable EXCEPT ![r] =
      [confirmed |-> @.confirmed, planned |-> @.planned, original |-> @.original,
       received |-> received, open |-> open, status |-> status]]

\* Same customer and currency, and both balances cover the amount.
Covers(c, r, amount) ==
    /\ receipt[c].account = AccountOf[r]
    /\ amount <= receipt[c].unallocated
    /\ amount <= receivable[r].open

ConfirmAllocation(h, u, a, c, r, amount) ==
    /\ job[h] = Idle
    /\ ~ allocation[a].exists
    /\ receipt[c].exists
    /\ receipt[c].status \in {"AVAILABLE", "PARTIALLY_ALLOCATED"}
    /\ receivable[r].confirmed
    /\ receivable[r].status \in {"UNPAID", "PARTIALLY_SETTLED"}
    /\ Covers(c, r, amount)
    /\ allocation' = [allocation EXCEPT ![a] =
         [exists |-> TRUE, receipt |-> c, rcv |-> r, amount |-> amount,
          by |-> u, status |-> "CONFIRMED"]]
    /\ LET remaining == receipt[c].unallocated - amount
           open == receivable[r].open - amount
       IN  /\ UpdateReceipt(c, remaining,
                 IF remaining = 0 THEN "FULLY_ALLOCATED" ELSE "PARTIALLY_ALLOCATED")
           /\ UpdateReceivable(r, receivable[r].received + amount, open,
                 IF open = 0 THEN "SETTLED" ELSE "PARTIALLY_SETTLED")
    /\ IF receivable[r].open = amount /\ r \in CreditEligible
       THEN InsertCreditSync("completed", r, 0)
       ELSE UNCHANGED <<credit, creditCount>>
    /\ PublishAfterCommit(h)
    /\ UNCHANGED <<difference, reversal, leaseOver, crm, disruptions>>

\* Mutant: a repeated key runs the command again.
KeyIgnored(k) == TRUE

\* claimIdempotency: a key that was used replays or conflicts, and either way
\* the request changes nothing.
KeyUnused(k) == ~ reversal[k].exists

\* ReverseAllocation, decided by someone other than the allocation's confirmer.
\* The receipt update passes chk_settlement_receipt_amounts or the transaction
\* fails.
ReverseAllocation(h, u, k, a, amount) ==
    /\ job[h] = Idle
    /\ KeyUnused(k)
    /\ allocation[a].exists
    /\ allocation[a].status \in {"CONFIRMED", "PARTIALLY_REVERSED"}
    /\ allocation[a].by # u
    /\ amount <= Remaining(a)
    /\ LET c == allocation[a].receipt
           r == allocation[a].rcv
           unallocated == receipt[c].unallocated + amount
           received == receivable[r].received - amount
       IN  /\ amount <= receivable[r].received
           /\ unallocated <= receipt[c].amount
           /\ allocation' = [allocation EXCEPT ![a].status =
                IF amount = Remaining(a)
                THEN "REVERSED" ELSE "PARTIALLY_REVERSED"]
           /\ UpdateReceipt(c, unallocated,
                 IF unallocated = receipt[c].amount THEN "AVAILABLE" ELSE "PARTIALLY_ALLOCATED")
           /\ UpdateReceivable(r, received, receivable[r].open + amount,
                 IF received = 0 THEN "UNPAID" ELSE "PARTIALLY_SETTLED")
           /\ IF receivable[r].open = 0
              THEN EnqueueCreditReversal(r)
              ELSE UNCHANGED <<credit, creditCount>>
    /\ reversal' = [reversal EXCEPT ![k] =
         [exists |-> TRUE, alloc |-> a, amount |-> amount, by |-> u]]
    /\ PublishAfterCommit(h)
    /\ UNCHANGED <<difference, leaseOver, crm, disruptions>>

\* Mutant: an amount adjusted down to what was received stays partial.
AdjustedStatusNeverSettled(planned, received) ==
    IF received > 0 THEN "PARTIALLY_SETTLED" ELSE "UNPAID"

AdjustedStatus(planned, received) ==
    IF planned = received THEN "SETTLED"
    ELSE IF received > 0 THEN "PARTIALLY_SETTLED" ELSE "UNPAID"

\* AdjustPlan on the version the client read: a confirmed plan and its
\* receivable move to a new amount that covers what was received.
AdjustPlan(r, planned) ==
    /\ receivable[r].confirmed
    /\ receivable[r].received <= planned
    /\ receivable' = [receivable EXCEPT ![r] =
         [confirmed |-> TRUE, planned |-> planned, original |-> planned,
          received |-> @.received, open |-> planned - @.received,
          status |-> AdjustedStatus(planned, @.received)]]
    /\ UNCHANGED <<receipt, difference, allocation, reversal, creditVars>>

\* The money of its receipt that a difference holds back.
HeldBy(d) == IF difference[d].short THEN 0 ELSE difference[d].amount

\* CreateReceiptDifference: the receipt's status is neither read nor written.
\* A repeated key returns the first difference and changes nothing.
CreateReceiptDifference(u, d, c, amount, short) ==
    LET held == IF short THEN 0 ELSE amount IN
    /\ ~ difference[d].exists
    /\ receipt[c].exists
    /\ held <= receipt[c].unallocated
    /\ UpdateReceipt(c, receipt[c].unallocated - held, receipt[c].status)
    /\ difference' = [difference EXCEPT ![d] =
         [exists |-> TRUE, receipt |-> c, amount |-> amount, short |-> short,
          refund |-> FALSE, by |-> {u}, status |-> "HELD"]]
    /\ UNCHANGED <<receivable, allocation, reversal, creditVars>>

\* UPDATE settlement_receipt_difference SET status=?,...
UpdateDifference(d, refund, by, status) ==
    difference' = [difference EXCEPT ![d] =
      [exists |-> TRUE, receipt |-> @.receipt, amount |-> @.amount,
       short |-> @.short, refund |-> refund, by |-> by, status |-> status]]

ResolveReceiptDifference(u, d, refund) ==
    /\ difference[d].exists /\ difference[d].status = "HELD"
    /\ difference[d].short => ~ refund
    /\ UpdateDifference(d, refund, difference[d].by \cup {u}, "REVIEW_PENDING")
    /\ UNCHANGED <<receivable, receipt, allocation, reversal, creditVars>>

\* ApproveReceiptDifference, by someone who has not handled it: the money stays
\* held for the refund or goes back to the receipt (whose amounts the CHECK
\* constraint guards).
ApproveReceiptDifference(u, d) ==
    LET c == difference[d].receipt
        v == difference[d] IN
    /\ v.exists /\ v.status = "REVIEW_PENDING"
    /\ u \notin v.by
    /\ UpdateDifference(d, v.refund, v.by, IF v.refund THEN "REFUND_PENDING" ELSE "APPROVED")
    /\ IF v.refund
       THEN UNCHANGED receipt
       ELSE /\ receipt[c].unallocated + HeldBy(d) <= receipt[c].amount
            /\ UpdateReceipt(c, receipt[c].unallocated + HeldBy(d), receipt[c].status)
    /\ UNCHANGED <<receivable, allocation, reversal, creditVars>>

\* ConfirmReceiptRefund records a refund that was made; no balance changes.
ConfirmReceiptRefund(d) ==
    /\ difference[d].exists /\ difference[d].status = "REFUND_PENDING"
    /\ UpdateDifference(d, TRUE, difference[d].by, "REFUND_CONFIRMED")
    /\ UNCHANGED <<receivable, receipt, allocation, reversal, creditVars>>

DifferenceNext ==
    \/ \E u \in Users, d \in Differences, c \in Receipts, x \in Amounts, short \in BOOLEAN :
          CreateReceiptDifference(u, d, c, x, short)
    \/ \E u \in Users, d \in Differences, refund \in BOOLEAN :
          ResolveReceiptDifference(u, d, refund)
    \/ \E u \in Users, d \in Differences : ApproveReceiptDifference(u, d)
    \/ \E d \in Differences : ConfirmReceiptRefund(d)

LedgerNext ==
    \/ \E r \in Receivables, x \in Amounts : ConfirmPlan(r, x)
    \/ \E c \in Receipts, n \in Accounts, x \in Amounts : CreateReceipt(c, n, x)
    \/ \E h \in Handlers, u \in Users, a \in Allocations, c \in Receipts,
          r \in Receivables, x \in Amounts : ConfirmAllocation(h, u, a, c, r, x)
    \/ \E h \in Handlers, u \in Users, k \in Keys, a \in Allocations, x \in Amounts :
          ReverseAllocation(h, u, k, a, x)
    \/ \E r \in Receivables, x \in AdjustAmounts : AdjustPlan(r, x)
    \/ DifferenceNext

Next == LedgerNext \/ (CreditNext /\ UNCHANGED ledgerVars)

Spec == Init /\ [][Next]_vars

-----------------------------------------------------------------------------
TypeOK ==
    /\ receivable \in [Receivables -> ReceivableRows]
    /\ receipt \in [Receipts -> ReceiptRows \cup {Absent}]
    /\ difference \in [Differences -> DifferenceRows \cup {Absent}]
    /\ allocation \in [Allocations -> AllocationRows \cup {Absent}]
    /\ reversal \in [Keys -> ReversalRows \cup {Absent}]
    /\ CreditTypeOK

DifferencesOf(c) ==
    {d \in Differences : difference[d].exists /\ difference[d].receipt = c}

\* Every balance column agrees with the others and with the status the read
\* models, the matching rules and the dunning scanner select by: open is what
\* is planned and not yet received, and the three places that recompute a
\* status (ConfirmAllocation, ReverseAllocation, AdjustPlan) never disagree.
\* Differences move a receipt's free balance and leave its status as it was, so
\* a receipt's status is only a summary of it where there was none.
BalancesAgree ==
    /\ \A r \in Receivables : LET v == receivable[r] IN
         v.confirmed =>
           /\ v.planned = v.original /\ v.original > 0
           /\ v.received + v.open = v.original
           /\ v.status = "SETTLED" <=> v.open = 0
           /\ v.status = "UNPAID" <=> v.received = 0
    /\ \A c \in Receipts : LET v == receipt[c] IN
         v.exists =>
           /\ v.amount > 0 /\ v.unallocated <= v.amount
           /\ DifferencesOf(c) = {} =>
                /\ v.status = "AVAILABLE" <=> v.unallocated = v.amount
                /\ v.status = "FULLY_ALLOCATED" <=> v.unallocated = 0

NetOf(S) == MapThenSumSet(LAMBDA a : allocation[a].amount - Reversed(a), S)

\* Money is neither created nor lost by any sequence of allocations, partial
\* reversals, plan adjustments, differences and refunds: the part of a receipt
\* that is not free is exactly its unreversed allocations and what is held for
\* review, to be refunded or refunded; the received amount of a receivable is
\* its unreversed allocations.  (So no CHECK constraint on amounts ever fires.)
MoneyConserved ==
    /\ \A c \in Receipts : receipt[c].exists =>
         receipt[c].amount - receipt[c].unallocated =
           NetOf({a \in Allocations : allocation[a].exists /\ allocation[a].receipt = c})
             + MapThenSumSet(HeldBy, {d \in DifferencesOf(c) : difference[d].status # "APPROVED"})
    /\ \A r \in Receivables :
         receivable[r].received =
           NetOf({a \in Allocations : allocation[a].exists /\ allocation[a].rcv = r})
    /\ \A a \in Allocations : allocation[a].exists =>
         /\ Reversed(a) <= allocation[a].amount
         /\ allocation[a].status = "REVERSED" <=> Reversed(a) = allocation[a].amount
         /\ allocation[a].status = "CONFIRMED" <=> Reversed(a) = 0

\* Confirmed facts are only ever offset, never edited: a receipt, an allocation
\* and a reversal keep their parties and amounts once they exist, however often
\* a request is repeated under the same idempotency key, and a difference that
\* was released or refunded is closed for good.
FactsImmutable ==
    [][/\ \A c \in Receipts : receipt[c].exists =>
            /\ receipt'[c].exists
            /\ receipt'[c].amount = receipt[c].amount
            /\ receipt'[c].account = receipt[c].account
       /\ \A a \in Allocations : allocation[a].exists =>
            [allocation'[a] EXCEPT !.status = "CONFIRMED"] =
              [allocation[a] EXCEPT !.status = "CONFIRMED"]
       /\ \A k \in Keys : reversal[k].exists => reversal'[k] = reversal[k]
       /\ \A d \in Differences : difference[d].exists =>
            /\ difference'[d].exists
            /\ difference'[d].receipt = difference[d].receipt
            /\ difference'[d].amount = difference[d].amount
            /\ difference[d].status \in {"APPROVED", "REFUND_CONFIRMED"} =>
                 difference'[d] = difference[d]]_vars

CreditMatches(r) ==
    Cardinality(LiveCompleted(r)) = IF receivable[r].status = "SETTLED" THEN 1 ELSE 0

\* The CRM is told of a settlement exactly while it stands: an eligible
\* receivable has one live completed event if it is SETTLED and none otherwise,
\* and no allocation, reversal, publisher, resend or stop ever changes that.
\* Only AdjustPlan, which moves a receivable in and out of SETTLED without an
\* event (manual_plan.go:122), can part the two.
CreditMatchesSettlement ==
    /\ \A r \in CreditEligible : CreditMatches(r)
    /\ [][\A r \in CreditEligible :
            CreditMatches(r) => \/ CreditMatches(r)'
                                \/ \E x \in AdjustAmounts : AdjustPlan(r, x)]_vars

\* One settlement fact is compensated at most once, and only after it was
\* handed to a publisher: a cancelled event has no reversed event.
CompensatedOnce ==
    \A e, f \in CreditIds :
        credit[e].type = "reversed" =>
          /\ credit[credit[e].original].type = "completed"
          /\ credit[credit[e].original].status # "CANCELLED"
          /\ credit[e].rcv = credit[credit[e].original].rcv
          /\ (credit[f].type = "reversed" /\ credit[f].original = credit[e].original) => e = f

\* A row is DELIVERED only if the CRM has the event, whichever of several
\* publishers with expired leases recorded the outcome last.
DeliveredWasReceived ==
    \A e \in CreditIds : credit[e].status = "DELIVERED" => e \in crm

\* A delivered or cancelled row is final.
CreditTerminal ==
    [][\A e \in CreditIds : credit[e].status \in {"DELIVERED", "CANCELLED"} =>
         credit'[e] = credit[e]]_vars

\* The rows the ledger writes, with three kinds of publishers, expiring leases,
\* lost answers and process stops, implement the abstract DeliveryQueue: no
\* event reaches the CRM before it is on record, none is confirmed that the CRM
\* does not have, and what was confirmed or withdrawn is never reopened.
ImplementsQueue == Queue!Spec
=============================================================================
