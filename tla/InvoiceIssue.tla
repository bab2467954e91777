---------------------------- MODULE InvoiceIssue ----------------------------
(***************************************************************************)
(* Invoice requests from reservation to tax invoice: the reservation of a  *)
(* receivable's invoiceable amount, approval, the tax command that the     *)
(* outbox worker sends to the tax provider, the provider's callbacks, the  *)
(* reconciliation poll, failure review, manual registration, cancellation  *)
(* and the two ways of retrying a dead-lettered command.                   *)
(*                                                                         *)
(* Every API operation and every callback is one transaction that locks    *)
(* the request, attempt, command or receivable rows it decides by, and is  *)
(* one action.  Two are not: sending a command (see TaxCommands), and a    *)
(* cancellation, which opens its read view before it takes its locks.  A   *)
(* request reserves one receivable.                                        *)
(***************************************************************************)
EXTENDS Naturals, FiniteSets, FiniteSetsExt, TaxCommands

CONSTANTS Requests,        \* invoice requests
          Receivables,     \* receivables of the contract
          Users,           \* principals
          Applicants,      \* the ones that make requests
          Amounts,         \* amounts requests reserve
          AdjustAmounts,   \* amounts AdjustPlan is called with
          Specials,        \* does a request need a special review?
          Original,        \* receivable -> original_amount at the start
          ChannelsFor,     \* request -> issuance modes in force when it is approved
          MaxAttempts      \* bound: issue attempts of one request

Channels == {"MANUAL", "TAX_ADAPTER"}
Attempts == Requests \X (1 .. MaxAttempts)     \* <<request, attempt_no>>

ASSUME InvoiceAssumption ==
    /\ IsFiniteSet(Requests)
    /\ Amounts \subseteq Nat \ {0} /\ AdjustAmounts \subseteq Nat \ {0}
    /\ Applicants \subseteq Users /\ Specials \subseteq BOOLEAN
    /\ Original \in [Receivables -> Nat]
    /\ ChannelsFor \in [Requests -> SUBSET Channels]
    /\ MaxAttempts \in Nat \ {0}
    /\ Attempts \subseteq Commands

VARIABLES
    original,  \* receivable -> original_amount
    invoiced,  \* receivable -> invoiced_amount
    request,   \* settlement_invoice_request with its allocation row
    attempt,   \* settlement_invoice_issue_attempt
    inbox,     \* settlement_tax_result_inbox: <<attempt, result type, processing_status>>
               \* of successes and conflicts; no decision reads the other rows
    invoices,  \* settlement_tax_invoice: the attempts that produced one
    cancelling \* requests a CancelInvoiceRequest call has seen, at their current
               \* version and without a conflict, and has not yet locked

ledgerVars == <<original, invoiced, request, attempt, invoices>>
vars == <<ledgerVars, inbox, cancelling, taxVars>>

RequestStatuses == {"SUBMITTED", "SPECIAL_REVIEW", "REJECTED", "ISSUE_PENDING",
                    "ISSUE_UNKNOWN", "ISSUE_FAILED", "ISSUED", "CANCELLED"}
AttemptStatuses == {"PENDING", "ACCEPTED", "UNKNOWN", "ISSUE_FAILED", "ISSUED",
                    "ABANDONED"}
Processing == {"APPLIED", "IGNORED_STALE", "IGNORED_TERMINAL", "PROVIDER_CONFLICT"}

RequestRows == [exists : {TRUE}, status : RequestStatuses, by : Users,
                rcv : Receivables, amount : Amounts, special : BOOLEAN,
                allocation : {"RESERVED", "INVOICED", "RELEASED"},
                attempts : 0 .. MaxAttempts]
AttemptRows == [exists : {TRUE}, status : AttemptStatuses, channel : Channels,
                accepted : BOOLEAN, seq : Nat]

Init ==
    /\ original = Original
    /\ invoiced = [v \in Receivables |-> 0]
    /\ request = [q \in Requests |-> Absent]
    /\ attempt = [a \in Attempts |-> Absent]
    /\ inbox = {}
    /\ invoices = {}
    /\ cancelling = {}
    /\ TaxInit

-----------------------------------------------------------------------------
(* Requests.                                                               *)

InStatus(q, s) == request[q].exists /\ request[q].status = s
Latest(q) == <<q, request[q].attempts>>
AttemptsOf(q) == {a \in Attempts : a[1] = q}

\* The request's version moves on: a cancellation that saw the old one is refused.
NewVersion(q) == cancelling' = cancelling \ {q}

\* Mutant: results that contradict the status are not looked for.
NoConflict(q) == FALSE

\* A PROVIDER_CONFLICT row for any attempt of the request.
Conflict(q) ==
    \E a \in AttemptsOf(q), t \in ResultTypes : <<a, t, "PROVIDER_CONFLICT">> \in inbox

Reserved(v) ==
    MapThenSumSet(LAMBDA q : request[q].amount,
                  {q \in Requests : /\ request[q].exists
                                    /\ request[q].rcv = v
                                    /\ request[q].allocation = "RESERVED"})

\* Mutant: reservations of other requests are not counted.
AvailableIgnoresReserved(v) == original[v] - invoiced[v]

\* invoiceAvailableForUpdate; a contradictory balance refuses the request.
Available(v) == original[v] - invoiced[v] - Reserved(v)

CreateInvoiceRequest(u, q, v, amount, special) ==
    /\ ~ request[q].exists
    /\ amount <= Available(v)
    /\ request' = [request EXCEPT ![q] =
         [exists |-> TRUE, status |-> "SUBMITTED", by |-> u, rcv |-> v,
          amount |-> amount, special |-> special, allocation |-> "RESERVED",
          attempts |-> 0]]
    /\ UNCHANGED <<original, invoiced, attempt, invoices, queueVars, inbox, cancelling, providerVars>>

\* createApprovedInvoiceAttempt: the next attempt and, for the tax adapter, its
\* command.  A result that contradicts an earlier failure forbids it.
CreateApprovedInvoiceAttempt(q, channel) ==
    LET a == <<q, request[q].attempts + 1>> IN
    /\ request[q].attempts < MaxAttempts
    /\ ~ Conflict(q)
    /\ request' = [request EXCEPT ![q].status = "ISSUE_PENDING", ![q].attempts = @ + 1]
    /\ attempt' = [attempt EXCEPT ![a] =
         [exists |-> TRUE, status |-> "PENDING", channel |-> channel,
          accepted |-> FALSE, seq |-> 0]]
    /\ command' = IF channel = "TAX_ADAPTER"
                  THEN [command EXCEPT ![a] = NewCommand] ELSE command

ApproveInvoiceRequest(u, q, channel) ==
    /\ InStatus(q, "SUBMITTED")
    /\ request[q].by # u
    /\ IF request[q].special
       THEN /\ request' = [request EXCEPT ![q].status = "SPECIAL_REVIEW"]
            /\ UNCHANGED <<attempt, command>>
       ELSE CreateApprovedInvoiceAttempt(q, channel)
    /\ NewVersion(q)
    /\ UNCHANGED <<original, invoiced, invoices, leaseOver, worker, inbox, providerVars>>

ReviewSpecialInvoice(u, q, channel) ==
    /\ InStatus(q, "SPECIAL_REVIEW")
    /\ request[q].by # u
    /\ CreateApprovedInvoiceAttempt(q, channel)
    /\ NewVersion(q)
    /\ UNCHANGED <<original, invoiced, invoices, leaseOver, worker, inbox, providerVars>>

\* RejectInvoiceRequest, and ReviewSpecialInvoice with a refusal.
RejectInvoiceRequest(u, q) ==
    /\ InStatus(q, "SUBMITTED") \/ InStatus(q, "SPECIAL_REVIEW")
    /\ request[q].by # u
    /\ request' = [request EXCEPT ![q].status = "REJECTED", ![q].allocation = "RELEASED"]
    /\ NewVersion(q)
    /\ UNCHANGED <<original, invoiced, attempt, invoices, queueVars, inbox, providerVars>>

Issuing == {"ISSUE_PENDING", "ISSUE_UNKNOWN"}

\* finalizeInvoiceAllocations and incrementInvoiced, with the invoice row and
\* the two statuses written beside them.
Issue(q, a, seq) ==
    /\ invoices' = invoices \cup {a}
    /\ attempt' = [attempt EXCEPT ![a].status = "ISSUED", ![a].seq = seq]
    /\ request' = [request EXCEPT
         ![q].status = IF @ \in Issuing THEN "ISSUED" ELSE @,
         ![q].allocation = IF @ = "RESERVED" THEN "INVOICED" ELSE @]
    /\ invoiced' = IF request[q].allocation = "RESERVED"
                   THEN [invoiced EXCEPT ![request[q].rcv] = @ + request[q].amount]
                   ELSE invoiced

RegisterManualInvoice(q) ==
    /\ InStatus(q, "ISSUE_PENDING")
    /\ attempt[Latest(q)].channel = "MANUAL" /\ attempt[Latest(q)].status = "PENDING"
    /\ Issue(q, Latest(q), 0)
    /\ NewVersion(q)
    /\ UNCHANGED <<original, queueVars, inbox, providerVars>>

\* RecoverFailedInvoice: an explicit failure of the provider goes back to approval.
RecoverFailedInvoice(u, q) ==
    /\ InStatus(q, "ISSUE_FAILED")
    /\ request[q].by # u
    /\ LET a == Latest(q) IN
       /\ attempt[a].status = "ISSUE_FAILED"
       /\ attempt[a].channel = "TAX_ADAPTER"
       /\ attempt[a].seq > 0
       /\ \A t \in ResultTypes : <<a, t, "PROVIDER_CONFLICT">> \notin inbox
    /\ AttemptsOf(q) \cap invoices = {}
    /\ "TAX_ADAPTER" \in ChannelsFor[q]
    /\ request' = [request EXCEPT ![q].status = "SUBMITTED"]
    /\ NewVersion(q)
    /\ UNCHANGED <<original, invoiced, attempt, invoices, queueVars, inbox, providerVars>>

\* The command was never sent, or is a dead letter.
CommandDead(a) == command[a].exists => command[a].status = "DEAD_LETTER"

Cancellable(q) == InStatus(q, "ISSUE_PENDING") \/ InStatus(q, "ISSUE_FAILED")

\* CancelInvoiceRequest up to its first plain read, which opens the view that
\* the conflict count will be taken from.  A call that is going to be refused is
\* no step.
OpenCancellation(q) ==
    /\ Cancellable(q) /\ q \notin cancelling
    /\ ~ Conflict(q)
    /\ cancelling' = cancelling \cup {q}
    /\ UNCHANGED <<ledgerVars, inbox, taxVars>>

\* The rest of it, under the locks: the request still has the version it had,
\* and command, attempt and request are read as they are now.
CancelInvoiceRequest(u, q) ==
    /\ Cancellable(q) /\ q \in cancelling
    /\ request[q].by # u
    /\ LET a == Latest(q) IN
       /\ CommandDead(a)
       /\ ~ attempt[a].accepted
       /\ attempt[a].status \in {"PENDING", "ISSUE_FAILED"}
       /\ attempt' = [attempt EXCEPT ![a].status = "ABANDONED"]
    /\ AttemptsOf(q) \cap invoices = {}
    /\ request' = [request EXCEPT ![q].status = "CANCELLED", ![q].allocation = "RELEASED"]
    /\ NewVersion(q)
    /\ UNCHANGED <<original, invoiced, invoices, queueVars, inbox, providerVars>>

\* A check fails, or the call is broken off.
GiveUpCancellation(q) ==
    /\ q \in cancelling
    /\ cancelling' = cancelling \ {q}
    /\ UNCHANGED <<ledgerVars, inbox, taxVars>>

\* AdjustPlan's floor: what is invoiced or reserved stays covered.
AdjustPlan(v, planned) ==
    /\ invoiced[v] + Reserved(v) <= planned
    /\ original' = [original EXCEPT ![v] = planned]
    /\ UNCHANGED <<invoiced, request, attempt, invoices, queueVars, inbox, cancelling, providerVars>>

-----------------------------------------------------------------------------
(* What the queue does to an attempt.                                      *)

\* Mutant: the UPDATE without its status condition.
AcceptAlways(a) ==
    attempt' = [attempt EXCEPT ![a].status = "ACCEPTED", ![a].accepted = TRUE]

\* The attempt becomes ACCEPTED unless a callback has already moved it on.
AcceptAttempt(a) ==
    attempt' = IF attempt[a].status = "PENDING"
               THEN [attempt EXCEPT ![a].status = "ACCEPTED", ![a].accepted = TRUE]
               ELSE attempt

Delivered(w, a) ==
    /\ DeliveredRow(w, a)
    /\ IF Holds(w, a) THEN AcceptAttempt(a) ELSE UNCHANGED attempt
    /\ UNCHANGED <<original, invoiced, request, invoices, inbox, cancelling>>

\* RetryTaxCommandDeadLetter: only while the attempt still waits for its first
\* acceptance and is the request's latest.
RetryTaxCommandDeadLetter(a) ==
    /\ attempt[a].exists
    /\ attempt[a].status = "PENDING" /\ ~ attempt[a].accepted
    /\ InStatus(a[1], "ISSUE_PENDING")
    /\ a = Latest(a[1])
    /\ Requeue(a)
    /\ UNCHANGED <<ledgerVars, inbox, cancelling>>

-----------------------------------------------------------------------------
(* The provider's results.                                                 *)

Cancelled(a) == attempt[a].status = "ABANDONED" \/ request[a[1]].status = "CANCELLED"

\* Mutant: results are applied in the order they arrive.
VerdictUnordered(a, r) ==
    IF attempt[a].status = "ISSUED" \/ request[a[1]].status = "ISSUED"
    THEN "IGNORED_TERMINAL" ELSE "APPLIED"

\* What applyInvoiceIssueCallback decides, its early returns in order.
Verdict(a, r) ==
    LET at == attempt[a].status
        rq == request[a[1]].status
    IN  IF r.seq <= attempt[a].seq THEN "IGNORED_STALE"
        ELSE IF at = "ISSUED" \/ rq = "ISSUED" THEN "IGNORED_TERMINAL"
        ELSE IF at = "ISSUE_FAILED" \/ rq = "ISSUE_FAILED"
             THEN IF r.type = "issued" THEN "PROVIDER_CONFLICT" ELSE "IGNORED_TERMINAL"
        ELSE IF Cancelled(a)
             THEN IF r.type = "failed" THEN "IGNORED_TERMINAL" ELSE "PROVIDER_CONFLICT"
        ELSE "APPLIED"

\* The inbox row of ApplyTaxCallback.  An event id the inbox already has is
\* answered from it and is no step; the same result under a new id runs again.
Receive(a, r, verdicts) ==
    /\ Sends(a, r)
    /\ attempt[a].exists /\ attempt[a].channel = "TAX_ADAPTER"
    /\ Verdict(a, r) \in verdicts
    /\ inbox' = IF r.type = "issued" \/ Verdict(a, r) = "PROVIDER_CONFLICT"
                THEN inbox \cup {<<a, r.type, Verdict(a, r)>>} ELSE inbox
    /\ UNCHANGED <<queueVars, providerVars>>

ApplyIssued(a, r) ==
    /\ r.type = "issued"
    /\ Receive(a, r, {"APPLIED"})
    /\ Issue(a[1], a, r.seq)
    /\ NewVersion(a[1])
    /\ UNCHANGED original

ApplyNotIssued(a, r) ==
    /\ r.type # "issued"
    /\ Receive(a, r, {"APPLIED"})
    /\ attempt' = [attempt EXCEPT
         ![a].status = IF r.type = "failed" THEN "ISSUE_FAILED" ELSE "UNKNOWN",
         ![a].seq = r.seq]
    /\ request' = IF request[a[1]].status \in Issuing
                  THEN [request EXCEPT ![a[1]].status =
                          IF r.type = "failed" THEN "ISSUE_FAILED" ELSE "ISSUE_UNKNOWN"]
                  ELSE request
    /\ NewVersion(a[1])
    /\ UNCHANGED <<original, invoiced, invoices>>

\* A contradicting result is kept for reconciliation; after a cancellation it
\* also advances the sequence (recordLateIssueCallbackAfterCancel).
RecordConflict(a, r) ==
    /\ Receive(a, r, {"PROVIDER_CONFLICT"})
    /\ attempt' = IF attempt[a].status # "ISSUE_FAILED" /\ Cancelled(a)
                  THEN [attempt EXCEPT ![a].seq = r.seq] ELSE attempt
    /\ UNCHANGED <<original, invoiced, request, invoices, cancelling>>

IgnoreResult(a, r) ==
    /\ Receive(a, r, {"IGNORED_STALE", "IGNORED_TERMINAL"})
    /\ UNCHANGED <<ledgerVars, cancelling>>

ApplyTaxCallback(a, r) ==
    ApplyIssued(a, r) \/ ApplyNotIssued(a, r) \/ RecordConflict(a, r) \/ IgnoreResult(a, r)

\* taxreconcile: the provider is asked for the result of an accepted or unknown
\* attempt, and what it answers is applied like a callback.
Reconcile(a, r) ==
    /\ attempt[a].exists
    /\ attempt[a].status \in {"ACCEPTED", "UNKNOWN"}
    /\ ApplyTaxCallback(a, r)

-----------------------------------------------------------------------------
RequestNext ==
    \/ \E u \in Users, q \in Requests :
         \/ \E v \in Receivables, x \in Amounts, b \in Specials :
               u \in Applicants /\ CreateInvoiceRequest(u, q, v, x, b)
         \/ \E c \in ChannelsFor[q] : ApproveInvoiceRequest(u, q, c)
         \/ \E c \in ChannelsFor[q] : ReviewSpecialInvoice(u, q, c)
         \/ RejectInvoiceRequest(u, q)
         \/ RecoverFailedInvoice(u, q)
         \/ CancelInvoiceRequest(u, q)
    \/ \E q \in Requests :
         RegisterManualInvoice(q) \/ OpenCancellation(q) \/ GiveUpCancellation(q)
    \/ \E v \in Receivables, x \in AdjustAmounts : AdjustPlan(v, x)

ResultNext ==
    \E a \in Attempts :
      \/ \E w \in Workers : Delivered(w, a)
      \/ RetryTaxCommandDeadLetter(a)
      \/ \E r \in Results : ApplyTaxCallback(a, r) \/ Reconcile(a, r)

Next ==
    RequestNext \/ ResultNext \/ (TaxNext /\ UNCHANGED <<ledgerVars, inbox, cancelling>>)

Spec == Init /\ [][Next]_vars

\* The reconciliation poll runs on a ticker, and a provider that is asked again
\* and again says in the end whether it has issued; callbacks and people are
\* under no obligation.
Definite == {r \in Results : r.type # "unknown"}
Fairness ==
    TaxFairness /\ \A a \in Attempts : WF_vars(\E r \in Definite : Reconcile(a, r))

-----------------------------------------------------------------------------
\* The types of the rows.
TypeOK ==
    /\ original \in [Receivables -> Nat]
    /\ invoiced \in [Receivables -> Nat]
    /\ request \in [Requests -> RequestRows \cup {Absent}]
    /\ attempt \in [Attempts -> AttemptRows \cup {Absent}]
    /\ inbox \in SUBSET (Attempts \X ResultTypes \X Processing)
    /\ invoices \in SUBSET Attempts
    /\ cancelling \in SUBSET Requests
    /\ TaxTypeOK

\* What is invoiced and what is reserved never exceed the receivable, and the
\* invoiced column is exactly the sum of the issued requests, however requests,
\* releases, callbacks and plan adjustments interleave.
QuotaRespected ==
    \A v \in Receivables :
      /\ invoiced[v] + Reserved(v) <= original[v]
      /\ invoiced[v] = MapThenSumSet(LAMBDA q : request[q].amount,
                          {q \in Requests : /\ request[q].exists
                                            /\ request[q].rcv = v
                                            /\ request[q].status = "ISSUED"})

\* A request has one invoice if it is ISSUED and none otherwise; its reservation
\* is used exactly when it is issued and given back exactly when it is rejected
\* or cancelled: late, repeated and reordered results never issue twice or
\* revive a closed request.
InvoiceMatchesRequest ==
    \A q \in Requests : request[q].exists =>
      /\ Cardinality(AttemptsOf(q) \cap invoices) = IF request[q].status = "ISSUED" THEN 1 ELSE 0
      /\ request[q].allocation = "INVOICED" <=> request[q].status = "ISSUED"
      /\ request[q].allocation = "RELEASED" <=> request[q].status \in {"REJECTED", "CANCELLED"}

\* A request is with the provider through at most one attempt, its latest, and
\* only while its own status says so.
SingleLiveAttempt ==
    \A a \in Attempts :
      attempt[a].exists /\ attempt[a].status \in {"PENDING", "ACCEPTED", "UNKNOWN"} =>
        /\ a = Latest(a[1])
        /\ request[a[1]].status = IF attempt[a].status = "UNKNOWN" THEN "ISSUE_UNKNOWN"
                                                                 ELSE "ISSUE_PENDING"

\* Once settlement has been told that an invoice of a request was issued, the
\* request is never sent to the provider again through a new attempt, whatever
\* failures and successes come in which order.  The one exception is the code's
\* own: a success whose result_sequence is not above the one last applied is
\* filed as IGNORED_STALE, which nothing that allows a new attempt looks at.
NoReissueAfterSuccess ==
    [][\A a \in Attempts : attempt'[a].exists /\ ~ attempt[a].exists =>
         \A b \in AttemptsOf(a[1]), s \in Processing \ {"IGNORED_STALE"} :
           <<b, "issued", s>> \notin inbox]_vars

\* An attempt that the tax adapter should execute is settled in the end, or its
\* command is a dead letter that waits for a person.
AttemptConverges ==
    \A a \in Attempts :
      (attempt[a].exists /\ attempt[a].channel = "TAX_ADAPTER"
         /\ attempt[a].status \in {"PENDING", "ACCEPTED", "UNKNOWN"})
        ~> /\ attempt[a].exists
           /\ \/ attempt[a].status \in {"ISSUED", "ISSUE_FAILED", "ABANDONED"}
              \/ command[a].status = "DEAD_LETTER" /\ attempt[a].status = "PENDING"
=============================================================================
