------------------------------ MODULE RedFlush ------------------------------
(***************************************************************************)
(* Red flush (reversal) of issued invoices, on top of InvoiceIssue: the    *)
(* request, its review, the tax command, which travels through the same    *)
(* queue to the same provider, and the results, which void the invoice,    *)
(* leave a negative invoice behind and give the quota back.                *)
(*                                                                         *)
(* A red flush request has at most one attempt, so the two and the red     *)
(* invoice they may produce share one name.  The red invoice is an ISSUED  *)
(* tax invoice of the same request and can be asked to be flushed itself.  *)
(***************************************************************************)
EXTENDS InvoiceIssue

CONSTANT Flushes           \* red flush requests

ASSUME FlushAssumption ==
    /\ Commands = Attempts \cup Flushes
    /\ Attempts \cap Flushes = {}

VARIABLES
    flush,     \* settlement_invoice_red_flush_request with its attempt
    flushed,   \* tax invoices in status RED_FLUSHED
    reversals  \* settlement_invoice_allocation_reversal: <<request, flush>>

flushVars == <<flush, flushed, reversals>>
redVars == <<vars, flushVars>>

FlushRows == [exists : {TRUE}, by : Users, invoice : Commands, request : Requests,
              status : {"SUBMITTED", "REJECTED", "ISSUE_PENDING", "ISSUE_UNKNOWN",
                        "ISSUE_FAILED", "RED_FLUSHED"},
              attempt : {"NONE", "PENDING", "ACCEPTED", "UNKNOWN", "ISSUE_FAILED", "ISSUED"},
              accepted : BOOLEAN, seq : Nat]

RedInit ==
    /\ Init
    /\ flush = [f \in Flushes |-> Absent]
    /\ flushed = {}
    /\ reversals = {}

-----------------------------------------------------------------------------
FlushIn(f, S) == flush[f].exists /\ flush[f].status \in S
Active == {"SUBMITTED", "ISSUE_PENDING", "ISSUE_UNKNOWN"}

\* Tax invoices in status ISSUED, the red ones included.
RedInvoices == {f \in Flushes : FlushIn(f, {"RED_FLUSHED"})}
Flushable == (invoices \cup RedInvoices) \ flushed

RequestOf(i) == IF i \in Attempts THEN i[1] ELSE flush[i].request

\* Mutant: a result that is still unknown does not count as in flight.
FreeUnlessUnknown(i) ==
    \A f \in Flushes : flush[f].exists /\ flush[f].invoice = i =>
                         ~ FlushIn(f, {"SUBMITTED", "ISSUE_PENDING"})

\* No red flush of the invoice is in flight; counted under the invoice's lock.
Free(i) ==
    \A f \in Flushes : flush[f].exists /\ flush[f].invoice = i => ~ FlushIn(f, Active)

RequestInvoiceRedFlush(u, f, i) ==
    /\ ~ flush[f].exists
    /\ i \in Flushable /\ Free(i)
    /\ flush' = [flush EXCEPT ![f] =
         [exists |-> TRUE, by |-> u, invoice |-> i, request |-> RequestOf(i),
          status |-> "SUBMITTED", attempt |-> "NONE", accepted |-> FALSE, seq |-> 0]]
    /\ UNCHANGED <<vars, flushed, reversals>>

\* ReviewInvoiceRedFlush, approving, in a deployment that issues through the
\* tax adapter: the attempt and its command.
ApproveRedFlush(u, f) ==
    /\ FlushIn(f, {"SUBMITTED"})
    /\ flush[f].by # u
    /\ flush' = [flush EXCEPT ![f].status = "ISSUE_PENDING", ![f].attempt = "PENDING"]
    /\ command' = [command EXCEPT ![f] = NewCommand]
    /\ UNCHANGED <<ledgerVars, inbox, cancelling, leaseOver, worker, providerVars, flushed, reversals>>

RejectRedFlush(u, f) ==
    /\ FlushIn(f, {"SUBMITTED"})
    /\ flush[f].by # u
    /\ flush' = [flush EXCEPT ![f].status = "REJECTED"]
    /\ UNCHANGED <<vars, flushed, reversals>>

DeliveredFlush(w, f) ==
    /\ DeliveredRow(w, f)
    /\ flush' = IF Holds(w, f) /\ flush[f].attempt = "PENDING"
                THEN [flush EXCEPT ![f].attempt = "ACCEPTED", ![f].accepted = TRUE]
                ELSE flush
    /\ UNCHANGED <<ledgerVars, inbox, cancelling, flushed, reversals>>

\* RetryTaxCommandDeadLetter with requireRetryableRedFlushCommandTx.
RetryFlushDeadLetter(f) ==
    /\ FlushIn(f, {"ISSUE_PENDING"})
    /\ flush[f].attempt = "PENDING" /\ ~ flush[f].accepted
    /\ flush[f].invoice \notin flushed
    /\ Requeue(f)
    /\ UNCHANGED <<ledgerVars, inbox, cancelling, flushVars>>

-----------------------------------------------------------------------------
(* applyRedFlushCallback.  A result that is ignored or recorded as a       *)
(* conflict leaves only its inbox row, which no decision reads.            *)

Applies(f, r) ==
    /\ Sends(f, r) /\ flush[f].exists
    /\ r.seq > flush[f].seq
    /\ flush[f].invoice \notin flushed
    /\ FlushIn(f, {"ISSUE_PENDING", "ISSUE_UNKNOWN"})

ApplyNotFlushed(f, r) ==
    LET failed == r.type = "failed" IN
    /\ r.type # "issued"
    /\ Applies(f, r)
    /\ flush' = [flush EXCEPT ![f] =
         [@ EXCEPT !.status = IF failed THEN "ISSUE_FAILED" ELSE "ISSUE_UNKNOWN",
                   !.attempt = IF failed THEN "ISSUE_FAILED" ELSE "UNKNOWN",
                   !.seq = r.seq]]
    /\ UNCHANGED <<vars, flushed, reversals>>

\* An allocation that any other red flush has reversed is skipped.
NotReversed(q, f) == \A g \in Flushes \ {f} : <<q, g>> \notin reversals

\* Mutant: the allocation is recorded as reversed, the quota stays used.
ReverseWithoutDecrement(q, f) ==
    /\ reversals' = reversals \cup {<<q, f>>}
    /\ UNCHANGED invoiced

\* reverseInvoiceAllocations and decrementInvoiced, which stops at zero.
ReverseInvoiceAllocations(q, f) ==
    IF request[q].allocation = "INVOICED" /\ NotReversed(q, f)
    THEN /\ reversals' = reversals \cup {<<q, f>>}
         /\ invoiced' = [invoiced EXCEPT ![request[q].rcv] =
                           IF @ < request[q].amount THEN 0 ELSE @ - request[q].amount]
    ELSE UNCHANGED <<reversals, invoiced>>

\* The totals of a result are absolute: those of a red invoice, which are
\* negative, never match them, and the result is refused.
ApplyRedFlushed(f, r) ==
    /\ r.type = "issued"
    /\ Applies(f, r)
    /\ flush[f].invoice \in Attempts
    /\ flush' = [flush EXCEPT ![f] =
         [@ EXCEPT !.status = "RED_FLUSHED", !.attempt = "ISSUED", !.seq = r.seq]]
    /\ flushed' = flushed \cup {flush[f].invoice}
    /\ ReverseInvoiceAllocations(flush[f].request, f)
    /\ UNCHANGED <<original, request, attempt, invoices, inbox, cancelling, taxVars>>

ApplyRedFlushCallback(f, r) == ApplyRedFlushed(f, r) \/ ApplyNotFlushed(f, r)

\* taxreconcile polls red flush attempts like issue attempts.
ReconcileFlush(f, r) ==
    /\ flush[f].exists /\ flush[f].attempt \in {"ACCEPTED", "UNKNOWN"}
    /\ ApplyRedFlushCallback(f, r)

-----------------------------------------------------------------------------
FlushNext ==
    \E f \in Flushes :
      \/ \E u \in Users :
           \/ \E i \in Commands : u \in Applicants /\ RequestInvoiceRedFlush(u, f, i)
           \/ ApproveRedFlush(u, f) \/ RejectRedFlush(u, f)
      \/ \E w \in Workers : DeliveredFlush(w, f)
      \/ RetryFlushDeadLetter(f)
      \/ \E r \in Results : ApplyRedFlushCallback(f, r) \/ ReconcileFlush(f, r)

RedNext == FlushNext \/ (Next /\ UNCHANGED flushVars)

RedSpec == RedInit /\ [][RedNext]_redVars

RedFairSpec ==
    /\ RedSpec
    /\ Fairness
    /\ \A f \in Flushes : WF_redVars(\E r \in Definite : ReconcileFlush(f, r))

-----------------------------------------------------------------------------
\* The types of the rows.
RedTypeOK ==
    /\ TypeOK
    /\ flush \in [Flushes -> FlushRows \cup {Absent}]
    /\ flushed \in SUBSET Commands
    /\ reversals \in SUBSET (Requests \X Flushes)

\* The quota with red flushes in play: what is invoiced is exactly the sum of
\* the issued requests whose invoice stands, and with the reservations it never
\* exceeds the receivable.  A quota given back twice would break it.
QuotaAfterFlush ==
    \A v \in Receivables :
      /\ invoiced[v] + Reserved(v) <= original[v]
      /\ invoiced[v] = MapThenSumSet(LAMBDA q : request[q].amount,
           {q \in Requests : /\ request[q].exists /\ request[q].rcv = v
                             /\ request[q].status = "ISSUED"
                             /\ \A f \in Flushes : <<q, f>> \notin reversals})

\* At most one red flush of an invoice is in flight, none of a flushed invoice;
\* an invoice is flushed by exactly one request, and a request's allocation is
\* reversed exactly when its invoice is flushed, whatever results come late.
FlushedOnce ==
    /\ \A i \in Commands :
         LET of(S) == {f \in Flushes : FlushIn(f, S) /\ flush[f].invoice = i} IN
         /\ Cardinality(of(Active)) <= IF i \in flushed THEN 0 ELSE 1
         /\ Cardinality(of({"RED_FLUSHED"})) = IF i \in flushed THEN 1 ELSE 0
    /\ \A a \in Attempts :
         a \in flushed <=> a \in invoices /\ \E f \in Flushes : <<a[1], f>> \in reversals

\* An approved red flush of an invoice is settled in the end, or its command is
\* a dead letter that waits for a person.
FlushConverges ==
    \A f \in Flushes :
      (FlushIn(f, {"ISSUE_PENDING", "ISSUE_UNKNOWN"}) /\ flush[f].invoice \in Attempts)
        ~> \/ FlushIn(f, {"RED_FLUSHED", "ISSUE_FAILED"})
           \/ /\ flush[f].exists /\ flush[f].attempt = "PENDING"
              /\ command[f].status = "DEAD_LETTER"
=============================================================================
