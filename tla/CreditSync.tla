----------------------------- MODULE CreditSync -----------------------------
(***************************************************************************)
(* The CRM credit queue: the rows of settlement_credit_sync, the two kinds *)
(* of publishers that drain it and the CRM that receives the events.       *)
(*                                                                         *)
(* A row is written inside a ledger transaction (InsertCreditSync,         *)
(* EnqueueCreditReversal are used by AllocationLedger); publishing happens *)
(* outside any transaction in three steps: claim (a transaction), HTTP     *)
(* call, record (an UPDATE ... WHERE status='PROCESSING').  A process may  *)
(* stop between any two of them; the row then waits for its lease.         *)
(***************************************************************************)
EXTENDS Naturals, FiniteSets, FiniteSetsExt

CONSTANTS Receivables,      \* ids of receivables (one per confirmed plan)
          Handlers,         \* API requests in flight (RetryCreditSync)
          Workers,          \* CreditSyncWorker processes
          BatchSize,        \* rows a worker claims at once
          MaxCreditEvents,  \* bound: rows of settlement_credit_sync
          MaxDisruptions    \* bound: crashes, license pauses and manual resends

ASSUME CreditAssumption ==
    /\ Handlers \cap Workers = {}
    /\ BatchSize \in Nat \ {0}
    /\ MaxCreditEvents \in Nat
    /\ MaxDisruptions \in Nat

CreditIds == 1 .. MaxCreditEvents     \* row ids, in the order of created_at
Publishers == Handlers \cup Workers

VARIABLES
    credit,       \* row id -> row; rows above creditCount do not exist yet
    creditCount,  \* number of rows
    leaseOver,    \* rows whose locked_at is older than the lease
    job,          \* publisher -> the call it is in the middle of
    crm,          \* ids the CRM has received (it deduplicates by event_id)
    disruptions   \* crashes, pauses and resends so far

creditVars == <<credit, creditCount, leaseOver, job, crm, disruptions>>

CreditStatuses == {"NONE", "PENDING", "PROCESSING", "RETRY_WAIT", "DELIVERED",
                   "CANCELLED", "HOLD", "SUPPRESSED"}

CreditRows == [type : {"NONE", "completed", "reversed"},
               rcv : Receivables \cup {"NONE"},
               original : 0 .. MaxCreditEvents,
               status : CreditStatuses]

\* pc: "idle", "retry" (RetryCreditSync called for the one row of batch),
\* "claimed" (batch is claimed and still to be sent), "ok" / "failed" (the
\* HTTP call for row ev returned, its outcome is not recorded yet).
Jobs == [pc : {"idle", "retry", "claimed", "ok", "failed"},
         ev : 0 .. MaxCreditEvents,
         batch : SUBSET CreditIds]

Idle == [pc |-> "idle", ev |-> 0, batch |-> {}]
NoRow == [type |-> "NONE", rcv |-> "NONE", original |-> 0, status |-> "NONE"]

CreditInit ==
    /\ credit = [e \in CreditIds |-> NoRow]
    /\ creditCount = 0
    /\ leaseOver = {}
    /\ job = [p \in Publishers |-> Idle]
    /\ crm = {}
    /\ disruptions = 0

-----------------------------------------------------------------------------
(* What a ledger transaction does to the queue.                            *)

\* insertCreditSyncEvent for a contract that is not on import HOLD.
InsertCreditSync(type, r, original) ==
    /\ creditCount < MaxCreditEvents
    /\ creditCount' = creditCount + 1
    /\ credit' = [credit EXCEPT ![creditCount + 1] =
                    [type |-> type, rcv |-> r, original |-> original,
                     status |-> "PENDING"]]

\* A completed row that no reversed row refers to.
Compensated(e) ==
    \E f \in CreditIds : credit[f].type = "reversed" /\ credit[f].original = e

LiveCompleted(r) ==
    {e \in CreditIds : /\ credit[e].type = "completed"
                       /\ credit[e].rcv = r
                       /\ credit[e].status # "CANCELLED"
                       /\ ~ Compensated(e)}

\* Mutant: a row that is already with a publisher is left alone.
EnqueueIgnoresInFlight(r) ==
    /\ credit' = [e \in CreditIds |->
                    IF e \in LiveCompleted(r) /\ credit[e].status \in {"PENDING", "RETRY_WAIT"}
                    THEN [credit[e] EXCEPT !.status = "CANCELLED"] ELSE credit[e]]
    /\ UNCHANGED creditCount

\* Mutant: a cancelled row is compensated as well.
EnqueueAfterCancel(r) ==
    IF LiveCompleted(r) = {} \/ creditCount = MaxCreditEvents
    THEN UNCHANGED <<credit, creditCount>>
    ELSE \E e \in LiveCompleted(r) :
             /\ creditCount' = creditCount + 1
             /\ credit' = [credit EXCEPT
                   ![e].status = IF @ \in {"PENDING", "RETRY_WAIT"} THEN "CANCELLED" ELSE @,
                   ![creditCount + 1] = [type |-> "reversed", rcv |-> r,
                                         original |-> e, status |-> "PENDING"]]

\* enqueueCreditReversal: the current completed event of the receivable is
\* cancelled while it waits, and compensated by a reversed event once a
\* publisher has it.
EnqueueCreditReversal(r) ==
    IF LiveCompleted(r) = {}
    THEN UNCHANGED <<credit, creditCount>>
    ELSE \E e \in LiveCompleted(r) :
           /\ \A f \in LiveCompleted(r) : f <= e
           /\ IF credit[e].status \in {"PENDING", "RETRY_WAIT"}
              THEN /\ credit' = [credit EXCEPT ![e].status = "CANCELLED"]
                   /\ UNCHANGED creditCount
              ELSE InsertCreditSync("reversed", r, e)

\* After its commit the request publishes the row it has just inserted.
PublishAfterCommit(h) ==
    job' = [job EXCEPT ![h] =
              IF creditCount' > creditCount
              THEN [pc |-> "retry", ev |-> 0, batch |-> {creditCount'}]
              ELSE Idle]

-----------------------------------------------------------------------------
(* Publishing.                                                             *)

\* The resend endpoint calls RetryCreditSync for a row of the caller's choice.
ResendCreditSync(h, e) ==
    /\ job[h] = Idle
    /\ e <= creditCount
    /\ disruptions < MaxDisruptions
    /\ disruptions' = disruptions + 1
    /\ job' = [job EXCEPT ![h] = [pc |-> "retry", ev |-> 0, batch |-> {e}]]
    /\ UNCHANGED <<credit, creditCount, leaseOver, crm>>

\* RetryCreditSync's claim; a row in any other status is ErrNotFound.
ClaimForRetry(h) ==
    /\ job[h].pc = "retry"
    /\ \E e \in job[h].batch :
         IF credit[e].status \in {"PENDING", "RETRY_WAIT"}
         THEN /\ credit' = [credit EXCEPT ![e].status = "PROCESSING"]
              /\ job' = [job EXCEPT ![h].pc = "claimed"]
              /\ leaseOver' = leaseOver \ {e}
         ELSE /\ job' = [job EXCEPT ![h] = Idle]
              /\ UNCHANGED <<credit, leaseOver>>
    /\ UNCHANGED <<creditCount, crm, disruptions>>

Claimable(e) ==
    \/ credit[e].status \in {"PENDING", "RETRY_WAIT"}
    \/ credit[e].status = "PROCESSING" /\ e \in leaseOver

\* CreditSyncWorker.claim: a batch of claimable rows becomes PROCESSING under
\* one fresh locked_at.  ORDER BY updated_at puts a retried row behind younger
\* ones, so which rows fill the batch is left open.
ClaimBatch(w) ==
    /\ job[w] = Idle
    /\ LET claimable == {e \in CreditIds : Claimable(e)} IN
       \E batch \in SUBSET claimable :
         /\ Cardinality(batch) = Min({BatchSize, Cardinality(claimable)})
         /\ batch # {}
         /\ credit' = [e \in CreditIds |->
                         IF e \in batch THEN [credit[e] EXCEPT !.status = "PROCESSING"]
                                        ELSE credit[e]]
         /\ leaseOver' = leaseOver \ batch
         /\ job' = [job EXCEPT ![w] = [pc |-> "claimed", ev |-> 0, batch |-> batch]]
    /\ UNCHANGED <<creditCount, crm, disruptions>>

\* Publish: the HTTP call.  The CRM may receive the event and the answer may
\* still be lost (client timeout), which the caller sees as a failure.
PublishAccepted(p, e) ==
    /\ job[p].pc = "claimed" /\ e \in job[p].batch
    /\ crm' = crm \cup {e}
    /\ job' = [job EXCEPT ![p] = [pc |-> "ok", ev |-> e, batch |-> @.batch]]
    /\ UNCHANGED <<credit, creditCount, leaseOver, disruptions>>

PublishFailed(p, e, received) ==
    /\ job[p].pc = "claimed" /\ e \in job[p].batch
    /\ crm' = IF received THEN crm \cup {e} ELSE crm
    /\ job' = [job EXCEPT ![p] = [pc |-> "failed", ev |-> e, batch |-> @.batch]]
    /\ UNCHANGED <<credit, creditCount, leaseOver, disruptions>>

\* Mutant: the UPDATE without its status condition.
RecordUnconditionally(e, s) == credit' = [credit EXCEPT ![e].status = s]

\* UPDATE ... SET status=s WHERE id=? AND status='PROCESSING': whoever holds
\* the claim by now.
RecordOutcome(e, s) ==
    credit' = IF credit[e].status = "PROCESSING"
              THEN [credit EXCEPT ![e].status = s]
              ELSE credit

NextInBatch(p) ==
    LET rest == job[p].batch \ {job[p].ev}
    IN  job' = [job EXCEPT ![p] =
                  IF rest = {} THEN Idle
                  ELSE [pc |-> "claimed", ev |-> 0, batch |-> rest]]

\* Mutant: the error of Publish is ignored.
RecordDeliveredAlways(p) ==
    /\ job[p].pc \in {"ok", "failed"}
    /\ RecordOutcome(job[p].ev, "DELIVERED")
    /\ NextInBatch(p)
    /\ UNCHANGED <<creditCount, leaseOver, crm, disruptions>>

RecordDelivered(p) ==
    /\ job[p].pc = "ok"
    /\ RecordOutcome(job[p].ev, "DELIVERED")
    /\ NextInBatch(p)
    /\ UNCHANGED <<creditCount, leaseOver, crm, disruptions>>

RecordRetryWait(p) ==
    /\ job[p].pc = "failed"
    /\ RecordOutcome(job[p].ev, "RETRY_WAIT")
    /\ NextInBatch(p)
    /\ UNCHANGED <<creditCount, leaseOver, crm, disruptions>>

\* The process stops, or the business license pauses it before it sends
\* anything: either way the claimed rows stay PROCESSING and keep their lease.
Abandon(p) ==
    /\ disruptions < MaxDisruptions
    /\ job[p] # Idle
    /\ job' = [job EXCEPT ![p] = Idle]
    /\ disruptions' = disruptions + 1
    /\ UNCHANGED <<credit, creditCount, leaseOver, crm>>

\* Two minutes pass since locked_at, whether or not the claimant is done.
LeaseExpires(e) ==
    /\ credit[e].status = "PROCESSING"
    /\ e \notin leaseOver
    /\ leaseOver' = leaseOver \cup {e}
    /\ UNCHANGED <<credit, creditCount, job, crm, disruptions>>

CreditNext ==
    \/ \E h \in Handlers : \/ \E e \in CreditIds : ResendCreditSync(h, e)
                           \/ ClaimForRetry(h)
    \/ \E w \in Workers : ClaimBatch(w)
    \/ \E p \in Publishers :
         \/ \E e \in CreditIds : PublishAccepted(p, e)
         \/ \E e \in CreditIds, received \in BOOLEAN : PublishFailed(p, e, received)
         \/ RecordDelivered(p)
         \/ RecordRetryWait(p)
         \/ Abandon(p)
    \/ \E e \in CreditIds : LeaseExpires(e)

\* The worker loop ticks every 30 seconds and never gives up on a row; leases
\* run out by themselves; the CRM answers some call of a worker that keeps
\* calling.  API requests are under no obligation to happen.
CreditFairness ==
    /\ \A w \in Workers :
         /\ SF_creditVars(ClaimBatch(w))
         /\ \A e \in CreditIds : SF_creditVars(PublishAccepted(w, e))
         /\ WF_creditVars(\E e \in CreditIds, b \in BOOLEAN : PublishAccepted(w, e) \/ PublishFailed(w, e, b))
         /\ WF_creditVars(RecordDelivered(w))
         /\ WF_creditVars(RecordRetryWait(w))
    /\ \A e \in CreditIds : WF_creditVars(LeaseExpires(e))
    /\ \A h \in Handlers : WF_creditVars(ClaimForRetry(h))

CreditTypeOK ==
    /\ credit \in [CreditIds -> CreditRows]
    /\ creditCount \in 0 .. MaxCreditEvents
    /\ leaseOver \in SUBSET CreditIds
    /\ job \in [Publishers -> Jobs]
    /\ crm \in SUBSET CreditIds
    /\ disruptions \in 0 .. MaxDisruptions

-----------------------------------------------------------------------------
(* The queue as its writers see it: claims, leases and retries are hidden. *)

StateOf(status) ==
    CASE status = "NONE" -> "none"
      [] status \in {"PENDING", "PROCESSING", "RETRY_WAIT", "HOLD"} -> "waiting"
      [] status = "DELIVERED" -> "confirmed"
      [] OTHER -> "withdrawn"

QueueState == [e \in CreditIds |-> StateOf(credit[e].status)]

Queue == INSTANCE DeliveryQueue WITH
            Ids <- CreditIds, state <- QueueState, received <- crm
=============================================================================
