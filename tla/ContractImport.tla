--------------------------- MODULE ContractImport ---------------------------
(***************************************************************************)
(* A historical contract taken over from the contract system: PREPARE puts *)
(* it on HOLD with a manifest of the facts to restore, finance restores    *)
(* and reconciles them, RELEASE lets it into ordinary business.  Composed  *)
(* with the CRM credit queue of CreditSync, whose rows wait on HOLD, with  *)
(* the contract's responsibility projection, which RELEASE must match, and *)
(* with the reconciliation exports.                                        *)
(*                                                                         *)
(* Every write to a contract on HOLD first takes the snapshot's row lock,  *)
(* which reconciliation, release and export take too, so each is one       *)
(* action.  A repeated command is answered from its idempotency record or  *)
(* its fact row and is no step.  What happens to a released contract is    *)
(* AllocationLedger's matter; of that, only the reversal is kept, since it *)
(* meets the credit rows an import leaves behind.                          *)
(***************************************************************************)
EXTENDS CreditSync, Sequences, Functions

CONSTANTS Planned,          \* receivable -> planned_amount of its installment
          ReceiptFacts,     \* source identities of receipts
          AllocationFacts,  \* source identities of allocations
          Manifest,         \* the facts PREPARE declares
          Amounts,          \* amounts facts are restored with
          ApprovedOpen,     \* balances of the source's ledger, which the
          ApprovedReceipts, \* reconciler enters
          Mode,             \* import_mode and
          Owner,            \* owner_user_id of the PREPARE command
          OwnerEvents,      \* responsibility events: [version, user, active]
          Exports,          \* reconciliation exports
          MaxReconciliations  \* bound: reconciliations

Facts == ReceiptFacts \cup AllocationFacts

ASSUME ImportAssumption ==
    /\ ReceiptFacts \cap AllocationFacts = {} /\ Manifest \subseteq Facts
    /\ Planned \in [Receivables -> Nat \ {0}]
    /\ Amounts \subseteq Nat \ {0}
    /\ Mode \in {"CONTINUE_LIVE", "HISTORICAL_CLOSED"}
    /\ IsFiniteSet(Facts) /\ IsFiniteSet(Receivables)

VARIABLES
    contract,   \* snapshot row and settlement_contract_import row
    plan,       \* receivable -> is its plan confirmed, and its open_amount
    fact,       \* settlement_import_fact with the receipt or allocation it names
    recons,     \* settlement_import_reconciliation, in the order of creation
    owner,      \* settlement_contract_responsibility
    export      \* settlement_import_export

importVars == <<contract, plan, fact, recons, owner, export>>
vars == <<importVars, creditVars>>

Decisions == {"PUBLISH", "SUPPRESSED"}
Absent == [exists |-> FALSE]
NoContract == [state |-> "NONE", version |-> 0, import |-> "NONE",
               recon |-> 0, decision |-> "NONE"]

Init ==
    /\ contract = NoContract
    /\ plan = [r \in Receivables |-> [confirmed |-> FALSE, open |-> 0]]
    /\ fact = [f \in Facts |-> Absent]
    /\ recons = <<>>
    /\ owner = [version |-> 0, user |-> "NONE", active |-> FALSE]
    /\ export = [x \in Exports |-> Absent]
    /\ CreditInit

-----------------------------------------------------------------------------
OnHold == contract.state = "HOLD"
Restored == {f \in Facts : fact[f].exists}

\* ingestContract for an import: the stream must be new.
PrepareContractImport ==
    /\ contract.state = "NONE"
    /\ contract' = [NoContract EXCEPT !.state = "HOLD", !.version = 1,
                                      !.import = "PREPARED"]
    /\ UNCHANGED <<plan, fact, recons, owner, export, creditVars>>

\* Mutant: the write leaves the snapshot version alone.
LockWithoutVersion ==
    /\ OnHold
    /\ contract' = [contract EXCEPT !.import = "PREPARED", !.recon = 0]

\* lockImportWrite: the write invalidates an earlier reconciliation.
LockImportWrite ==
    /\ OnHold
    /\ contract' = [contract EXCEPT !.version = @ + 1, !.import = "PREPARED", !.recon = 0]

\* ConfirmPlan: on HOLD, only at the planned amount and due date.
ConfirmPlan(r) ==
    /\ LockImportWrite
    /\ ~ plan[r].confirmed
    /\ plan' = [plan EXCEPT ![r] = [confirmed |-> TRUE, open |-> Planned[r]]]
    /\ UNCHANGED <<fact, recons, owner, export, creditVars>>

\* claimImportFact: a fact that is restored already answers with its target.
ClaimImportFact(f) ==
    /\ ~ fact[f].exists
    /\ f \in Manifest
    /\ LockImportWrite

CreateReceipt(f, amount) ==
    /\ ClaimImportFact(f)
    /\ fact' = [fact EXCEPT ![f] = [exists |-> TRUE, amount |-> amount, free |-> amount]]
    /\ UNCHANGED <<plan, recons, owner, export, creditVars>>

\* Mutant: the row is written as for any other contract.
InsertAsPending(r) == InsertCreditSync("completed", r, 0)

\* insertCreditSyncEvent for a contract on HOLD.
InsertHeldCredit(r) ==
    /\ creditCount < MaxCreditEvents
    /\ creditCount' = creditCount + 1
    /\ credit' = [credit EXCEPT ![creditCount + 1] =
         [type |-> "completed", rcv |-> r, original |-> 0, status |-> "HOLD"]]

\* ConfirmAllocation of an imported fact, on the receipt that the fact's
\* original receipt was restored to.
ConfirmAllocation(h, f, c, r, amount) ==
    /\ job[h] = Idle
    /\ ClaimImportFact(f)
    /\ fact[c].exists /\ plan[r].confirmed
    /\ amount <= fact[c].free /\ amount <= plan[r].open
    /\ fact' = [fact EXCEPT ![f] = [exists |-> TRUE, amount |-> amount, rcv |-> r,
                                    reversed |-> FALSE],
                            ![c].free = @ - amount]
    /\ plan' = [plan EXCEPT ![r].open = @ - amount]
    /\ IF plan[r].open = amount THEN InsertHeldCredit(r)
                                ELSE UNCHANGED <<credit, creditCount>>
    /\ PublishAfterCommit(h)
    /\ UNCHANGED <<recons, owner, export, leaseOver, crm, disruptions>>

-----------------------------------------------------------------------------
(* Reconciliation and release.                                             *)

OpenAmount == MapThenSumSet(LAMBDA r : plan[r].open, Receivables)
ReceiptAmount == MapThenSumSet(LAMBDA f : fact[f].amount, Restored \cap ReceiptFacts)

\* The statement that importBalances computes and the reconciliation hashes.
Balances == [version |-> contract.version, open |-> OpenAmount,
             receipts |-> ReceiptAmount, facts |-> Cardinality(Restored)]

\* The conditions of importBalances: all plans are confirmed, every declared
\* fact is restored and nothing else, a closed contract has nothing open.
BalancesComplete ==
    /\ OnHold
    /\ \A r \in Receivables : plan[r].confirmed
    /\ Restored = Manifest
    /\ Mode = "HISTORICAL_CLOSED" => OpenAmount = 0

\* Mutant: only the open amount is compared.
ApprovedOpenOnly == OpenAmount = ApprovedOpen

\* The balances are those the reconciler enters from the source's ledger.
Approved == OpenAmount = ApprovedOpen /\ ReceiptAmount = ApprovedReceipts

ReconcileContractImport(decision) ==
    /\ Len(recons) < MaxReconciliations
    /\ BalancesComplete
    /\ Approved
    /\ recons' = Append(recons, Balances)
    /\ contract' = [contract EXCEPT !.import = "READY", !.recon = Len(recons'),
                                    !.decision = decision]
    /\ UNCHANGED <<plan, fact, owner, export, creditVars>>

\* The projection is checked under a share lock: no responsibility event can
\* pass between the check and the release.
OwnerMatches(version) ==
    Mode = "CONTINUE_LIVE" =>
      owner.active /\ owner.user = Owner /\ owner.version = version

\* Mutant: rows on HOLD are left where they are.
ReleasedStatusSkipsHold(s) ==
    IF s \in {"PENDING", "RETRY_WAIT", "PROCESSING"}
    THEN IF contract.decision = "PUBLISH" THEN "PENDING" ELSE "SUPPRESSED"
    ELSE s

\* What a release makes of the credit rows of the contract.
ReleasedStatus(s) ==
    IF s \in {"HOLD", "PENDING", "RETRY_WAIT", "PROCESSING"}
    THEN IF contract.decision = "PUBLISH" THEN "PENDING" ELSE "SUPPRESSED"
    ELSE s

\* ReleaseContractImport: the command names a reconciliation, the version it
\* was made at and the version of the responsibility the sender knows.
ReleaseContractImport(id, version, ownerVersion) ==
    /\ BalancesComplete
    /\ contract.recon = id
    /\ recons[id].version = version /\ recons[id] = Balances
    /\ OwnerMatches(ownerVersion)
    /\ contract' = [contract EXCEPT !.state = "RELEASED", !.import = "RELEASED"]
    /\ credit' = [e \in CreditIds |-> [credit[e] EXCEPT !.status = ReleasedStatus(@)]]
    /\ UNCHANGED <<plan, fact, recons, owner, export, creditCount, leaseOver, job, crm,
                   disruptions>>

\* ReverseAllocation, in full; rejectImportedReceiptMutation refuses it before
\* the release.
ReverseAllocation(h, f) ==
    /\ job[h] = Idle
    /\ ~ OnHold
    /\ fact[f].exists /\ ~ fact[f].reversed
    /\ LET r == fact[f].rcv IN
       /\ fact' = [fact EXCEPT ![f].reversed = TRUE]
       /\ plan' = [plan EXCEPT ![r].open = @ + fact[f].amount]
       /\ IF plan[r].open = 0 THEN EnqueueCreditReversal(r)
                              ELSE UNCHANGED <<credit, creditCount>>
    /\ PublishAfterCommit(h)
    /\ UNCHANGED <<contract, recons, owner, export, leaseOver, crm, disruptions>>

-----------------------------------------------------------------------------
Newer(v) == v > owner.version

\* IngestContractResponsibility: events may arrive late and out of order; one
\* that is not newer changes nothing.
IngestContractResponsibility(e) ==
    /\ Newer(e.version)
    /\ owner' = e
    /\ UNCHANGED <<contract, plan, fact, recons, export, creditVars>>

\* CreateImportExport inserts the row in a transaction of its own.  Building
\* may fail, or never happen: the process stops and the row stays PENDING.
CreateImportExport(x) ==
    /\ contract.state # "NONE"
    /\ ~ export[x].exists
    /\ export' = [export EXCEPT ![x] = [exists |-> TRUE, status |-> "PENDING",
                                        version |-> 0, rows |-> {}]]
    /\ UNCHANGED <<contract, plan, fact, recons, owner, creditVars>>

Pending(x) == export[x].exists /\ export[x].status = "PENDING"

BuildImportExport(x) ==
    /\ Pending(x)
    /\ export' = [export EXCEPT ![x] = [exists |-> TRUE, status |-> "SUCCEEDED",
                                        version |-> contract.version, rows |-> Restored]]
    /\ UNCHANGED <<contract, plan, fact, recons, owner, creditVars>>

FailImportExport(x) ==
    /\ Pending(x)
    /\ export' = [export EXCEPT ![x].status = "FAILED"]
    /\ UNCHANGED <<contract, plan, fact, recons, owner, creditVars>>

\* purgeExpiredImportExports: seven days later the content goes.  (A summary
\* stays, which nothing reads.)
PurgeImportExport(x) ==
    /\ export[x].exists /\ export[x].status = "SUCCEEDED"
    /\ export' = [export EXCEPT ![x] = [exists |-> TRUE, status |-> "EXPIRED",
                                        version |-> 0, rows |-> {}]]
    /\ UNCHANGED <<contract, plan, fact, recons, owner, creditVars>>

-----------------------------------------------------------------------------
RestoreNext ==
    \/ PrepareContractImport
    \/ \E r \in Receivables : ConfirmPlan(r)
    \/ \E f \in ReceiptFacts, x \in Amounts : CreateReceipt(f, x)
    \/ \E h \in Handlers, f \in AllocationFacts, c \in ReceiptFacts, r \in Receivables,
          x \in Amounts : ConfirmAllocation(h, f, c, r, x)

ReleaseNext ==
    \/ \E d \in Decisions : ReconcileContractImport(d)
    \/ \E id \in DOMAIN recons, v \in {b.version : b \in Range(recons)},
          o \in {e.version : e \in OwnerEvents} : ReleaseContractImport(id, v, o)
    \/ \E h \in Handlers, f \in AllocationFacts : ReverseAllocation(h, f)
    \/ \E e \in OwnerEvents : IngestContractResponsibility(e)

ExportNext ==
    \E x \in Exports : \/ CreateImportExport(x) \/ BuildImportExport(x)
                       \/ FailImportExport(x) \/ PurgeImportExport(x)

Next ==
    RestoreNext \/ ReleaseNext \/ ExportNext \/ (CreditNext /\ UNCHANGED importVars)

Spec == Init /\ [][Next]_vars

\* Publishing is fair as in CreditSync; people and the contract system are
\* under no obligation.
FairSpec == Spec /\ CreditFairness

-----------------------------------------------------------------------------
\* A contract enters ordinary business only complete and as approved: with
\* every declared fact restored once and no other, every plan confirmed, the
\* balances those of the source's ledger, and, if it goes on live, under the
\* owner that the contract system handed over, whatever was written, reconciled
\* again or reassigned before the command arrived.
ReleasedAsApproved ==
    [][contract.state = "HOLD" /\ contract'.state = "RELEASED" =>
         /\ Restored = Manifest
         /\ \A r \in Receivables : plan[r].confirmed
         /\ OpenAmount = ApprovedOpen /\ ReceiptAmount = ApprovedReceipts
         /\ Mode = "CONTINUE_LIVE" => owner.active /\ owner.user = Owner]_vars

\* The events of restored settlements stay unsent for as long as the contract is
\* on HOLD, although each request tries to publish what it wrote, and for good
\* if finance decided to suppress them.
HeldCreditKept ==
    \A e \in CreditIds :
      /\ OnHold /\ e <= creditCount => credit[e].status = "HOLD" /\ e \notin crm
      /\ credit[e].type = "completed" /\ contract.decision = "SUPPRESSED" => e \notin crm

\* A finished export that carries the current snapshot version shows exactly the
\* facts of now, however long it took to build and whatever was restored since.
ExportIsCurrent ==
    \A x \in Exports :
      export[x].exists /\ export[x].status = "SUCCEEDED" /\ export[x].version = contract.version
        => export[x].rows = Restored

\* Once the contract is released no event waits for ever: it is delivered,
\* suppressed, or cancelled by a reversal.
HeldCreditSettles ==
    \A e \in CreditIds :
      (contract.state = "RELEASED" /\ e <= creditCount)
        ~> credit[e].status \in {"DELIVERED", "SUPPRESSED", "CANCELLED"}
=============================================================================
