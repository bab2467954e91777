----------------------- MODULE ContractImport_proofs -----------------------
(***************************************************************************)
(* Proofs about ContractImport for every value of its constants.           *)
(***************************************************************************)
EXTENDS ContractImport, TLAPS

-----------------------------------------------------------------------------
(* The invariant.                                                          *)

ReceiptRows == [exists : {TRUE}, amount : Nat, free : Nat]
AllocationRows == [exists : {TRUE}, amount : Nat, rcv : Receivables, reversed : BOOLEAN]

\* The statements finance has reconciled: each at the approved balances.
Statements == [version : Nat, open : {ApprovedOpen}, receipts : {ApprovedReceipts},
               facts : {Cardinality(T) : T \in SUBSET Facts}]

ExportRows == [exists : {TRUE}, status : {"PENDING", "SUCCEEDED", "FAILED", "EXPIRED"},
               version : Nat, rows : SUBSET Facts]

\* The types of the rows of an import, and that every reconciliation was approved.
ImportTypeOK ==
    /\ contract \in [state : {"NONE", "HOLD", "RELEASED"}, version : Nat,
                     import : {"NONE", "PREPARED", "READY", "RELEASED"}, recon : Nat,
                     decision : Decisions \cup {"NONE"}]
    /\ plan \in [Receivables -> [confirmed : BOOLEAN, open : Nat]]
    /\ fact \in [Facts -> {Absent} \cup ReceiptRows \cup AllocationRows]
    /\ \A f \in ReceiptFacts : fact[f] \in {Absent} \cup ReceiptRows
    /\ \A f \in AllocationFacts : fact[f] \in {Absent} \cup AllocationRows
    /\ recons \in Seq(Statements)
    /\ export \in [Exports -> {Absent} \cup ExportRows]

\* Before PREPARE there is neither a fact nor an export.
NothingBefore ==
    contract.state = "NONE" => Restored = {} /\ \A x \in Exports : ~ export[x].exists

\* An export is of a version that was, and of the facts of now if it is of the
\* current version.
ExportsSound ==
    \A x \in Exports :
      export[x].exists /\ export[x].status = "SUCCEEDED" =>
        /\ export[x].version <= contract.version
        /\ export[x].version = contract.version => export[x].rows = Restored

\* A publisher that has called the CRM still has the row in its batch; a retry
\* is about one row; row ids are given out in order.
QueueSound ==
    /\ \A p \in Publishers :
         /\ job[p].pc \in {"ok", "failed"} => job[p].ev \in job[p].batch
         /\ job[p].pc = "retry" => \E e \in CreditIds : job[p].batch = {e}
    /\ \A e \in CreditIds : e > creditCount => credit[e] = NoRow

Live == {"PENDING", "RETRY_WAIT", "PROCESSING"}

Sends(p, e) == job[p].pc \in {"claimed", "ok", "failed"} /\ e \in job[p].batch

\* No publisher has the row, has sent it or could claim it.
Kept(e) ==
    /\ e \notin crm /\ credit[e].status \notin Live
    /\ \A p \in Publishers : ~ Sends(p, e)

\* Up to the release every row is kept back on HOLD.
HeldBack ==
    contract.state # "RELEASED" =>
      \A e \in CreditIds : Kept(e) /\ (e <= creditCount => credit[e].status = "HOLD")

\* After a release that suppresses them, the settlement events are kept back.
SuppressedBack ==
    contract.state = "RELEASED" /\ contract.decision = "SUPPRESSED" =>
      \A e \in CreditIds : credit[e].type = "completed" => Kept(e)

\* The inductive invariant.
ImportInv ==
    /\ ImportTypeOK /\ CreditTypeOK /\ QueueSound /\ NothingBefore /\ ExportsSound
    /\ HeldBack /\ SuppressedBack

-----------------------------------------------------------------------------
(* The queue.  A publisher's step leaves a row that is kept back alone.    *)

\* Setting the status of one row.
LEMMA StatusTyped ==
    ASSUME CreditTypeOK, NEW e \in CreditIds, NEW s \in CreditStatuses
    PROVE  /\ [credit[e] EXCEPT !.status = s] \in CreditRows
           /\ [credit[e] EXCEPT !.status = s].type = credit[e].type
           /\ [credit[e] EXCEPT !.status = s].status = s
BY DEF CreditTypeOK, CreditRows

\* The jobs a publisher goes on with.
LEMMA JobsTyped ==
    /\ Idle \in Jobs /\ Idle.pc = "idle" /\ Idle.batch = {}
    /\ \A e \in CreditIds : [pc |-> "retry", ev |-> 0, batch |-> {e}] \in Jobs
    /\ \A B \in SUBSET CreditIds : [pc |-> "claimed", ev |-> 0, batch |-> B] \in Jobs
    /\ \A e \in CreditIds, B \in SUBSET CreditIds, pc \in {"ok", "failed"} :
         [pc |-> pc, ev |-> e, batch |-> B] \in Jobs
<1>1. 0 \in 0 .. MaxCreditEvents /\ \A e \in CreditIds : e \in 0 .. MaxCreditEvents
  BY CreditAssumption DEF CreditIds
<1>2. Idle \in Jobs /\ Idle.pc = "idle" /\ Idle.batch = {}
  BY <1>1 DEF Idle, Jobs
<1>3. \A e \in CreditIds : [pc |-> "retry", ev |-> 0, batch |-> {e}] \in Jobs
  BY <1>1 DEF Jobs
<1>4. \A B \in SUBSET CreditIds : [pc |-> "claimed", ev |-> 0, batch |-> B] \in Jobs
  BY <1>1 DEF Jobs
<1>5. \A e \in CreditIds, B \in SUBSET CreditIds, pc \in {"ok", "failed"} :
        [pc |-> pc, ev |-> e, batch |-> B] \in Jobs
  BY <1>1 DEF Jobs
<1> QED
  BY <1>2, <1>3, <1>4, <1>5

\* What every publisher's step does to the rows: those of S, live ones, take a
\* new status; publisher p goes on with job j, which sends only rows it sent or
\* rows of S; the CRM receives only rows that p sent.
Works(p, j, S) ==
    /\ S \subseteq {e \in CreditIds : credit[e].status \in Live}
    /\ credit' \in [CreditIds -> CreditRows]
    /\ \A e \in CreditIds : /\ credit'[e].type = credit[e].type
                            /\ e \notin S => credit'[e] = credit[e]
    /\ j \in Jobs /\ job' = [job EXCEPT ![p] = j]
    /\ j.pc \in {"ok", "failed"} => j.ev \in j.batch
    /\ j.pc = "retry" => \E e \in CreditIds : j.batch = {e}
    /\ j.pc \in {"claimed", "ok", "failed"} =>
         \A e \in j.batch : e \in S \/ Sends(p, e)
    /\ crm \subseteq crm' /\ \A e \in crm' : e \in crm \/ (e \in CreditIds /\ Sends(p, e))
    /\ leaseOver' \in SUBSET CreditIds /\ disruptions' \in 0 .. MaxDisruptions
    /\ creditCount' = creditCount

LEMMA WorksKept ==
    ASSUME CreditTypeOK, QueueSound, NEW p \in Publishers, NEW j, NEW S, Works(p, j, S)
    PROVE  /\ CreditTypeOK' /\ QueueSound' /\ creditCount' = creditCount
           /\ \A e \in CreditIds : /\ credit'[e].type = credit[e].type
                                   /\ Kept(e) => Kept(e)' /\ credit'[e] = credit[e]
<1> USE DEF Works
<1>1. /\ job'[p] = j /\ \A q \in Publishers \ {p} : job'[q] = job[q]
      /\ job' \in [Publishers -> Jobs]
  BY DEF CreditTypeOK
<1>2. crm' \in SUBSET CreditIds
  BY DEF CreditTypeOK
<1>3. CreditTypeOK'
  BY <1>1, <1>2 DEF CreditTypeOK
<1>4. \A e \in CreditIds : e > creditCount => credit'[e] = NoRow
  <2>1. \A e \in CreditIds : credit[e] = NoRow => e \notin S
    BY DEF Live, NoRow
  <2> QED
    BY <2>1 DEF QueueSound
<1>5. QueueSound'
  BY <1>1, <1>4 DEF QueueSound
<1>6. ASSUME NEW e \in CreditIds, Kept(e) PROVE Kept(e)' /\ credit'[e] = credit[e]
  <2>1. e \notin S /\ e \notin crm /\ ~ Sends(p, e) /\ credit[e].status \notin Live
    BY <1>6 DEF Kept
  <2>2. credit'[e] = credit[e] /\ e \notin crm'
    BY <2>1
  <2>3. ~ Sends(p, e)'
    BY <1>1, <2>1 DEF Sends
  <2>4. ASSUME NEW q \in Publishers \ {p} PROVE ~ Sends(q, e)'
    BY <1>1, <1>6 DEF Kept, Sends
  <2> QED
    BY <2>1, <2>2, <2>3, <2>4 DEF Kept, Live
<1> QED
  BY <1>3, <1>5, <1>6

\* A publisher's step is such work.
LEMMA CreditStepKept ==
    ASSUME CreditTypeOK, QueueSound, CreditNext
    PROVE  /\ CreditTypeOK' /\ QueueSound' /\ creditCount' = creditCount
           /\ \A e \in CreditIds : /\ credit'[e].type = credit[e].type
                                   /\ Kept(e) => Kept(e)' /\ credit'[e] = credit[e]
<1> DEFINE Goal == /\ CreditTypeOK' /\ QueueSound' /\ creditCount' = creditCount
                   /\ \A e \in CreditIds : /\ credit'[e].type = credit[e].type
                                           /\ Kept(e) => Kept(e)' /\ credit'[e] = credit[e]
<1>1. ASSUME NEW p \in Publishers, NEW j, NEW S, Works(p, j, S) PROVE Goal
  BY <1>1, WorksKept
<1>2. ASSUME NEW h \in Handlers, NEW e \in CreditIds, ResendCreditSync(h, e) PROVE Goal
  <2> DEFINE j == [pc |-> "retry", ev |-> 0, batch |-> {e}]
  <2>1. /\ job' = [job EXCEPT ![h] = j] /\ disruptions' = disruptions + 1
        /\ disruptions < MaxDisruptions /\ UNCHANGED <<credit, creditCount, leaseOver, crm>>
    BY <1>2 DEF ResendCreditSync
  <2>2. j \in Jobs /\ j.pc = "retry" /\ j.batch = {e}
    BY JobsTyped
  <2> HIDE DEF j
  <2>3. disruptions' \in 0 .. MaxDisruptions
    BY <2>1, CreditAssumption DEF CreditTypeOK
  <2>4. Works(h, j, {})
    BY <2>1, <2>2, <2>3 DEF Works, CreditTypeOK
  <2> QED
    BY <1>1, <2>4 DEF Publishers
<1>3. ASSUME NEW h \in Handlers, ClaimForRetry(h) PROVE Goal
  <2>1. PICK e \in job[h].batch :
          IF credit[e].status \in {"PENDING", "RETRY_WAIT"}
          THEN /\ credit' = [credit EXCEPT ![e].status = "PROCESSING"]
               /\ job' = [job EXCEPT ![h].pc = "claimed"]
               /\ leaseOver' = leaseOver \ {e}
          ELSE /\ job' = [job EXCEPT ![h] = Idle]
               /\ UNCHANGED <<credit, leaseOver>>
    BY <1>3 DEF ClaimForRetry
  <2>2. /\ h \in Publishers /\ job[h] \in Jobs /\ e \in CreditIds /\ job[h].batch = {e}
        /\ UNCHANGED <<creditCount, crm, disruptions>>
    BY <1>3 DEF ClaimForRetry, CreditTypeOK, Jobs, Publishers, QueueSound
  <2>3. CASE credit[e].status \in {"PENDING", "RETRY_WAIT"}
    <3> DEFINE j == [job[h] EXCEPT !.pc = "claimed"]
               row == [credit[e] EXCEPT !.status = "PROCESSING"]
    <3>1. j \in Jobs /\ j.pc = "claimed" /\ j.batch = {e} /\ job' = [job EXCEPT ![h] = j]
      BY <2>1, <2>2, <2>3 DEF Jobs, CreditTypeOK
    <3>2. row \in CreditRows /\ row.type = credit[e].type
      BY <2>2, StatusTyped DEF CreditStatuses
    <3>3. credit' = [credit EXCEPT ![e] = row] /\ leaseOver' \in SUBSET CreditIds
      BY <2>1, <2>3 DEF CreditTypeOK
    <3> HIDE DEF j, row
    <3>4. Works(h, j, {e})
      BY <2>2, <2>3, <3>1, <3>2, <3>3 DEF Works, CreditTypeOK, Live
    <3> QED
      BY <1>1, <2>2, <3>4
  <2>4. CASE credit[e].status \notin {"PENDING", "RETRY_WAIT"}
    <3>1. Works(h, Idle, {})
      BY <2>1, <2>2, <2>4, JobsTyped DEF Works, CreditTypeOK
    <3> QED
      BY <1>1, <2>2, <3>1
  <2> QED
    BY <2>3, <2>4
<1>4. ASSUME NEW w \in Workers, ClaimBatch(w) PROVE Goal
  <2>1. PICK batch \in SUBSET {e \in CreditIds : Claimable(e)} :
          /\ credit' = [e \in CreditIds |->
                          IF e \in batch THEN [credit[e] EXCEPT !.status = "PROCESSING"]
                                         ELSE credit[e]]
          /\ leaseOver' = leaseOver \ batch
          /\ job' = [job EXCEPT ![w] = [pc |-> "claimed", ev |-> 0, batch |-> batch]]
    BY <1>4 DEF ClaimBatch
  <2>2. /\ batch \subseteq {e \in CreditIds : credit[e].status \in Live}
        /\ UNCHANGED <<creditCount, crm, disruptions>>
    BY <1>4 DEF ClaimBatch, Claimable, Live
  <2> DEFINE j == [pc |-> "claimed", ev |-> 0, batch |-> batch]
  <2>3. j \in Jobs /\ j.pc = "claimed" /\ j.batch = batch
    BY JobsTyped
  <2> HIDE DEF j
  <2>4. \A e \in CreditIds : /\ credit'[e] \in CreditRows /\ credit'[e].type = credit[e].type
                             /\ e \notin batch => credit'[e] = credit[e]
    BY <2>1, StatusTyped DEF CreditTypeOK, CreditStatuses
  <2>5. credit' \in [CreditIds -> CreditRows]
    BY <2>1, <2>4
  <2>6. job' = [job EXCEPT ![w] = j]
    BY <2>1 DEF j
  <2>7. Works(w, j, batch)
    BY <2>1, <2>2, <2>3, <2>4, <2>5, <2>6 DEF Works, CreditTypeOK
  <2> QED
    BY <1>1, <2>7 DEF Publishers
<1>5. ASSUME NEW p \in Publishers, NEW e \in CreditIds, NEW received \in BOOLEAN,
             PublishAccepted(p, e) \/ PublishFailed(p, e, received)
      PROVE  Goal
  <2>1. PICK pc \in {"ok", "failed"} :
          /\ job' = [job EXCEPT ![p] = [pc |-> pc, ev |-> e, batch |-> job[p].batch]]
          /\ crm' \in {crm, crm \cup {e}}
          /\ job[p].pc = "claimed" /\ e \in job[p].batch
          /\ UNCHANGED <<credit, creditCount, leaseOver, disruptions>>
    BY <1>5 DEF PublishAccepted, PublishFailed, CreditTypeOK
  <2> DEFINE j == [pc |-> pc, ev |-> e, batch |-> job[p].batch]
  <2>2. job[p].batch \in SUBSET CreditIds
    BY DEF CreditTypeOK, Jobs
  <2>3. j \in Jobs /\ j.pc \in {"ok", "failed"} /\ j.ev = e /\ j.batch = job[p].batch
    BY <2>2, JobsTyped
  <2> HIDE DEF j
  <2>4. job' = [job EXCEPT ![p] = j]
    BY <2>1 DEF j
  <2>5. Works(p, j, {})
    BY <2>1, <2>3, <2>4 DEF Works, CreditTypeOK, Sends
  <2> QED
    BY <1>1, <2>5
<1>6. ASSUME NEW p \in Publishers, RecordDelivered(p) \/ RecordRetryWait(p) PROVE Goal
  <2>1. PICK s \in {"DELIVERED", "RETRY_WAIT"} :
          /\ RecordOutcome(job[p].ev, s) /\ NextInBatch(p) /\ job[p].pc \in {"ok", "failed"}
          /\ UNCHANGED <<creditCount, leaseOver, crm, disruptions>>
    BY <1>6 DEF RecordDelivered, RecordRetryWait
  <2>2. job[p] \in Jobs /\ job[p].ev \in job[p].batch /\ job[p].batch \in SUBSET CreditIds
    BY <2>1 DEF QueueSound, CreditTypeOK, Jobs
  <2>3. PICK e \in CreditIds, rest \in SUBSET CreditIds :
          e = job[p].ev /\ rest = job[p].batch \ {job[p].ev}
    BY <2>2
  <2> DEFINE j == IF rest = {} THEN Idle ELSE [pc |-> "claimed", ev |-> 0, batch |-> rest]
  <2>4. job' = [job EXCEPT ![p] = j]
    BY <2>1, <2>3 DEF NextInBatch
  <2>5. j \in Jobs /\ j.pc \in {"idle", "claimed"} /\ j.batch = rest
    BY JobsTyped
  <2> HIDE DEF j
  <2>6. \A f \in rest : Sends(p, f)
    BY <2>1, <2>3 DEF Sends
  <2>7. CASE credit[e].status = "PROCESSING"
    <3> DEFINE row == [credit[e] EXCEPT !.status = s]
    <3>1. row \in CreditRows /\ row.type = credit[e].type
      BY StatusTyped DEF CreditStatuses
    <3>2. credit' = [credit EXCEPT ![e] = row]
      BY <2>1, <2>3, <2>7 DEF RecordOutcome
    <3> HIDE DEF row
    <3>3. Works(p, j, {e})
      BY <2>1, <2>4, <2>5, <2>6, <2>7, <3>1, <3>2 DEF Works, CreditTypeOK, Live
    <3> QED
      BY <1>1, <3>3
  <2>8. CASE credit[e].status # "PROCESSING"
    <3>1. credit' = credit
      BY <2>1, <2>3, <2>8 DEF RecordOutcome
    <3>2. Works(p, j, {})
      BY <2>1, <2>4, <2>5, <2>6, <3>1 DEF Works, CreditTypeOK
    <3> QED
      BY <1>1, <3>2
  <2> QED
    BY <2>7, <2>8
<1>7. ASSUME NEW p \in Publishers, Abandon(p) PROVE Goal
  <2>1. /\ job' = [job EXCEPT ![p] = Idle] /\ disruptions' = disruptions + 1
        /\ disruptions < MaxDisruptions /\ UNCHANGED <<credit, creditCount, leaseOver, crm>>
    BY <1>7 DEF Abandon
  <2>2. disruptions' \in 0 .. MaxDisruptions
    BY <2>1, CreditAssumption DEF CreditTypeOK
  <2>3. Works(p, Idle, {})
    BY <2>1, <2>2, JobsTyped DEF Works, CreditTypeOK
  <2> QED
    BY <1>1, <2>3
<1>8. ASSUME NEW e \in CreditIds, LeaseExpires(e) PROVE Goal
  <2>1. leaseOver' = leaseOver \cup {e} /\ UNCHANGED <<credit, creditCount, job, crm, disruptions>>
    BY <1>8 DEF LeaseExpires
  <2>2. CreditTypeOK' /\ QueueSound'
    BY <2>1 DEF CreditTypeOK, QueueSound
  <2> QED
    BY <2>1, <2>2 DEF Kept, Sends
<1> QED
  BY <1>2, <1>3, <1>4, <1>5, <1>6, <1>7, <1>8 DEF CreditNext
-----------------------------------------------------------------------------
(* The import's own rows.                                                  *)

\* What the queue's part of the invariant needs to know of a step that leaves
\* the queue alone and does not release the contract.
LEMMA QueueAlone ==
    ASSUME ImportInv, UNCHANGED creditVars, contract'.state # "RELEASED" \/ UNCHANGED contract,
           contract.state = "RELEASED" => UNCHANGED contract
    PROVE  CreditTypeOK' /\ QueueSound' /\ HeldBack' /\ SuppressedBack'
<1>1. UNCHANGED <<credit, creditCount, leaseOver, job, crm, disruptions>>
  BY DEF creditVars
<1>2. CreditTypeOK' /\ QueueSound'
  BY <1>1 DEF ImportInv, CreditTypeOK, QueueSound
<1>3. \A e \in CreditIds : Kept(e)' <=> Kept(e)
  BY <1>1 DEF Kept, Sends
<1>4. HeldBack'
  BY <1>1, <1>3 DEF ImportInv, HeldBack
<1>5. SuppressedBack'
  BY <1>1, <1>3 DEF ImportInv, SuppressedBack
<1> QED
  BY <1>2, <1>4, <1>5

\* The columns of the rows of an import.
LEMMA ImportTyped ==
    ASSUME ImportTypeOK
    PROVE  /\ contract.version \in Nat
           /\ contract.state \in {"NONE", "HOLD", "RELEASED"}
           /\ \A r \in Receivables : plan[r].confirmed \in BOOLEAN /\ plan[r].open \in Nat
           /\ \A f \in ReceiptFacts : fact[f].exists => fact[f] \in ReceiptRows
           /\ \A f \in AllocationFacts : fact[f].exists => fact[f] \in AllocationRows
           /\ \A x \in Exports : export[x].exists => export[x] \in ExportRows
<1>1. Absent.exists = FALSE
  BY DEF Absent
<1>2. contract.version \in Nat /\ contract.state \in {"NONE", "HOLD", "RELEASED"}
  BY DEF ImportTypeOK
<1>3. \A r \in Receivables : plan[r].confirmed \in BOOLEAN /\ plan[r].open \in Nat
  BY DEF ImportTypeOK
<1> QED
  BY <1>1, <1>2, <1>3 DEF ImportTypeOK

\* A write on HOLD makes every export one of an earlier version.
LEMMA LockedWrite ==
    ASSUME ImportInv, LockImportWrite, UNCHANGED export
    PROVE  /\ contract.state = "HOLD" /\ contract'.state = "HOLD"
           /\ contract' \in [state : {"NONE", "HOLD", "RELEASED"}, version : Nat,
                             import : {"NONE", "PREPARED", "READY", "RELEASED"}, recon : Nat,
                             decision : Decisions \cup {"NONE"}]
           /\ NothingBefore' /\ ExportsSound'
<1>1. /\ contract.state = "HOLD"
      /\ contract' = [contract EXCEPT !.version = contract.version + 1, !.import = "PREPARED",
                                      !.recon = 0]
  BY DEF LockImportWrite, OnHold
<1>2. contract.version \in Nat /\ contract.version + 1 \in Nat
  BY ImportTyped DEF ImportInv
<1>3. /\ contract'.state = "HOLD" /\ contract'.version = contract.version + 1
      /\ contract' \in [state : {"NONE", "HOLD", "RELEASED"}, version : Nat,
                        import : {"NONE", "PREPARED", "READY", "RELEASED"}, recon : Nat,
                        decision : Decisions \cup {"NONE"}]
  BY <1>1, <1>2 DEF ImportInv, ImportTypeOK
<1>4. NothingBefore'
  BY <1>3 DEF NothingBefore
<1>5. ASSUME NEW x \in Exports, export[x].exists, export[x].status = "SUCCEEDED"
      PROVE  export[x].version <= contract.version + 1 /\ export[x].version # contract.version + 1
  <2>1. export[x].version \in Nat
    BY <1>5, ImportTyped DEF ImportInv, ExportRows
  <2>2. export[x].version <= contract.version
    BY <1>5 DEF ImportInv, ExportsSound
  <2> QED
    BY <1>2, <2>1, <2>2
<1>6. ExportsSound'
  BY <1>3, <1>5 DEF ExportsSound
<1> QED
  BY <1>1, <1>3, <1>4, <1>6

\* A step that neither writes facts nor contract keeps the exports' part.
LEMMA PrepareKept ==
    ASSUME ImportInv, PrepareContractImport
    PROVE  ImportInv'
<1>1. /\ contract.state = "NONE"
      /\ contract' = [NoContract EXCEPT !.state = "HOLD", !.version = 1, !.import = "PREPARED"]
      /\ UNCHANGED <<plan, fact, recons, owner, export, creditVars>>
  BY DEF PrepareContractImport
<1>2. /\ contract'.state = "HOLD"
      /\ contract' \in [state : {"NONE", "HOLD", "RELEASED"}, version : Nat,
                        import : {"NONE", "PREPARED", "READY", "RELEASED"}, recon : Nat,
                        decision : Decisions \cup {"NONE"}]
  BY <1>1 DEF NoContract
<1>3. ImportTypeOK'
  BY <1>1, <1>2 DEF ImportInv, ImportTypeOK
<1>4. NothingBefore' /\ ExportsSound'
  BY <1>1, <1>2 DEF ImportInv, NothingBefore, ExportsSound
<1>5. CreditTypeOK' /\ QueueSound' /\ HeldBack' /\ SuppressedBack'
  BY <1>1, <1>2, QueueAlone
<1> QED
  BY <1>3, <1>4, <1>5 DEF ImportInv

LEMMA ConfirmPlanKept ==
    ASSUME ImportInv, NEW r \in Receivables, ConfirmPlan(r)
    PROVE  ImportInv'
<1>1. /\ LockImportWrite
      /\ plan' = [plan EXCEPT ![r] = [confirmed |-> TRUE, open |-> Planned[r]]]
      /\ UNCHANGED <<fact, recons, owner, export, creditVars>>
  BY DEF ConfirmPlan
<1>2. Planned[r] \in Nat
  BY ImportAssumption
<1>3. ImportTypeOK'
  BY <1>1, <1>2, LockedWrite DEF ImportInv, ImportTypeOK
<1>4. CreditTypeOK' /\ QueueSound' /\ HeldBack' /\ SuppressedBack'
  BY <1>1, LockedWrite, QueueAlone
<1> QED
  BY <1>1, <1>3, <1>4, LockedWrite DEF ImportInv

LEMMA CreateReceiptKept ==
    ASSUME ImportInv, NEW f \in ReceiptFacts, NEW x \in Amounts, CreateReceipt(f, x)
    PROVE  ImportInv'
<1> DEFINE row == [exists |-> TRUE, amount |-> x, free |-> x]
<1>1. /\ LockImportWrite
      /\ fact' = [fact EXCEPT ![f] = row]
      /\ UNCHANGED <<plan, recons, owner, export, creditVars>>
  BY DEF CreateReceipt, ClaimImportFact
<1>2. row \in ReceiptRows
  BY ImportAssumption DEF ReceiptRows
<1> HIDE DEF row
<1>3. f \in Facts /\ f \notin AllocationFacts /\ ReceiptFacts \subseteq Facts /\ AllocationFacts \subseteq Facts
  BY ImportAssumption DEF Facts
<1>4. ImportTypeOK'
  BY <1>1, <1>2, <1>3, LockedWrite DEF ImportInv, ImportTypeOK
<1>5. CreditTypeOK' /\ QueueSound' /\ HeldBack' /\ SuppressedBack'
  BY <1>1, LockedWrite, QueueAlone
<1> QED
  BY <1>1, <1>4, <1>5, LockedWrite DEF ImportInv

\* A fact restored by an allocation, with the queue's part of the step: a row on
\* HOLD when the receivable is settled.
LEMMA ConfirmAllocationKept ==
    ASSUME ImportInv, NEW h \in Handlers, NEW f \in AllocationFacts, NEW c \in ReceiptFacts,
           NEW r \in Receivables, NEW x \in Amounts, ConfirmAllocation(h, f, c, r, x)
    PROVE  ImportInv'
<1> DEFINE row == [exists |-> TRUE, amount |-> x, rcv |-> r, reversed |-> FALSE]
           receipt == [fact[c] EXCEPT !.free = @ - x]
<1>1. /\ LockImportWrite /\ fact[c].exists
      /\ x <= fact[c].free /\ x <= plan[r].open
      /\ fact' = [fact EXCEPT ![f] = row, ![c].free = @ - x]
      /\ plan' = [plan EXCEPT ![r].open = @ - x]
      /\ IF plan[r].open = x THEN InsertHeldCredit(r) ELSE UNCHANGED <<credit, creditCount>>
      /\ PublishAfterCommit(h)
      /\ UNCHANGED <<recons, owner, export, leaseOver, crm, disruptions>>
  BY DEF ConfirmAllocation, ClaimImportFact
<1>2. /\ f \in Facts /\ c \in Facts /\ f # c /\ f \notin ReceiptFacts /\ c \notin AllocationFacts
      /\ ReceiptFacts \subseteq Facts /\ AllocationFacts \subseteq Facts /\ x \in Nat
  BY ImportAssumption DEF Facts
<1>3. fact[c] \in ReceiptRows /\ fact[c].free \in Nat /\ plan[r].open \in Nat
  BY <1>1, ImportTyped DEF ImportInv, ReceiptRows
<1>4. fact[c].free - x \in Nat /\ plan[r].open - x \in Nat
  BY <1>1, <1>2, <1>3
<1>5. row \in AllocationRows /\ receipt \in ReceiptRows
  BY <1>2, <1>3, <1>4 DEF AllocationRows, ReceiptRows
<1>6. /\ fact'[f] = row /\ fact'[c] = receipt
      /\ \A g \in Facts \ {f, c} : fact'[g] = fact[g]
      /\ DOMAIN fact' = Facts /\ fact' = [g \in Facts |-> fact'[g]]
  BY <1>1, <1>2 DEF ImportInv, ImportTypeOK
<1> HIDE DEF row, receipt
<1>7. /\ fact' \in [Facts -> {Absent} \cup ReceiptRows \cup AllocationRows]
      /\ \A g \in ReceiptFacts : fact'[g] \in {Absent} \cup ReceiptRows
      /\ \A g \in AllocationFacts : fact'[g] \in {Absent} \cup AllocationRows
  BY <1>2, <1>5, <1>6 DEF ImportInv, ImportTypeOK
<1>8. plan' \in [Receivables -> [confirmed : BOOLEAN, open : Nat]]
  BY <1>1, <1>4 DEF ImportInv, ImportTypeOK
<1>9. ImportTypeOK'
  BY <1>1, <1>7, <1>8, LockedWrite DEF ImportInv, ImportTypeOK
<1>10. /\ \A e \in CreditIds : Kept(e) /\ (e <= creditCount => credit[e].status = "HOLD")
       /\ contract'.state = "HOLD"
  BY <1>1, LockedWrite DEF ImportInv, HeldBack
<1>11. ASSUME NEW j \in Jobs, job' = [job EXCEPT ![h] = j], j.pc \in {"idle", "retry"},
              j.pc = "retry" => \E e \in CreditIds : j.batch = {e},
              credit' \in [CreditIds -> CreditRows], creditCount' \in 0 .. MaxCreditEvents,
              \A e \in CreditIds : /\ credit'[e].status \in {credit[e].status, "HOLD"}
                                   /\ e <= creditCount' => credit'[e].status = "HOLD"
                                   /\ e > creditCount' => credit'[e] = NoRow
       PROVE  CreditTypeOK' /\ QueueSound' /\ HeldBack' /\ SuppressedBack'
  <2>1. /\ job'[h] = j /\ \A p \in Publishers \ {h} : job'[p] = job[p]
        /\ job' \in [Publishers -> Jobs]
    BY <1>11 DEF ImportInv, CreditTypeOK, Publishers
  <2>2. CreditTypeOK'
    BY <1>1, <1>11, <2>1 DEF ImportInv, CreditTypeOK
  <2>3. QueueSound'
    BY <1>11, <2>1 DEF ImportInv, QueueSound
  <2>4. \A e \in CreditIds : Kept(e)'
    BY <1>1, <1>10, <1>11, <2>1 DEF Kept, Sends, Live
  <2> QED
    BY <1>10, <1>11, <2>2, <2>3, <2>4 DEF HeldBack, SuppressedBack
<1>12. CreditTypeOK' /\ QueueSound' /\ HeldBack' /\ SuppressedBack'
  <2>1. creditCount \in Nat /\ creditCount \in 0 .. MaxCreditEvents /\ MaxCreditEvents \in Nat
    BY CreditAssumption DEF ImportInv, CreditTypeOK
  <2>2. CASE plan[r].open = x
    <3> DEFINE n == creditCount + 1
               new == [type |-> "completed", rcv |-> r, original |-> 0, status |-> "HOLD"]
               j == [pc |-> "retry", ev |-> 0, batch |-> {n}]
    <3>1. /\ creditCount < MaxCreditEvents /\ creditCount' = n
          /\ credit' = [credit EXCEPT ![n] = new]
      BY <1>1, <2>2 DEF InsertHeldCredit
    <3>2. n \in CreditIds /\ n \in 0 .. MaxCreditEvents /\ n > creditCount
      BY <2>1, <3>1 DEF CreditIds
    <3>3. new \in CreditRows /\ new.status = "HOLD"
      BY <2>1 DEF CreditRows, CreditStatuses
    <3>4. j \in Jobs /\ j.pc = "retry" /\ j.batch = {n}
      BY <3>2, JobsTyped
    <3>5. job' = [job EXCEPT ![h] = j]
      BY <1>1, <3>1, <3>2 DEF PublishAfterCommit
    <3> HIDE DEF new, j
    <3>6. credit' \in [CreditIds -> CreditRows]
      BY <3>1, <3>3 DEF ImportInv, CreditTypeOK
    <3>7. credit'[n] = new /\ \A e \in CreditIds \ {n} : credit'[e] = credit[e]
      BY <3>1, <3>2 DEF ImportInv, CreditTypeOK
    <3>8. ASSUME NEW e \in CreditIds
          PROVE  /\ credit'[e].status \in {credit[e].status, "HOLD"}
                 /\ e <= creditCount' => credit'[e].status = "HOLD"
                 /\ e > creditCount' => credit'[e] = NoRow
      <4>1. e \in Nat /\ (e # n /\ e <= n => e <= creditCount) /\ (e > n => e > creditCount /\ e # n)
        BY <2>1 DEF CreditIds
      <4> QED
        BY <1>10, <3>1, <3>3, <3>7, <4>1 DEF ImportInv, QueueSound
    <3> HIDE DEF n
    <3>9. creditCount' \in 0 .. MaxCreditEvents
      BY <3>1, <3>2
    <3> QED
      BY <1>11, <3>2, <3>4, <3>5, <3>6, <3>8, <3>9
  <2>3. CASE plan[r].open # x
    <3>1. UNCHANGED <<credit, creditCount>> /\ job' = [job EXCEPT ![h] = Idle]
      <4>1. credit' = credit /\ creditCount' = creditCount
        BY <1>1, <2>3
      <4>2. ~ (creditCount' > creditCount)
        BY <2>1, <4>1
      <4> QED
        BY <1>1, <4>1, <4>2 DEF PublishAfterCommit
    <3>2. \A e \in CreditIds : e > creditCount => credit[e] = NoRow
      BY DEF ImportInv, QueueSound
    <3> QED
      BY <1>10, <1>11, <2>1, <3>1, <3>2, JobsTyped DEF ImportInv, CreditTypeOK
  <2> QED
    BY <2>2, <2>3
<1> QED
  BY <1>1, <1>9, <1>12, LockedWrite DEF ImportInv
-----------------------------------------------------------------------------
(* Reconciliation, release and what comes after.                           *)

\* A reconciliation appends a statement at the approved balances.
LEMMA ReconcileKept ==
    ASSUME ImportInv, NEW d \in Decisions, ReconcileContractImport(d)
    PROVE  ImportInv'
<1>1. /\ contract.state = "HOLD" /\ OpenAmount = ApprovedOpen /\ ReceiptAmount = ApprovedReceipts
      /\ recons' = Append(recons, Balances)
      /\ contract' = [contract EXCEPT !.import = "READY", !.recon = Len(recons'), !.decision = d]
      /\ UNCHANGED <<plan, fact, owner, export, creditVars>>
  BY DEF ReconcileContractImport, BalancesComplete, OnHold, Approved
<1>2. Balances \in Statements
  <2>1. Restored \in SUBSET Facts
    BY DEF Restored
  <2>2. contract.version \in Nat
    BY ImportTyped DEF ImportInv
  <2>3. Cardinality(Restored) \in {Cardinality(T) : T \in SUBSET Facts}
    BY <2>1
  <2>4. /\ Balances = [version |-> contract.version, open |-> ApprovedOpen,
                       receipts |-> ApprovedReceipts, facts |-> Cardinality(Restored)]
    BY <1>1 DEF Balances
  <2> QED
    BY <2>2, <2>3, <2>4 DEF Statements
<1>3. recons' \in Seq(Statements) /\ Len(recons') \in Nat
  BY <1>1, <1>2 DEF ImportInv, ImportTypeOK
<1>4. /\ contract'.state = "HOLD" /\ contract'.version = contract.version
      /\ contract' \in [state : {"NONE", "HOLD", "RELEASED"}, version : Nat,
                        import : {"NONE", "PREPARED", "READY", "RELEASED"}, recon : Nat,
                        decision : Decisions \cup {"NONE"}]
  BY <1>1, <1>3 DEF ImportInv, ImportTypeOK
<1>5. ImportTypeOK'
  BY <1>1, <1>3, <1>4 DEF ImportInv, ImportTypeOK
<1>6. NothingBefore' /\ ExportsSound'
  BY <1>1, <1>4 DEF ImportInv, NothingBefore, ExportsSound, Restored
<1>7. CreditTypeOK' /\ QueueSound' /\ HeldBack' /\ SuppressedBack'
  BY <1>1, <1>4, QueueAlone
<1> QED
  BY <1>5, <1>6, <1>7 DEF ImportInv

\* A release decides about the rows on HOLD.
LEMMA ReleaseKept ==
    ASSUME ImportInv, NEW id, NEW v, NEW o, ReleaseContractImport(id, v, o)
    PROVE  ImportInv'
<1>1. /\ contract.state = "HOLD"
      /\ contract' = [contract EXCEPT !.state = "RELEASED", !.import = "RELEASED"]
      /\ credit' = [e \in CreditIds |->
                      [credit[e] EXCEPT !.status = ReleasedStatus(credit[e].status)]]
      /\ UNCHANGED <<plan, fact, recons, owner, export, creditCount, leaseOver, job, crm,
                     disruptions>>
  BY DEF ReleaseContractImport, BalancesComplete, OnHold
<1>2. /\ contract'.state = "RELEASED" /\ contract'.version = contract.version
      /\ contract'.decision = contract.decision
      /\ contract' \in [state : {"NONE", "HOLD", "RELEASED"}, version : Nat,
                        import : {"NONE", "PREPARED", "READY", "RELEASED"}, recon : Nat,
                        decision : Decisions \cup {"NONE"}]
  BY <1>1 DEF ImportInv, ImportTypeOK
<1>3. ImportTypeOK'
  BY <1>1, <1>2 DEF ImportInv, ImportTypeOK
<1>4. NothingBefore' /\ ExportsSound'
  BY <1>1, <1>2 DEF ImportInv, NothingBefore, ExportsSound, Restored
<1>5. ASSUME NEW e \in CreditIds
      PROVE  /\ credit'[e] \in CreditRows /\ credit'[e].type = credit[e].type
             /\ credit'[e].status = ReleasedStatus(credit[e].status)
             /\ credit[e] = NoRow => credit'[e] = NoRow
  <2>1. credit[e] \in CreditRows /\ credit[e].status \in CreditStatuses
    BY DEF ImportInv, CreditTypeOK, CreditRows
  <2>2. ReleasedStatus(credit[e].status) \in CreditStatuses
    BY <2>1 DEF ReleasedStatus, CreditStatuses
  <2>3. credit'[e] = [credit[e] EXCEPT !.status = ReleasedStatus(credit[e].status)]
    BY <1>1
  <2>4. credit[e] = NoRow => ReleasedStatus(credit[e].status) = credit[e].status
    BY DEF ReleasedStatus, NoRow
  <2>5. credit[e] = NoRow => credit'[e] = NoRow
    BY <2>3, <2>4 DEF NoRow
  <2> QED
    BY <2>2, <2>3, <2>5, StatusTyped DEF ImportInv
<1>6. credit' \in [CreditIds -> CreditRows]
  BY <1>1, <1>5
<1>7. CreditTypeOK' /\ QueueSound'
  BY <1>1, <1>5, <1>6 DEF ImportInv, CreditTypeOK, QueueSound
<1>8. HeldBack'
  BY <1>2 DEF HeldBack
<1>9. SuppressedBack'
  <2>1. ASSUME NEW e \in CreditIds, contract.decision = "SUPPRESSED" PROVE Kept(e)'
    <3>1. Kept(e)
      BY <1>1 DEF ImportInv, HeldBack
    <3>2. credit'[e].status \notin Live
      BY <1>5, <2>1, <3>1 DEF ReleasedStatus, Kept, Live
    <3> QED
      BY <1>1, <3>1, <3>2 DEF Kept, Sends, Live
  <2> QED
    BY <1>2, <2>1 DEF SuppressedBack
<1> QED
  BY <1>3, <1>4, <1>7, <1>8, <1>9 DEF ImportInv

\* What a reversal does to the queue: a waiting row is cancelled, or a reversed
\* row is added; the request then publishes what it wrote.
LEMMA ReversalQueue ==
    ASSUME CreditTypeOK, QueueSound, NEW h \in Handlers, NEW r \in Receivables,
           EnqueueCreditReversal(r) \/ UNCHANGED <<credit, creditCount>>, PublishAfterCommit(h),
           UNCHANGED <<leaseOver, crm, disruptions>>
    PROVE  /\ CreditTypeOK' /\ QueueSound'
           /\ \A e \in CreditIds : credit'[e].type = "completed" /\ Kept(e) => Kept(e)'
           /\ \A e \in CreditIds : credit'[e].type = "completed" => credit[e].type = "completed"
<1> DEFINE Goal == /\ CreditTypeOK' /\ QueueSound'
                   /\ \A e \in CreditIds : credit'[e].type = "completed" /\ Kept(e) => Kept(e)'
                   /\ \A e \in CreditIds : credit'[e].type = "completed" => credit[e].type = "completed"
<1>1. /\ creditCount \in Nat /\ creditCount \in 0 .. MaxCreditEvents /\ MaxCreditEvents \in Nat
      /\ h \in Publishers
  BY CreditAssumption DEF CreditTypeOK, Publishers
<1>2. ASSUME NEW j \in Jobs, job' = [job EXCEPT ![h] = j], j.pc \in {"idle", "retry"},
             j.pc = "retry" => \E e \in CreditIds : j.batch = {e},
             credit' \in [CreditIds -> CreditRows], creditCount' \in 0 .. MaxCreditEvents,
             \A e \in CreditIds : /\ credit'[e].type = "completed" =>
                                       /\ credit[e].type = "completed"
                                       /\ credit[e].status \notin Live => credit'[e] = credit[e]
                                  /\ e > creditCount' => credit'[e] = NoRow
      PROVE  Goal
  <2>1. /\ job'[h] = j /\ \A p \in Publishers \ {h} : job'[p] = job[p]
        /\ job' \in [Publishers -> Jobs]
    BY <1>1, <1>2 DEF CreditTypeOK
  <2>2. CreditTypeOK'
    BY <1>2, <2>1 DEF CreditTypeOK
  <2>3. QueueSound'
    BY <1>2, <2>1 DEF QueueSound
  <2>4. ASSUME NEW e \in CreditIds, credit'[e].type = "completed", Kept(e) PROVE Kept(e)'
    <3>1. credit'[e] = credit[e]
      BY <1>2, <2>4 DEF Kept
    <3>2. \A p \in Publishers : ~ Sends(p, e)'
      BY <1>2, <2>1, <2>4 DEF Kept, Sends
    <3> QED
      BY <2>4, <3>1, <3>2 DEF Kept, Live
  <2> QED
    BY <1>2, <2>2, <2>3, <2>4
<1>3. ASSUME creditCount' = creditCount PROVE job' = [job EXCEPT ![h] = Idle]
  <2>1. ~ (creditCount' > creditCount)
    BY <1>1, <1>3
  <2> QED
    BY <2>1 DEF PublishAfterCommit
<1>4. CASE UNCHANGED <<credit, creditCount>>
  <2>1. \A e \in CreditIds : e > creditCount => credit[e] = NoRow
    BY DEF QueueSound
  <2> QED
    BY <1>1, <1>2, <1>3, <1>4, <2>1, JobsTyped DEF CreditTypeOK
<1>5. ASSUME NEW e \in CreditIds, credit[e].status \in {"PENDING", "RETRY_WAIT"},
             credit' = [credit EXCEPT ![e].status = "CANCELLED"], creditCount' = creditCount
      PROVE  Goal
  <2> DEFINE row == [credit[e] EXCEPT !.status = "CANCELLED"]
  <2>1. row \in CreditRows /\ row.type = credit[e].type
    BY StatusTyped DEF CreditStatuses
  <2>2. credit' = [credit EXCEPT ![e] = row]
    BY <1>5
  <2> HIDE DEF row
  <2>3. /\ credit'[e] = row /\ \A f \in CreditIds \ {e} : credit'[f] = credit[f]
        /\ credit' \in [CreditIds -> CreditRows]
    BY <2>1, <2>2 DEF CreditTypeOK
  <2>4. credit[e] # NoRow /\ credit[e].status \in Live
    BY <1>5 DEF NoRow, Live
  <2>5. \A f \in CreditIds : f > creditCount' => credit'[f] = NoRow
    BY <1>5, <2>3, <2>4 DEF QueueSound
  <2>6. creditCount' \in 0 .. MaxCreditEvents
    BY <1>1, <1>5
  <2>7. \A f \in CreditIds : credit'[f].type = "completed" =>
                               /\ credit[f].type = "completed"
                               /\ credit[f].status \notin Live => credit'[f] = credit[f]
    BY <2>1, <2>3, <2>4
  <2> QED
    BY <1>2, <1>3, <1>5, <2>3, <2>5, <2>6, <2>7, JobsTyped
<1>6. ASSUME NEW e \in CreditIds, InsertCreditSync("reversed", r, e) PROVE Goal
  <2> DEFINE n == creditCount + 1
             new == [type |-> "reversed", rcv |-> r, original |-> e, status |-> "PENDING"]
             j == [pc |-> "retry", ev |-> 0, batch |-> {n}]
  <2>1. /\ creditCount < MaxCreditEvents /\ creditCount' = n
        /\ credit' = [credit EXCEPT ![n] = new]
    BY <1>6 DEF InsertCreditSync
  <2>2. n \in CreditIds /\ n \in 0 .. MaxCreditEvents /\ n > creditCount
    BY <1>1, <2>1 DEF CreditIds
  <2>3. e \in 0 .. MaxCreditEvents
    BY <1>1 DEF CreditIds
  <2>4. new \in CreditRows /\ new.type = "reversed"
    BY <2>3 DEF CreditRows, CreditStatuses
  <2>5. j \in Jobs /\ j.pc = "retry" /\ j.batch = {n}
    BY <2>2, JobsTyped
  <2>6. job' = [job EXCEPT ![h] = j]
    BY <2>1, <2>2 DEF PublishAfterCommit
  <2> HIDE DEF new, j
  <2>7. /\ credit'[n] = new /\ \A f \in CreditIds \ {n} : credit'[f] = credit[f]
        /\ credit' \in [CreditIds -> CreditRows]
    BY <2>1, <2>2, <2>4 DEF CreditTypeOK
  <2>8. ASSUME NEW f \in CreditIds, f > creditCount' PROVE credit'[f] = NoRow
    <3>1. f > creditCount /\ f # n
      BY <1>1, <2>1, <2>8 DEF CreditIds
    <3> QED
      BY <2>7, <3>1 DEF QueueSound
  <2> HIDE DEF n
  <2>9. \A f \in CreditIds : credit'[f].type = "completed" =>
                               /\ credit[f].type = "completed"
                               /\ credit[f].status \notin Live => credit'[f] = credit[f]
    BY <2>4, <2>7
  <2> QED
    BY <1>2, <2>1, <2>2, <2>5, <2>6, <2>7, <2>8, <2>9
<1>7. CASE EnqueueCreditReversal(r)
  <2>1. CASE LiveCompleted(r) = {}
    BY <1>4, <1>7, <2>1 DEF EnqueueCreditReversal
  <2>2. CASE LiveCompleted(r) # {}
    <3>1. PICK e \in LiveCompleted(r) :
            IF credit[e].status \in {"PENDING", "RETRY_WAIT"}
            THEN /\ credit' = [credit EXCEPT ![e].status = "CANCELLED"]
                 /\ UNCHANGED creditCount
            ELSE InsertCreditSync("reversed", r, e)
      BY <1>7, <2>2 DEF EnqueueCreditReversal
    <3>2. e \in CreditIds
      BY DEF LiveCompleted
    <3> QED
      BY <1>5, <1>6, <3>1, <3>2
  <2> QED
    BY <2>1, <2>2
<1> QED
  BY <1>4, <1>7

LEMMA ReverseKept ==
    ASSUME ImportInv, NEW h \in Handlers, NEW f \in AllocationFacts, ReverseAllocation(h, f)
    PROVE  ImportInv'
<1>1. /\ contract.state # "HOLD" /\ fact[f].exists
      /\ fact' = [fact EXCEPT ![f].reversed = TRUE]
      /\ plan' = [plan EXCEPT ![fact[f].rcv].open = @ + fact[f].amount]
      /\ EnqueueCreditReversal(fact[f].rcv) \/ UNCHANGED <<credit, creditCount>>
      /\ PublishAfterCommit(h)
      /\ UNCHANGED <<contract, recons, owner, export, leaseOver, crm, disruptions>>
  BY DEF ReverseAllocation, OnHold
<1>2. /\ f \in Facts /\ f \notin ReceiptFacts
      /\ ReceiptFacts \subseteq Facts /\ AllocationFacts \subseteq Facts
  BY ImportAssumption DEF Facts
<1>3. fact[f] \in AllocationRows
  BY <1>1, ImportTyped DEF ImportInv
<1>4. fact[f].rcv \in Receivables /\ fact[f].amount \in Nat
  BY <1>3 DEF AllocationRows
<1> DEFINE row == [fact[f] EXCEPT !.reversed = TRUE]
<1>5. row \in AllocationRows /\ row.exists = fact[f].exists
  BY <1>3 DEF AllocationRows
<1>6. fact' = [fact EXCEPT ![f] = row]
  BY <1>1
<1> HIDE DEF row
<1>7. /\ fact' \in [Facts -> {Absent} \cup ReceiptRows \cup AllocationRows]
      /\ \A g \in ReceiptFacts : fact'[g] \in {Absent} \cup ReceiptRows
      /\ \A g \in AllocationFacts : fact'[g] \in {Absent} \cup AllocationRows
      /\ \A g \in Facts : fact'[g].exists = fact[g].exists
  <2>1. fact'[f] = row /\ \A g \in Facts \ {f} : fact'[g] = fact[g]
    BY <1>2, <1>6 DEF ImportInv, ImportTypeOK
  <2>2. fact' \in [Facts -> {Absent} \cup ReceiptRows \cup AllocationRows]
    BY <1>2, <1>5, <1>6 DEF ImportInv, ImportTypeOK
  <2> QED
    BY <1>2, <1>5, <2>1, <2>2 DEF ImportInv, ImportTypeOK
<1>8. plan' \in [Receivables -> [confirmed : BOOLEAN, open : Nat]]
  <2>1. plan[fact[f].rcv].open \in Nat /\ plan[fact[f].rcv].open + fact[f].amount \in Nat
    BY <1>4, ImportTyped DEF ImportInv
  <2> QED
    BY <1>1, <1>4, <2>1 DEF ImportInv, ImportTypeOK
<1>9. ImportTypeOK'
  BY <1>1, <1>7, <1>8 DEF ImportInv, ImportTypeOK
<1>10. Restored' = Restored
  BY <1>7 DEF Restored
<1>11. NothingBefore' /\ ExportsSound'
  BY <1>1, <1>10 DEF ImportInv, NothingBefore, ExportsSound
<1>12. contract.state = "RELEASED"
  <2>1. f \in Restored
    BY <1>1, <1>2 DEF Restored
  <2> QED
    BY <1>1, <2>1, ImportTyped DEF ImportInv, NothingBefore
<1>13. /\ CreditTypeOK' /\ QueueSound'
       /\ \A e \in CreditIds : credit'[e].type = "completed" /\ Kept(e) => Kept(e)'
       /\ \A e \in CreditIds : credit'[e].type = "completed" => credit[e].type = "completed"
  BY <1>1, <1>4, ReversalQueue DEF ImportInv
<1>14. HeldBack' /\ SuppressedBack'
  BY <1>1, <1>12, <1>13 DEF ImportInv, HeldBack, SuppressedBack
<1> QED
  BY <1>9, <1>11, <1>13, <1>14 DEF ImportInv

\* Exports.  A built export is of the current version and of the facts of now.
LEMMA ExportKept ==
    ASSUME ImportInv, ExportNext
    PROVE  ImportInv'
<1> DEFINE done == [exists |-> TRUE, status |-> "SUCCEEDED", version |-> contract.version,
                    rows |-> Restored]
<1>1. PICK x \in Exports : \/ CreateImportExport(x) \/ BuildImportExport(x)
                           \/ FailImportExport(x) \/ PurgeImportExport(x)
  BY DEF ExportNext
<1>2. UNCHANGED <<contract, plan, fact, recons, owner, creditVars>>
  BY <1>1 DEF CreateImportExport, BuildImportExport, FailImportExport, PurgeImportExport
<1>3. ASSUME NEW row \in ExportRows, export' = [export EXCEPT ![x] = row], contract.state # "NONE",
             row.status = "SUCCEEDED" => row = done
      PROVE  ImportInv'
  <2>1. contract.version \in Nat
    BY ImportTyped DEF ImportInv
  <2>2. /\ export'[x] = row /\ \A y \in Exports \ {x} : export'[y] = export[y]
        /\ export' \in [Exports -> {Absent} \cup ExportRows]
    BY <1>3 DEF ImportInv, ImportTypeOK
  <2>3. ImportTypeOK'
    BY <1>2, <2>2 DEF ImportInv, ImportTypeOK
  <2>4. Restored' = Restored
    BY <1>2 DEF Restored
  <2>5. row.status = "SUCCEEDED" => row.version = contract.version /\ row.rows = Restored
    BY <1>3
  <2>6. NothingBefore' /\ ExportsSound'
    BY <1>2, <1>3, <2>1, <2>2, <2>4, <2>5 DEF ImportInv, NothingBefore, ExportsSound
  <2>7. CreditTypeOK' /\ QueueSound' /\ HeldBack' /\ SuppressedBack'
    BY <1>2, QueueAlone
  <2> QED
    BY <2>3, <2>6, <2>7 DEF ImportInv
<1>4. export[x].exists => contract.state # "NONE" /\ export[x] \in ExportRows
  BY ImportTyped DEF ImportInv, NothingBefore
<1>5. CASE CreateImportExport(x)
  <2> DEFINE row == [exists |-> TRUE, status |-> "PENDING", version |-> 0, rows |-> {}]
  <2>1. export' = [export EXCEPT ![x] = row] /\ contract.state # "NONE"
    BY <1>5 DEF CreateImportExport
  <2>2. row \in ExportRows /\ row.status = "PENDING"
    BY DEF ExportRows
  <2> HIDE DEF row
  <2> QED
    BY <1>3, <2>1, <2>2
<1>6. CASE BuildImportExport(x)
  <2>1. export' = [export EXCEPT ![x] = done] /\ contract.state # "NONE"
    BY <1>4, <1>6 DEF BuildImportExport, Pending
  <2>2. done \in ExportRows
    <3>1. contract.version \in Nat /\ Restored \in SUBSET Facts
      BY ImportTyped DEF ImportInv, Restored
    <3> QED
      BY <3>1 DEF ExportRows
  <2> QED
    BY <1>3, <2>1, <2>2
<1>7. CASE FailImportExport(x)
  <2> DEFINE row == [export[x] EXCEPT !.status = "FAILED"]
  <2>1. export' = [export EXCEPT ![x] = row] /\ export[x].exists
    BY <1>7 DEF FailImportExport, Pending
  <2>2. row \in ExportRows /\ row.status = "FAILED"
    BY <1>4, <2>1 DEF ExportRows
  <2> HIDE DEF row
  <2> QED
    BY <1>3, <1>4, <2>1, <2>2
<1>8. CASE PurgeImportExport(x)
  <2> DEFINE row == [exists |-> TRUE, status |-> "EXPIRED", version |-> 0, rows |-> {}]
  <2>1. export' = [export EXCEPT ![x] = row] /\ export[x].exists
    BY <1>8 DEF PurgeImportExport
  <2>2. row \in ExportRows /\ row.status = "EXPIRED"
    BY DEF ExportRows
  <2> HIDE DEF row
  <2> QED
    BY <1>3, <1>4, <2>1, <2>2
<1> QED
  BY <1>1, <1>5, <1>6, <1>7, <1>8

\* The steps that leave the import's rows alone.
LEMMA OutsideKept ==
    ASSUME ImportInv, UNCHANGED <<contract, plan, fact, recons, export>>
    PROVE  /\ CreditNext => ImportInv'
           /\ UNCHANGED creditVars => ImportInv'
<1>1. ImportTypeOK' /\ NothingBefore' /\ ExportsSound'
  BY DEF ImportInv, ImportTypeOK, NothingBefore, ExportsSound, Restored
<1>2. ASSUME CreditNext PROVE ImportInv'
  <2>1. /\ CreditTypeOK' /\ QueueSound' /\ creditCount' = creditCount
        /\ \A e \in CreditIds : /\ credit'[e].type = credit[e].type
                                /\ Kept(e) => Kept(e)' /\ credit'[e] = credit[e]
    BY <1>2, CreditStepKept DEF ImportInv
  <2>2. HeldBack' /\ SuppressedBack'
    BY <2>1 DEF ImportInv, HeldBack, SuppressedBack
  <2> QED
    BY <1>1, <2>1, <2>2 DEF ImportInv
<1>3. ASSUME UNCHANGED creditVars PROVE ImportInv'
  BY <1>1, <1>3, QueueAlone DEF ImportInv
<1> QED
  BY <1>2, <1>3

LEMMA ImportInit == Init => ImportInv
<1> SUFFICES ASSUME Init PROVE ImportInv
  OBVIOUS
<1>1. /\ credit = [e \in CreditIds |-> NoRow] /\ creditCount = 0 /\ leaseOver = {}
      /\ job = [p \in Publishers |-> Idle] /\ crm = {} /\ disruptions = 0
  BY DEF Init, CreditInit
<1>2. NoRow \in CreditRows /\ NoRow.status = "NONE" /\ NoRow.type = "NONE"
  BY CreditAssumption DEF NoRow, CreditRows, CreditStatuses
<1>3. 0 \in 0 .. MaxCreditEvents /\ 0 \in 0 .. MaxDisruptions
  BY CreditAssumption
<1>4. CreditTypeOK
  BY <1>1, <1>2, <1>3, JobsTyped DEF CreditTypeOK
<1>5. QueueSound
  BY <1>1, JobsTyped DEF QueueSound
<1>6. \A e \in CreditIds : Kept(e) /\ ~ (e <= creditCount)
  BY <1>1, <1>2, JobsTyped DEF Kept, Sends, Live, CreditIds
<1>7. HeldBack /\ SuppressedBack
  BY <1>6 DEF HeldBack, SuppressedBack, Init, NoContract
<1>8. Restored = {} /\ \A x \in Exports : ~ export[x].exists
  BY DEF Restored, Init, Absent
<1>9. NothingBefore /\ ExportsSound
  BY <1>8 DEF NothingBefore, ExportsSound
<1>10. ImportTypeOK
  BY ImportAssumption DEF Init, ImportTypeOK, NoContract, Facts
<1> QED
  BY <1>4, <1>5, <1>7, <1>9, <1>10 DEF ImportInv

LEMMA ImportStep == ImportInv /\ [Next]_vars => ImportInv'
<1> SUFFICES ASSUME ImportInv, [Next]_vars PROVE ImportInv'
  OBVIOUS
<1>1. CASE UNCHANGED vars
  BY <1>1, OutsideKept DEF vars, importVars
<1>2. CASE RestoreNext
  BY <1>2, PrepareKept, ConfirmPlanKept, CreateReceiptKept, ConfirmAllocationKept DEF RestoreNext
<1>3. ASSUME NEW e \in OwnerEvents, IngestContractResponsibility(e) PROVE ImportInv'
  BY <1>3, OutsideKept DEF IngestContractResponsibility
<1>4. CASE ReleaseNext
  BY <1>3, <1>4, ReconcileKept, ReleaseKept, ReverseKept DEF ReleaseNext
<1>5. CASE ExportNext
  BY <1>5, ExportKept
<1>6. CASE CreditNext /\ UNCHANGED importVars
  BY <1>6, OutsideKept DEF importVars
<1> QED
  BY <1>1, <1>2, <1>4, <1>5, <1>6 DEF Next

LEMMA ImportInvariant == Spec => []ImportInv
BY ImportInit, ImportStep, PTL DEF Spec

\* The rows of an import keep their types.
THEOREM ImportTypeCorrect == Spec => [](ImportTypeOK /\ CreditTypeOK)
<1>1. ImportInv => ImportTypeOK /\ CreditTypeOK
  BY DEF ImportInv
<1> QED
  BY <1>1, ImportInvariant, PTL

\* While the contract is on HOLD no settlement event is sent, although every
\* request tries to, and none ever if finance suppressed them.
THEOREM CreditAlwaysHeld == Spec => []HeldCreditKept
<1>1. ImportInv => HeldCreditKept
  <2> SUFFICES ASSUME ImportInv, NEW e \in CreditIds
               PROVE  /\ OnHold /\ e <= creditCount => credit[e].status = "HOLD" /\ e \notin crm
                      /\ credit[e].type = "completed" /\ contract.decision = "SUPPRESSED"
                           => e \notin crm
    BY DEF HeldCreditKept
  <2>1. CASE contract.state = "RELEASED"
    BY <2>1 DEF ImportInv, OnHold, SuppressedBack, Kept
  <2>2. CASE contract.state # "RELEASED"
    BY <2>2 DEF ImportInv, HeldBack, Kept
  <2> QED
    BY <2>1, <2>2
<1> QED
  BY <1>1, ImportInvariant, PTL

\* An export that carries the current version shows the facts of now.
THEOREM ExportAlwaysCurrent == Spec => []ExportIsCurrent
<1>1. ImportInv => ExportIsCurrent
  BY DEF ImportInv, ExportsSound, ExportIsCurrent
<1> QED
  BY <1>1, ImportInvariant, PTL

\* A release finds every declared fact restored and no other, every plan confirmed,
\* the approved balances and, for a contract that goes on live, its owner.
THEOREM AlwaysReleasedAsApproved == Spec => ReleasedAsApproved
<1> DEFINE Released == contract.state = "HOLD" /\ contract'.state = "RELEASED"
           AsApproved == /\ Restored = Manifest
                         /\ \A r \in Receivables : plan[r].confirmed
                         /\ OpenAmount = ApprovedOpen /\ ReceiptAmount = ApprovedReceipts
                         /\ Mode = "CONTINUE_LIVE" => owner.active /\ owner.user = Owner
<1>1. ASSUME ImportInv, [Next]_vars, Released PROVE AsApproved
  <2>1. contract.state = "HOLD" /\ contract'.state = "RELEASED" /\ contract' # contract
    BY <1>1
  <2>2. ~ LockImportWrite
    <3>1. ASSUME LockImportWrite PROVE contract'.state = contract.state
      BY <1>1, <3>1 DEF LockImportWrite, ImportInv, ImportTypeOK
    <3> QED
      BY <2>1, <3>1
  <2>3. ASSUME NEW d \in Decisions, ReconcileContractImport(d) PROVE FALSE
    <3>1. contract'.state = contract.state
      BY <1>1, <2>3 DEF ReconcileContractImport, ImportInv, ImportTypeOK
    <3> QED
      BY <2>1, <3>1
  <2>4. ~ RestoreNext
    BY <2>1, <2>2 DEF RestoreNext, PrepareContractImport, ConfirmPlan, CreateReceipt,
                      ConfirmAllocation, ClaimImportFact
  <2>5. ~ ExportNext
    BY <2>1 DEF ExportNext, CreateImportExport, BuildImportExport, FailImportExport,
                PurgeImportExport
  <2>6. ~ UNCHANGED importVars /\ ~ UNCHANGED vars
    BY <2>1 DEF importVars, vars
  <2>7. ReleaseNext
    BY <1>1, <2>4, <2>5, <2>6 DEF Next
  <2>8. PICK id \in DOMAIN recons :
          \E v \in {b.version : b \in Range(recons)}, o \in {e.version : e \in OwnerEvents} :
            ReleaseContractImport(id, v, o)
    BY <2>1, <2>3, <2>7 DEF ReleaseNext, ReverseAllocation, IngestContractResponsibility
  <2>9. PICK v, o : ReleaseContractImport(id, v, o)
    BY <2>8
  <2>10. BalancesComplete /\ recons[id] = Balances /\ OwnerMatches(o)
    BY <2>9 DEF ReleaseContractImport
  <2>11. recons[id] \in Statements
    BY <1>1 DEF ImportInv, ImportTypeOK
  <2>12. Balances.open = ApprovedOpen /\ Balances.receipts = ApprovedReceipts
    BY <2>10, <2>11 DEF Statements
  <2>13. OpenAmount = ApprovedOpen /\ ReceiptAmount = ApprovedReceipts
    BY <2>12 DEF Balances
  <2> QED
    BY <2>10, <2>13 DEF BalancesComplete, OwnerMatches
<1> QED
  BY <1>1, ImportInvariant, PTL DEF Spec, ReleasedAsApproved
=============================================================================
