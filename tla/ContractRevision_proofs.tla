----------------------- MODULE ContractRevision_proofs -----------------------
(***************************************************************************)
(* Proofs about ContractRevision for every value of its constants.         *)
(***************************************************************************)
EXTENDS ContractRevision, TLAPS

\* Snapshots lie at or before the stream's version, and before the first version
\* nothing was taken from the inbox.
History ==
    /\ \A v \in Versions : snapshot[v].status # "NONE" => v <= stream
    /\ stream = 0 => \A e \in Events : inbox[e] = "NONE"

\* Only a confirmed plan has a receivable to book money on.
FactsConfirmed ==
    \A i \in Planned : plan[i].received > 0 \/ plan[i].invoiced > 0 => plan[i].rsnap # 0

\* The inductive invariant.
RevisionInv == TypeOK /\ OneBaseline /\ History /\ FactsConfirmed

-----------------------------------------------------------------------------
\* Versions are positive, and the terms of an event are terms.
LEMMA EventTyped ==
    /\ \A v \in Versions : v \in Nat /\ v > 0
    /\ \A e \in Events : /\ e.version \in Versions /\ e.amount \in Nat
                         /\ \A i \in TermsOf(e) : /\ e.terms[i].amount \in Nat \ {0}
                                                  /\ e.terms[i].due \in Nat \ {0}
<1>1. \A e \in Events : /\ e.version \in Nat \ {0} /\ e.amount \in Nat \ {0}
                        /\ e.terms \in [Installments -> Term \cup {NoTerm}]
  BY RevisionAssumption DEF EventRecords
<1>2. \A e \in Events : e.version \in Versions
  BY DEF Versions
<1>3. \A v \in Versions : v \in Nat /\ v > 0
  BY <1>1 DEF Versions
<1>4. \A e \in Events : \A i \in TermsOf(e) : e.terms[i] \in Term
  BY <1>1 DEF TermsOf
<1>5. \A t \in Term : t.amount \in Nat \ {0} /\ t.due \in Nat \ {0}
  BY DEF Term
<1> QED
  BY <1>1, <1>2, <1>3, <1>4, <1>5

\* A row is a plan; the columns of one.
LEMMA PlanTyped ==
    \A row \in PlanRows :
      /\ row # NoPlan /\ row.snap \in Versions /\ row.rsnap \in Versions \cup {0}
      /\ row.amount \in Nat \ {0} /\ row.due \in Nat \ {0}
      /\ row.received \in Nat /\ row.invoiced \in Nat /\ row.reserved \in Nat
      /\ row.cited \in BOOLEAN /\ row.allocated \in BOOLEAN
<1>1. \A row \in PlanRows :
      /\ row.snap \in Versions /\ row.rsnap \in Versions \cup {0}
      /\ row.amount \in Nat \ {0} /\ row.due \in Nat \ {0}
      /\ row.received \in Nat /\ row.invoiced \in Nat /\ row.reserved \in Nat
      /\ row.cited \in BOOLEAN /\ row.allocated \in BOOLEAN
  BY DEF PlanRows
<1>2. NoPlan.snap = 0
  BY DEF NoPlan
<1>3. 0 \notin Versions
  BY EventTyped
<1>4. \A row \in PlanRows : row # NoPlan
  BY <1>1, <1>2, <1>3
<1> QED
  BY <1>1, <1>4

\* The plans that are there.
LEMMA PlannedRow ==
    ASSUME TypeOK
    PROVE  \A i \in Installments : IF i \in Planned THEN plan[i] \in PlanRows ELSE plan[i] = NoPlan
BY DEF TypeOK, Planned

\* Before the first version there is no plan.
LEMMA NoPlanYet ==
    ASSUME RevisionInv, stream = 0
    PROVE  Planned = {}
<1>1. ASSUME NEW i \in Planned PROVE FALSE
  <2>1. i \in Installments /\ plan[i].snap = 0
    BY DEF RevisionInv, OneBaseline, Planned
  <2>2. plan[i] \in PlanRows
    BY <2>1, PlannedRow DEF RevisionInv
  <2> QED
    BY <2>1, <2>2, PlanTyped, EventTyped
<1> QED
  BY <1>1

\* What a delivery in progress holds.
LEMMA DeliveryTyped ==
    ASSUME TypeOK, NEW d \in Deliveries, delivery[d] # NoDelivery
    PROVE  /\ delivery[d].event \in Events /\ delivery[d].view \in Views
BY DEF TypeOK

-----------------------------------------------------------------------------
\* Requests.  One plan gets a new row on the same snapshot.
LEMMA SetPlanKept ==
    ASSUME RevisionInv, NEW i \in Installments, NEW row \in PlanRows, SetPlan(i, row),
           row.snap = stream, row.rsnap \in {0, stream},
           row.received > 0 \/ row.invoiced > 0 => row.rsnap # 0
    PROVE  RevisionInv'
<1>1. /\ plan' = [plan EXCEPT ![i] = row]
      /\ UNCHANGED <<stream, snapshot, inbox, hold, delivery>>
  BY DEF SetPlan
<1>2. /\ plan'[i] = row /\ \A j \in Installments \ {i} : plan'[j] = plan[j]
      /\ plan' \in [Installments -> PlanRows \cup {NoPlan}]
  BY <1>1 DEF RevisionInv, TypeOK
<1>3. \A j \in Planned' : j = i \/ (j \in Planned /\ plan'[j] = plan[j])
  BY <1>2 DEF Planned
<1>4. TypeOK'
  BY <1>1, <1>2 DEF RevisionInv, TypeOK
<1>5. OneBaseline'
  BY <1>1, <1>2, <1>3 DEF RevisionInv, OneBaseline
<1>6. History'
  BY <1>1 DEF RevisionInv, History
<1>7. FactsConfirmed'
  BY <1>2, <1>3 DEF RevisionInv, FactsConfirmed
<1> QED
  BY <1>4, <1>5, <1>6, <1>7 DEF RevisionInv

RequestsNext ==
    \/ \E i \in Installments, x \in Amounts :
         \/ \E due \in Dues : \/ CreateManualPlan(i, x, due)
                              \/ ConfirmPlan(i, x, due)
                              \/ AdjustPlan(i, x, due)
         \/ ConfirmAllocation(i, x)
         \/ ReverseAllocation(i, x)
         \/ CreateInvoiceRequest(i, x)
         \/ ReleaseReservation(i, x)
         \/ FinalizeInvoice(i, x)
         \/ RedFlush(i, x)
    \/ \E i \in Installments : OpenDunningCase(i)

\* Every request on a plan keeps the invariant and the stream.
LEMMA RequestsKept ==
    ASSUME RevisionInv, RequestsNext
    PROVE  RevisionInv' /\ UNCHANGED <<stream, snapshot>>
<1>1. ASSUME NEW i \in Installments, NEW row, SetPlan(i, row) PROVE UNCHANGED <<stream, snapshot>>
  BY <1>1 DEF SetPlan
<1>2. ASSUME NEW i \in Planned
      PROVE  /\ i \in Installments /\ plan[i] \in PlanRows /\ plan[i].snap = stream
             /\ plan[i].rsnap \in {0, stream}
             /\ plan[i].received > 0 \/ plan[i].invoiced > 0 => plan[i].rsnap # 0
  BY PlannedRow DEF RevisionInv, OneBaseline, FactsConfirmed, Planned
<1>3. Confirmed \subseteq Planned /\ \A i \in Confirmed : plan[i].rsnap # 0
  BY DEF Confirmed
<1>4. ASSUME NEW i \in Installments, NEW x \in Amounts, NEW due \in Dues, CreateManualPlan(i, x, due)
      PROVE  RevisionInv'
  <2> DEFINE row == [snap |-> stream, amount |-> x, due |-> due, rsnap |-> 0,
                     received |-> 0, invoiced |-> 0, reserved |-> 0,
                     cited |-> FALSE, allocated |-> FALSE]
  <2>1. SetPlan(i, row) /\ stream \in Versions
    BY <1>4 DEF CreateManualPlan, RevisionInv, TypeOK
  <2>2. row \in PlanRows
    BY <2>1, RevisionAssumption DEF PlanRows
  <2>3. row.snap = stream /\ row.rsnap = 0 /\ row.received = 0 /\ row.invoiced = 0
    OBVIOUS
  <2> HIDE DEF row
  <2> QED
    BY <2>1, <2>2, <2>3, SetPlanKept
<1>5. ASSUME NEW i \in Installments, NEW x \in Amounts, NEW due \in Dues, ConfirmPlan(i, x, due)
      PROVE  RevisionInv'
  <2> DEFINE row == [plan[i] EXCEPT !.amount = x, !.due = due, !.rsnap = plan[i].snap]
  <2>1. SetPlan(i, row) /\ i \in Planned
    BY <1>5 DEF ConfirmPlan
  <2>2. row \in PlanRows /\ row.snap = stream /\ row.rsnap = stream
    BY <1>2, <2>1, RevisionAssumption DEF PlanRows
  <2>3. stream # 0
    BY <2>1, NoPlanYet
  <2> HIDE DEF row
  <2> QED
    BY <2>1, <2>2, <2>3, SetPlanKept
<1>6. ASSUME NEW i \in Confirmed, NEW row \in PlanRows, SetPlan(i, row),
             row.snap = plan[i].snap, row.rsnap = plan[i].rsnap
      PROVE  RevisionInv'
  BY <1>2, <1>3, <1>6, SetPlanKept
<1>7. ASSUME NEW i \in Installments, NEW x \in Amounts, NEW due \in Dues, AdjustPlan(i, x, due)
      PROVE  RevisionInv'
  <2> DEFINE row == [plan[i] EXCEPT !.amount = x, !.due = due]
  <2>1. SetPlan(i, row) /\ i \in Confirmed
    BY <1>7 DEF AdjustPlan
  <2>2. row \in PlanRows /\ row.snap = plan[i].snap /\ row.rsnap = plan[i].rsnap
    BY <1>2, <1>3, <2>1, RevisionAssumption DEF PlanRows
  <2> HIDE DEF row
  <2> QED
    BY <1>6, <2>1, <2>2
<1>8. ASSUME NEW i \in Confirmed
      PROVE  /\ plan[i].received \in Nat /\ plan[i].invoiced \in Nat /\ plan[i].reserved \in Nat
             /\ plan[i].cited \in BOOLEAN /\ plan[i].allocated \in BOOLEAN /\ plan[i] \in PlanRows
  BY <1>2, <1>3, PlanTyped
<1>9. ASSUME NEW x \in Amounts PROVE x \in Nat
  BY RevisionAssumption
<1>10. ASSUME NEW i \in Installments, NEW x \in Amounts, ConfirmAllocation(i, x) PROVE RevisionInv'
  <2> DEFINE row == [plan[i] EXCEPT !.received = @ + x, !.allocated = TRUE]
  <2>1. SetPlan(i, row) /\ i \in Confirmed
    BY <1>10 DEF ConfirmAllocation
  <2>2. plan[i].received + x \in Nat
    BY <1>8, <1>9, <2>1
  <2>3. row \in PlanRows /\ row.snap = plan[i].snap /\ row.rsnap = plan[i].rsnap
    BY <1>8, <2>1, <2>2 DEF PlanRows
  <2> HIDE DEF row
  <2> QED
    BY <1>6, <2>1, <2>3
<1>11. ASSUME NEW i \in Installments, NEW x \in Amounts, ReverseAllocation(i, x) PROVE RevisionInv'
  <2> DEFINE row == [plan[i] EXCEPT !.received = @ - x]
  <2>1. SetPlan(i, row) /\ i \in Confirmed /\ x <= plan[i].received
    BY <1>11 DEF ReverseAllocation
  <2>2. plan[i].received - x \in Nat
    BY <1>8, <1>9, <2>1
  <2>3. row \in PlanRows /\ row.snap = plan[i].snap /\ row.rsnap = plan[i].rsnap
    BY <1>8, <2>1, <2>2 DEF PlanRows
  <2> HIDE DEF row
  <2> QED
    BY <1>6, <2>1, <2>3
<1>12. ASSUME NEW i \in Installments, NEW x \in Amounts, CreateInvoiceRequest(i, x) PROVE RevisionInv'
  <2> DEFINE row == [plan[i] EXCEPT !.reserved = @ + x, !.cited = TRUE]
  <2>1. SetPlan(i, row) /\ i \in Confirmed
    BY <1>12 DEF CreateInvoiceRequest
  <2>2. plan[i].reserved + x \in Nat
    BY <1>8, <1>9, <2>1
  <2>3. row \in PlanRows /\ row.snap = plan[i].snap /\ row.rsnap = plan[i].rsnap
    BY <1>8, <2>1, <2>2 DEF PlanRows
  <2> HIDE DEF row
  <2> QED
    BY <1>6, <2>1, <2>3
<1>13. ASSUME NEW i \in Installments, NEW x \in Amounts, ReleaseReservation(i, x) PROVE RevisionInv'
  <2> DEFINE row == [plan[i] EXCEPT !.reserved = @ - x]
  <2>1. SetPlan(i, row) /\ i \in Confirmed /\ x <= plan[i].reserved
    BY <1>13 DEF ReleaseReservation
  <2>2. plan[i].reserved - x \in Nat
    BY <1>8, <1>9, <2>1
  <2>3. row \in PlanRows /\ row.snap = plan[i].snap /\ row.rsnap = plan[i].rsnap
    BY <1>8, <2>1, <2>2 DEF PlanRows
  <2> HIDE DEF row
  <2> QED
    BY <1>6, <2>1, <2>3
<1>14. ASSUME NEW i \in Installments, NEW x \in Amounts, FinalizeInvoice(i, x) PROVE RevisionInv'
  <2> DEFINE row == [plan[i] EXCEPT !.reserved = @ - x, !.invoiced = @ + x]
  <2>1. SetPlan(i, row) /\ i \in Confirmed /\ x <= plan[i].reserved
    BY <1>14 DEF FinalizeInvoice
  <2>2. plan[i].reserved - x \in Nat /\ plan[i].invoiced + x \in Nat
    BY <1>8, <1>9, <2>1
  <2>3. row \in PlanRows /\ row.snap = plan[i].snap /\ row.rsnap = plan[i].rsnap
    BY <1>8, <2>1, <2>2 DEF PlanRows
  <2> HIDE DEF row
  <2> QED
    BY <1>6, <2>1, <2>3
<1>15. ASSUME NEW i \in Installments, NEW x \in Amounts, RedFlush(i, x) PROVE RevisionInv'
  <2> DEFINE row == [plan[i] EXCEPT !.invoiced = @ - x]
  <2>1. SetPlan(i, row) /\ i \in Confirmed /\ x <= plan[i].invoiced
    BY <1>15 DEF RedFlush
  <2>2. plan[i].invoiced - x \in Nat
    BY <1>8, <1>9, <2>1
  <2>3. row \in PlanRows /\ row.snap = plan[i].snap /\ row.rsnap = plan[i].rsnap
    BY <1>8, <2>1, <2>2 DEF PlanRows
  <2> HIDE DEF row
  <2> QED
    BY <1>6, <2>1, <2>3
<1>16. ASSUME NEW i \in Installments, OpenDunningCase(i) PROVE RevisionInv'
  <2> DEFINE row == [plan[i] EXCEPT !.cited = TRUE]
  <2>1. SetPlan(i, row) /\ i \in Planned
    BY <1>16 DEF OpenDunningCase
  <2>2. /\ row \in PlanRows /\ row.snap = plan[i].snap /\ row.rsnap = plan[i].rsnap
        /\ row.received = plan[i].received /\ row.invoiced = plan[i].invoiced
    BY <1>2, <2>1 DEF PlanRows
  <2> HIDE DEF row
  <2> QED
    BY <1>2, <2>1, <2>2, SetPlanKept
<1>17. UNCHANGED <<stream, snapshot>>
  BY <1>1 DEF RequestsNext, CreateManualPlan, ConfirmPlan, AdjustPlan, ConfirmAllocation,
              ReverseAllocation, CreateInvoiceRequest, ReleaseReservation, FinalizeInvoice, RedFlush,
              OpenDunningCase
<1>18. RevisionInv'
  BY <1>4, <1>5, <1>7, <1>10, <1>11, <1>12, <1>13, <1>14, <1>15, <1>16 DEF RequestsNext
<1> QED
  BY <1>17, <1>18
-----------------------------------------------------------------------------
\* Deliveries that write no plan.  What a delivery carries is typed.
LEMMA StartIngestKept ==
    ASSUME RevisionInv, NEW d \in Deliveries, NEW e \in Events, StartIngest(d, e)
    PROVE  RevisionInv' /\ UNCHANGED <<stream, snapshot>>
<1> DEFINE rs == [i \in Installments |-> IF i \in Planned THEN plan[i].reserved ELSE 0]
           ct == [i \in Installments |-> i \in Planned /\ plan[i].cited]
           w == [effective |-> stream, reserved |-> rs, cited |-> ct]
<1>1. /\ delivery' = [delivery EXCEPT ![d] = [event |-> e, view |-> w]]
      /\ UNCHANGED <<stream, snapshot, plan, inbox, hold>>
  BY DEF StartIngest
<1>2. \A i \in Planned : i \in Installments /\ plan[i].reserved \in Nat /\ plan[i].cited \in BOOLEAN
  BY PlannedRow, PlanTyped DEF RevisionInv, Planned
<1>3. rs \in [Installments -> Nat] /\ ct \in [Installments -> BOOLEAN]
  BY <1>2
<1>4. w \in Views
  <2> HIDE DEF rs, ct
  <2> QED
    BY <1>3 DEF Views, RevisionInv, TypeOK
<1> HIDE DEF w
<1>5. TypeOK'
  BY <1>1, <1>4 DEF RevisionInv, TypeOK
<1>6. OneBaseline' /\ History' /\ FactsConfirmed'
  BY <1>1 DEF RevisionInv, OneBaseline, History, FactsConfirmed, Planned
<1> QED
  BY <1>1, <1>5, <1>6 DEF RevisionInv

\* A rollback, a review resolved, and a revision held as a whole.
LEMMA QuietKept ==
    ASSUME RevisionInv, stream # 0 \/ UNCHANGED inbox, TypeOK', UNCHANGED <<stream, snapshot, plan>>
    PROVE  RevisionInv'
<1>1. OneBaseline' /\ FactsConfirmed'
  BY DEF RevisionInv, OneBaseline, FactsConfirmed, Planned
<1>2. History'
  BY DEF RevisionInv, History
<1> QED
  BY <1>1, <1>2 DEF RevisionInv

LEMMA RollbackKept ==
    ASSUME RevisionInv, NEW d \in Deliveries, Rollback(d)
    PROVE  RevisionInv' /\ UNCHANGED <<stream, snapshot>>
<1>1. /\ delivery' = [delivery EXCEPT ![d] = NoDelivery]
      /\ UNCHANGED <<stream, snapshot, plan, inbox, hold>>
  BY DEF Rollback
<1>2. TypeOK'
  BY <1>1 DEF RevisionInv, TypeOK
<1> QED
  BY <1>1, <1>2, QuietKept

LEMMA ResolveKept ==
    ASSUME RevisionInv, NEW e \in Events, ResolveContractRevisionHold(e)
    PROVE  RevisionInv' /\ UNCHANGED <<stream, snapshot>>
<1>1. /\ hold' = [hold EXCEPT ![e] = "RESOLVED"]
      /\ UNCHANGED <<stream, snapshot, plan, inbox, delivery>>
  BY DEF ResolveContractRevisionHold
<1>2. TypeOK'
  BY <1>1 DEF RevisionInv, TypeOK
<1> QED
  BY <1>1, <1>2, QuietKept

LEMMA HoldUnbalancedKept ==
    ASSUME RevisionInv, NEW d \in Deliveries, HoldUnbalanced(d)
    PROVE  RevisionInv' /\ UNCHANGED <<stream, snapshot>>
<1> DEFINE e == delivery[d].event
<1>1. /\ delivery[d] # NoDelivery /\ stream # 0
      /\ inbox' = [inbox EXCEPT ![e] = "HELD"]
      /\ hold' = [hold EXCEPT ![e] = "PENDING_REVIEW"]
      /\ delivery' = [delivery EXCEPT ![d] = NoDelivery]
      /\ UNCHANGED <<stream, snapshot, plan>>
  BY DEF HoldUnbalanced, Newer, Disposition, RegisterContractRevisionHold
<1>2. TypeOK'
  BY <1>1 DEF RevisionInv, TypeOK
<1> QED
  BY <1>1, <1>2, QuietKept

-----------------------------------------------------------------------------
\* The row of a term is a plan on the version of its event.
LEMMA PendingTyped ==
    ASSUME NEW e \in Events, NEW i \in TermsOf(e)
    PROVE  /\ Pending(e, i) \in PlanRows
           /\ Pending(e, i).snap = e.version /\ Pending(e, i).rsnap = 0
           /\ Pending(e, i).received = 0 /\ Pending(e, i).invoiced = 0
           /\ Pending(e, i).amount = e.terms[i].amount /\ Pending(e, i).due = e.terms[i].due
BY EventTyped DEF Pending, PlanRows

\* What a step that moves the contract to the version of event e leaves: the
\* snapshot of e is the effective one, and every plan hangs on it.
LEMMA MovesOn ==
    ASSUME RevisionInv, NEW e \in Events, e.version > stream,
           stream' = e.version,
           \A v \in Versions \ {e.version, stream} : snapshot'[v] = snapshot[v],
           snapshot'[e.version].status = "EFFECTIVE",
           stream # 0 => snapshot'[stream].status = "SUPERSEDED",
           \A i \in Planned' : /\ plan'[i].snap = e.version /\ plan'[i].rsnap \in {0, e.version}
                               /\ \/ plan'[i].received > 0
                                  \/ plan'[i].invoiced > 0
                                  => plan'[i].rsnap # 0,
           TypeOK'
    PROVE  RevisionInv'
<1>1. e.version \in Versions /\ e.version \in Nat /\ e.version # 0 /\ stream \in Nat
  BY EventTyped DEF RevisionInv, TypeOK
<1>2. ASSUME NEW v \in Versions PROVE snapshot'[v].status = "EFFECTIVE" <=> v = stream'
  <2>1. v \in Nat /\ v # 0
    BY EventTyped
  <2>2. CASE v = e.version
    BY <2>2
  <2>3. CASE v # e.version /\ v = stream
    BY <2>1, <2>3
  <2>4. CASE v # e.version /\ v # stream
    BY <2>4 DEF RevisionInv, OneBaseline
  <2> QED
    BY <2>2, <2>3, <2>4
<1>3. OneBaseline'
  BY <1>2 DEF OneBaseline
<1>4. ASSUME NEW v \in Versions, snapshot'[v].status # "NONE" PROVE v <= stream'
  <2>1. v \in Nat
    BY EventTyped
  <2>2. CASE v \notin {e.version, stream}
    <3>1. v <= stream
      BY <1>4, <2>2 DEF RevisionInv, History
    <3> QED
      BY <1>1, <2>1, <3>1
  <2> QED
    BY <1>1, <2>1, <2>2
<1>5. History'
  BY <1>1, <1>4 DEF History
<1>6. FactsConfirmed'
  BY <1>1 DEF FactsConfirmed
<1> QED
  BY <1>3, <1>5, <1>6 DEF RevisionInv
-----------------------------------------------------------------------------
\* The step predicates of NeverRegresses, RevisionAccounted and FactsKept, for a
\* step that moves the stream.
Grows ==
    /\ stream' >= stream
    /\ \A v \in Versions : snapshot[v].status = "SUPERSEDED" => snapshot'[v] = snapshot[v]

LeavesTerms(e) ==
    \A i \in Installments :
      IF i \in TermsOf(e)
      THEN /\ plan'[i] # NoPlan
           /\ plan'[i].amount = e.terms[i].amount
           /\ plan'[i].due = e.terms[i].due
      ELSE plan'[i] = NoPlan

Accounted ==
    \E e \in Taken :
      \/ hold'[e] = "PENDING_REVIEW"
      \/ LeavesTerms(e)

KeepsFacts ==
    \A i \in Planned :
      /\ plan[i].received > 0 \/ plan[i].invoiced > 0 =>
           plan'[i] = [plan[i] EXCEPT !.snap = stream', !.rsnap = stream']
      /\ plan[i].cited \/ plan[i].allocated => plan'[i] # NoPlan

\* The first version.
LEMMA IngestFirstKept ==
    ASSUME RevisionInv, NEW d \in Deliveries, IngestFirst(d)
    PROVE  RevisionInv' /\ Grows /\ Accounted /\ KeepsFacts
<1>1. PICK e \in Events : e = delivery[d].event
  BY DeliveryTyped DEF IngestFirst, RevisionInv
<1>2. /\ stream = 0 /\ stream' = e.version
      /\ snapshot' = [snapshot EXCEPT ![e.version] = [status |-> "EFFECTIVE", amount |-> e.amount]]
      /\ plan' = [i \in Installments |-> IF i \in TermsOf(e) THEN Pending(e, i) ELSE NoPlan]
      /\ inbox' = [inbox EXCEPT ![e] = "COMPLETED"]
      /\ delivery' = [delivery EXCEPT ![d] = NoDelivery]
      /\ hold' = hold
  BY <1>1 DEF IngestFirst, Disposition
<1>3. e.version \in Versions /\ e.version \in Nat /\ e.version > 0 /\ e.amount \in Nat
  BY EventTyped
<1>4. \A v \in Versions : v > 0 /\ v \in Nat
  BY EventTyped
<1>5. ASSUME NEW i \in Installments
      PROVE  IF i \in TermsOf(e)
             THEN /\ plan'[i] \in PlanRows /\ plan'[i] # NoPlan
                  /\ plan'[i].snap = e.version /\ plan'[i].rsnap = 0
                  /\ plan'[i].received = 0 /\ plan'[i].invoiced = 0
                  /\ plan'[i].amount = e.terms[i].amount /\ plan'[i].due = e.terms[i].due
             ELSE plan'[i] = NoPlan
  <2>1. plan'[i] = IF i \in TermsOf(e) THEN Pending(e, i) ELSE NoPlan
    BY <1>2
  <2> QED
    BY <2>1, PendingTyped, PlanTyped
<1>6. plan' \in [Installments -> PlanRows \cup {NoPlan}]
  BY <1>2, <1>5
<1>7. /\ snapshot'[e.version].status = "EFFECTIVE"
      /\ \A v \in Versions \ {e.version, stream} : snapshot'[v] = snapshot[v]
      /\ snapshot' \in [Versions -> [status : {"NONE", "EFFECTIVE", "SUPERSEDED"}, amount : Nat]]
  BY <1>2, <1>3 DEF RevisionInv, TypeOK
<1>8. TypeOK'
  BY <1>2, <1>3, <1>6, <1>7 DEF RevisionInv, TypeOK
<1>9. \A i \in Planned' : /\ plan'[i].snap = e.version /\ plan'[i].rsnap \in {0, e.version}
                          /\ ~ (plan'[i].received > 0 \/ plan'[i].invoiced > 0)
  BY <1>5 DEF Planned
<1>10. RevisionInv'
  BY <1>2, <1>3, <1>7, <1>8, <1>9, MovesOn
<1>11. \A v \in Versions : snapshot[v].status # "SUPERSEDED"
  <2>1. \A v \in Versions : snapshot[v].status # "NONE" => v <= 0
    BY <1>2 DEF RevisionInv, History
  <2> QED
    BY <1>4, <2>1
<1>12. Grows
  BY <1>2, <1>3, <1>11 DEF Grows
<1>13. e \in Taken
  BY <1>2 DEF Taken, RevisionInv, TypeOK, History
<1>14. Accounted
  BY <1>5, <1>13 DEF Accounted, LeavesTerms
<1>15. KeepsFacts
  BY <1>2, NoPlanYet DEF KeepsFacts
<1> QED
  BY <1>10, <1>12, <1>14, <1>15

-----------------------------------------------------------------------------
\* Revisions.  Every plan is one of the old snapshot, so a revision leaves each
\* installment one of four ways.
LEMMA RevisedRow ==
    ASSUME RevisionInv, NEW e \in Events, NEW w, NEW i \in Installments
    PROVE  /\ i \in Removed(e, w) => Revised(e, w)[i] = NoPlan
           /\ i \in Adjusted(e, w) =>
                Revised(e, w)[i] = [Moved(e, i) EXCEPT !.amount = e.terms[i].amount,
                                                       !.due = e.terms[i].due]
           /\ i \in Planned \ (Removed(e, w) \cup Adjusted(e, w)) => Revised(e, w)[i] = Moved(e, i)
           /\ i \in TermsOf(e) \ Planned => Revised(e, w)[i] = Pending(e, i)
           /\ i \notin Planned \cup TermsOf(e) => Revised(e, w)[i] = NoPlan
           /\ i \in Removed(e, w) \cup Adjusted(e, w) => i \in Planned
           /\ i \in Adjusted(e, w) => i \in TermsOf(e)
<1>1. OldPlans = Planned
  BY DEF OldPlans, RevisionInv, OneBaseline
<1>2. /\ Removed(e, w) \subseteq Planned \ TermsOf(e)
      /\ Adjusted(e, w) \subseteq Planned \cap TermsOf(e)
  BY <1>1 DEF Removed, Adjusted
<1>3. i \notin Planned => plan[i] = NoPlan
  BY DEF Planned
<1> DEFINE R == Removed(e, w)
           A == Adjusted(e, w)
           moved == Moved(e, i)
           pending == Pending(e, i)
           terms == TermsOf(e)
<1>4. Revised(e, w)[i] =
        CASE i \in R -> NoPlan
          [] i \in terms \ Planned -> pending
          [] i \in A -> [moved EXCEPT !.amount = e.terms[i].amount, !.due = e.terms[i].due]
          [] i \in Planned \ (R \cup A) -> moved
          [] OTHER -> plan[i]
  BY <1>1 DEF Revised
<1>5. R \subseteq Planned \ terms /\ A \subseteq Planned \cap terms
  BY <1>2
<1> HIDE DEF R, A, moved, pending, terms
<1>6. /\ i \in R => Revised(e, w)[i] = NoPlan
      /\ i \in A => Revised(e, w)[i] = [moved EXCEPT !.amount = e.terms[i].amount,
                                                     !.due = e.terms[i].due]
      /\ i \in Planned \ (R \cup A) => Revised(e, w)[i] = moved
      /\ i \in terms \ Planned => Revised(e, w)[i] = pending
      /\ i \notin Planned \cup terms => Revised(e, w)[i] = NoPlan
  BY ONLY <1>3, <1>4, <1>5
<1> QED
  BY <1>5, <1>6 DEF R, A, moved, pending, terms

\* The plans a revision deletes.
LEMMA RemovedRow ==
    ASSUME RevisionInv, NEW e \in Events, NEW w, NEW i \in Removed(e, w)
    PROVE  Revised(e, w)[i] = NoPlan
<1>1. i \in Installments
  BY DEF Removed, OldPlans, Planned
<1>2. i \notin TermsOf(e) /\ i \notin Adjusted(e, w)
  BY DEF Removed, Adjusted
<1> QED
  BY <1>1, <1>2 DEF Revised

\* A plan that moves keeps its terms and its money.
LEMMA MovedTyped ==
    ASSUME RevisionInv, NEW e \in Events, NEW i \in Planned
    PROVE  /\ Moved(e, i) \in PlanRows
           /\ Moved(e, i).snap = e.version /\ Moved(e, i).rsnap \in {0, e.version}
           /\ plan[i].rsnap # 0 =>
                Moved(e, i) = [plan[i] EXCEPT !.snap = e.version, !.rsnap = e.version]
           /\ Moved(e, i).amount = plan[i].amount /\ Moved(e, i).due = plan[i].due
           /\ Moved(e, i).received = plan[i].received /\ Moved(e, i).invoiced = plan[i].invoiced
           /\ plan[i].rsnap # 0 => Moved(e, i).rsnap # 0
<1>1. plan[i] \in PlanRows
  BY PlannedRow DEF RevisionInv, Planned
<1>2. e.version \in Versions /\ e.version # 0
  BY EventTyped
<1> QED
  BY <1>1, <1>2 DEF Moved, PlanRows
\* The rows a revision leaves are plans on the new version or are gone.
LEMMA RevisedTyped ==
    ASSUME RevisionInv, NEW e \in Events, NEW w, NEW i \in Installments
    PROVE  \/ Revised(e, w)[i] = NoPlan
           \/ /\ Revised(e, w)[i] \in PlanRows
              /\ Revised(e, w)[i].snap = e.version /\ Revised(e, w)[i].rsnap \in {0, e.version}
              /\ \/ Revised(e, w)[i].received > 0
                 \/ Revised(e, w)[i].invoiced > 0
                 => Revised(e, w)[i].rsnap # 0
<1> DEFINE row == Revised(e, w)[i]
           moved == Moved(e, i)
<1>1. CASE i \in Removed(e, w)
  BY <1>1, RemovedRow
<1>2. CASE i \in Adjusted(e, w)
  <2>1. /\ row = [moved EXCEPT !.amount = e.terms[i].amount, !.due = e.terms[i].due]
        /\ i \in Planned /\ i \in TermsOf(e)
    BY <1>2, RevisedRow
  <2>2. /\ moved \in PlanRows /\ moved.snap = e.version /\ moved.rsnap \in {0, e.version}
        /\ \/ moved.received > 0
           \/ moved.invoiced > 0
           => moved.rsnap # 0
    BY <2>1, MovedTyped DEF RevisionInv, FactsConfirmed
  <2>3. e.terms[i].amount \in Nat \ {0} /\ e.terms[i].due \in Nat \ {0}
    BY <2>1, EventTyped
  <2> HIDE DEF moved
  <2>4. /\ row \in PlanRows /\ row.snap = moved.snap /\ row.rsnap = moved.rsnap
        /\ row.received = moved.received /\ row.invoiced = moved.invoiced
    BY <2>1, <2>2, <2>3 DEF PlanRows
  <2> QED
    BY <2>2, <2>4
<1>3. CASE i \in Planned \ (Removed(e, w) \cup Adjusted(e, w))
  <2>1. row = moved /\ i \in Planned
    BY <1>3, RevisedRow
  <2>2. /\ moved \in PlanRows /\ moved.snap = e.version /\ moved.rsnap \in {0, e.version}
        /\ \/ moved.received > 0
           \/ moved.invoiced > 0
           => moved.rsnap # 0
    BY <2>1, MovedTyped DEF RevisionInv, FactsConfirmed
  <2> QED
    BY <2>1, <2>2
<1>4. CASE i \in TermsOf(e) \ Planned
  <2>1. row = Pending(e, i)
    BY <1>4, RevisedRow
  <2> QED
    BY <1>4, <2>1, PendingTyped
<1>5. CASE i \notin Planned \cup TermsOf(e)
  BY <1>5, RevisedRow
<1> QED
  BY <1>1, <1>2, <1>3, <1>4, <1>5

\* Without a difference a revision leaves exactly the plans of its terms.
LEMMA NoDiffLeavesTerms ==
    ASSUME RevisionInv, NEW e \in Events, NEW w, plan' = Revised(e, w), Diffs(e, w) = {}
    PROVE  LeavesTerms(e)
<1>1. OldPlans = Planned
  BY DEF OldPlans, RevisionInv, OneBaseline
<1>2. ASSUME NEW i \in TermsOf(e)
      PROVE  /\ plan'[i] # NoPlan /\ plan'[i].amount = e.terms[i].amount
             /\ plan'[i].due = e.terms[i].due
  <2>1. i \in Installments
    BY DEF TermsOf
  <2>2. CASE i \notin Planned
    <3>1. plan'[i] = Pending(e, i)
      BY <2>1, <2>2, RevisedRow
    <3> QED
      BY <3>1, PendingTyped, PlanTyped
  <2>3. CASE i \in Adjusted(e, w)
    <3> DEFINE moved == Moved(e, i)
    <3>1. /\ plan'[i] = [moved EXCEPT !.amount = e.terms[i].amount, !.due = e.terms[i].due]
          /\ i \in Planned
      BY <2>1, <2>3, RevisedRow
    <3>2. moved \in PlanRows
      BY <3>1, MovedTyped
    <3>3. e.terms[i].amount \in Nat \ {0} /\ e.terms[i].due \in Nat \ {0}
      BY EventTyped
    <3> HIDE DEF moved
    <3>4. plan'[i] \in PlanRows /\ plan'[i].amount = e.terms[i].amount /\ plan'[i].due = e.terms[i].due
      BY <3>1, <3>2, <3>3 DEF PlanRows
    <3> QED
      BY <3>4, PlanTyped
  <2>4. CASE i \in Planned /\ i \notin Adjusted(e, w)
    <3>1. ~ Changed(e, i) /\ i \notin Removed(e, w)
      BY <1>1, <2>4 DEF Adjusted, Removed, Diffs
    <3>2. plan'[i] = Moved(e, i)
      BY <2>1, <2>4, <3>1, RevisedRow
    <3>3. plan[i].amount = e.terms[i].amount /\ plan[i].due = e.terms[i].due
      BY <3>1 DEF Changed
    <3>4. /\ Moved(e, i) \in PlanRows
          /\ Moved(e, i).amount = plan[i].amount /\ Moved(e, i).due = plan[i].due
      BY <2>4, MovedTyped
    <3> QED
      BY <3>2, <3>3, <3>4, PlanTyped
  <2> QED
    BY <2>2, <2>3, <2>4
<1>3. ASSUME NEW i \in Installments, i \notin TermsOf(e) PROVE plan'[i] = NoPlan
  <2>1. CASE i \in Planned
    <3>1. i \in Removed(e, w)
      BY <1>1, <1>3, <2>1 DEF Removed, Diffs
    <3> QED
      BY <3>1, RevisedRow
  <2> QED
    BY <1>3, <2>1, RevisedRow
<1> QED
  BY <1>2, <1>3 DEF LeavesTerms

\* Plans with money on them are moved and nothing else, and what is referred to
\* stays: the deletion of a referred row fails.
LEMMA RevisionKeepsFacts ==
    ASSUME RevisionInv, NEW e \in Events, NEW w, plan' = Revised(e, w), stream' = e.version,
           \A i \in Removed(e, w) : Deletable(i)
    PROVE  KeepsFacts
<1>1. ASSUME NEW i \in Planned, plan[i].received > 0 \/ plan[i].invoiced > 0
      PROVE  plan'[i] = [plan[i] EXCEPT !.snap = stream', !.rsnap = stream']
  <2>1. i \in Installments /\ plan[i].rsnap # 0
    BY <1>1 DEF Planned, RevisionInv, FactsConfirmed
  <2>2. i \notin Removed(e, w) /\ i \notin Adjusted(e, w)
    BY <1>1 DEF Removed, Adjusted, Facts
  <2>3. plan'[i] = Moved(e, i)
    BY <2>1, <2>2, RevisedRow
  <2> QED
    BY <2>1, <2>3, MovedTyped
<1>2. ASSUME NEW i \in Planned, plan[i].cited \/ plan[i].allocated
      PROVE  plan'[i] # NoPlan
  <2>1. i \in Installments /\ i \notin Removed(e, w)
    BY <1>2 DEF Planned, Deletable
  <2>2. CASE i \notin Adjusted(e, w)
    <3>1. plan'[i] = Moved(e, i)
      BY <2>1, <2>2, RevisedRow
    <3>2. Moved(e, i) \in PlanRows
      BY MovedTyped
    <3> QED
      BY <3>1, <3>2, PlanTyped
  <2>3. CASE i \in Adjusted(e, w)
    <3> DEFINE moved == Moved(e, i)
    <3>1. /\ plan'[i] = [moved EXCEPT !.amount = e.terms[i].amount, !.due = e.terms[i].due]
          /\ i \in TermsOf(e)
      BY <2>1, <2>3, RevisedRow
    <3>2. moved \in PlanRows
      BY MovedTyped
    <3>3. e.terms[i].amount \in Nat \ {0} /\ e.terms[i].due \in Nat \ {0}
      BY <3>1, EventTyped
    <3> HIDE DEF moved
    <3>4. plan'[i] \in PlanRows
      BY <3>1, <3>2, <3>3 DEF PlanRows
    <3> QED
      BY <3>4, PlanTyped
  <2> QED
    BY <2>2, <2>3
<1> QED
  BY <1>1, <1>2 DEF KeepsFacts

\* A revision.
LEMMA ApplyRevisionKept ==
    ASSUME RevisionInv, NEW d \in Deliveries, ApplyRevision(d)
    PROVE  RevisionInv' /\ Grows /\ Accounted /\ KeepsFacts
<1>1. PICK e \in Events, w \in Views : e = delivery[d].event /\ w = delivery[d].view
  BY DeliveryTyped DEF ApplyRevision, RevisionInv
<1>2. /\ stream # 0 /\ e.version > stream /\ inbox[e] = "NONE"
      /\ snapshot[e.version] = NoSnapshot
      /\ \A i \in Removed(e, w) : Deletable(i)
      /\ plan' = Revised(e, w)
      /\ snapshot' = Superseded(e)
      /\ stream' = e.version
      /\ inbox' = [inbox EXCEPT ![e] = Disposition(Diffs(e, w) # {})]
      /\ IF Diffs(e, w) # {} THEN hold' = [hold EXCEPT ![e] = "PENDING_REVIEW"] ELSE hold' = hold
      /\ delivery' = [delivery EXCEPT ![d] = NoDelivery]
  BY <1>1 DEF ApplyRevision, Newer, RegisterContractRevisionHold
<1>3. /\ e.version \in Versions /\ e.version \in Nat /\ e.amount \in Nat
      /\ stream \in Versions /\ stream \in Nat
  BY <1>2, EventTyped DEF RevisionInv, TypeOK
<1>4. e.version # stream
  BY <1>2, <1>3
<1>5. /\ snapshot'[e.version] = [status |-> "EFFECTIVE", amount |-> e.amount]
      /\ snapshot'[stream] = [snapshot[stream] EXCEPT !.status = "SUPERSEDED"]
      /\ \A v \in Versions \ {e.version, stream} : snapshot'[v] = snapshot[v]
      /\ DOMAIN snapshot' = Versions /\ snapshot' = [v \in Versions |-> snapshot'[v]]
  BY <1>2, <1>3, <1>4 DEF Superseded, RevisionInv, TypeOK
<1>6. /\ snapshot'[stream] \in [status : {"NONE", "EFFECTIVE", "SUPERSEDED"}, amount : Nat]
      /\ snapshot'[stream].status = "SUPERSEDED"
  BY <1>3, <1>5 DEF RevisionInv, TypeOK
<1>7. snapshot' \in [Versions -> [status : {"NONE", "EFFECTIVE", "SUPERSEDED"}, amount : Nat]]
  BY <1>3, <1>5, <1>6 DEF RevisionInv, TypeOK
<1>8. plan' \in [Installments -> PlanRows \cup {NoPlan}]
  <2>1. \A i \in Installments : plan'[i] \in PlanRows \cup {NoPlan}
    BY <1>2, RevisedTyped
  <2> DEFINE row(i) ==
        CASE i \in Removed(e, w) -> NoPlan
          [] i \in TermsOf(e) \ OldPlans -> Pending(e, i)
          [] i \in Adjusted(e, w) ->
               [Moved(e, i) EXCEPT !.amount = e.terms[i].amount, !.due = e.terms[i].due]
          [] i \in OldPlans \ (Removed(e, w) \cup Adjusted(e, w)) -> Moved(e, i)
          [] OTHER -> plan[i]
  <2>2. plan' = [i \in Installments |-> row(i)]
    BY <1>2 DEF Revised
  <2> HIDE DEF row
  <2> QED
    BY <2>1, <2>2
<1>9. inbox' \in [Events -> {"NONE", "COMPLETED", "HELD"}] /\ inbox'[e] # "NONE"
  BY <1>2 DEF Disposition, RevisionInv, TypeOK
<1>10. hold' \in [Events -> {"NONE", "PENDING_REVIEW", "RESOLVED"}]
  BY <1>2 DEF RevisionInv, TypeOK
<1>11. TypeOK'
  BY <1>2, <1>3, <1>7, <1>8, <1>9, <1>10 DEF RevisionInv, TypeOK
<1>12. \A i \in Planned' : /\ plan'[i].snap = e.version /\ plan'[i].rsnap \in {0, e.version}
                           /\ \/ plan'[i].received > 0
                              \/ plan'[i].invoiced > 0
                              => plan'[i].rsnap # 0
  <2>1. \A i \in Planned' : i \in Installments /\ plan'[i] # NoPlan
    BY DEF Planned
  <2> QED
    BY <1>2, <2>1, RevisedTyped
<1>13. RevisionInv'
  BY <1>2, <1>5, <1>6, <1>11, <1>12, MovesOn
<1>14. ASSUME NEW v \in Versions, snapshot[v].status = "SUPERSEDED" PROVE snapshot'[v] = snapshot[v]
  <2>1. v # stream
    BY <1>14 DEF RevisionInv, OneBaseline
  <2>2. v # e.version
    BY <1>2, <1>14 DEF NoSnapshot
  <2> QED
    BY <1>5, <2>1, <2>2
<1>15. Grows
  BY <1>2, <1>3, <1>14 DEF Grows
<1>16. e \in Taken
  BY <1>2, <1>9 DEF Taken
<1>17. hold'[e] = "PENDING_REVIEW" \/ LeavesTerms(e)
  <2>1. CASE Diffs(e, w) # {}
    BY <1>2, <2>1 DEF RevisionInv, TypeOK
  <2>2. CASE Diffs(e, w) = {}
    BY <1>2, <2>2, NoDiffLeavesTerms
  <2> QED
    BY <2>1, <2>2
<1>18. Accounted
  BY <1>16, <1>17 DEF Accounted
<1>19. KeepsFacts
  BY <1>2, RevisionKeepsFacts
<1> QED
  BY <1>13, <1>15, <1>18, <1>19

-----------------------------------------------------------------------------
\* The initial state satisfies the invariant.
LEMMA RevisionInit == Init => RevisionInv
<1> SUFFICES ASSUME Init PROVE RevisionInv
  OBVIOUS
<1>1. TypeOK
  BY DEF Init, TypeOK, NoSnapshot
<1>2. Planned = {}
  BY DEF Init, Planned
<1>3. OneBaseline
  BY <1>2, EventTyped DEF Init, OneBaseline, NoSnapshot
<1>4. History /\ FactsConfirmed
  BY <1>2 DEF Init, History, FactsConfirmed, NoSnapshot
<1> QED
  BY <1>1, <1>3, <1>4 DEF RevisionInv

\* A step keeps the invariant; it leaves the stream and the snapshots alone or
\* moves the contract on.
LEMMA RevisionStep ==
    ASSUME RevisionInv, [Next]_vars
    PROVE  RevisionInv' /\ (UNCHANGED <<stream, snapshot>> \/ (Grows /\ Accounted /\ KeepsFacts))
<1>1. CASE UNCHANGED vars
  <2>1. TypeOK' /\ UNCHANGED <<stream, snapshot, plan, inbox>>
    BY <1>1 DEF vars, RevisionInv, TypeOK
  <2> QED
    BY <2>1, QuietKept
<1>2. ASSUME NEW d \in Deliveries, NEW e \in Events, StartIngest(d, e)
      PROVE  RevisionInv' /\ UNCHANGED <<stream, snapshot>>
  BY <1>2, StartIngestKept
<1>3. ASSUME NEW d \in Deliveries, HoldUnbalanced(d) \/ Rollback(d)
      PROVE  RevisionInv' /\ UNCHANGED <<stream, snapshot>>
  BY <1>3, HoldUnbalancedKept, RollbackKept
<1>4. ASSUME NEW d \in Deliveries, IngestFirst(d) \/ ApplyRevision(d)
      PROVE  RevisionInv' /\ Grows /\ Accounted /\ KeepsFacts
  BY <1>4, IngestFirstKept, ApplyRevisionKept
<1>5. ASSUME NEW e \in Events, ResolveContractRevisionHold(e)
      PROVE  RevisionInv' /\ UNCHANGED <<stream, snapshot>>
  BY <1>5, ResolveKept
<1>6. CASE RequestsNext
  BY <1>6, RequestsKept
<1>7. CASE Next
  BY <1>2, <1>3, <1>4, <1>5, <1>6, <1>7 DEF Next, RequestsNext
<1> QED
  BY <1>1, <1>7

LEMMA RevisionInvariant == Spec => []RevisionInv
<1>1. RevisionInv /\ [Next]_vars => RevisionInv'
  BY RevisionStep
<1> QED
  BY <1>1, RevisionInit, PTL DEF Spec

\* The rows of a contract keep their types, whatever events are delivered.
THEOREM RevisionTypeCorrect == Spec => []TypeOK
<1>1. RevisionInv => TypeOK
  BY DEF RevisionInv
<1> QED
  BY <1>1, RevisionInvariant, PTL

\* However events, duplicates and requests interleave, the effective snapshot is
\* the one of the stream's version, and every plan and receivable hangs on it
\* (applyContractRevision moves them row by row).
THEOREM BaselineAlwaysOne == Spec => []OneBaseline
<1>1. RevisionInv => OneBaseline
  BY DEF RevisionInv
<1> QED
  BY <1>1, RevisionInvariant, PTL

\* The version of a contract only grows, and superseded snapshots stay as they are.
THEOREM ContractNeverRegresses == Spec => NeverRegresses
<1>1. RevisionInv /\ [Next]_vars => Grows
  <2> SUFFICES ASSUME RevisionInv, [Next]_vars PROVE Grows
    OBVIOUS
  <2>1. stream \in Nat
    BY EventTyped DEF RevisionInv, TypeOK
  <2>2. UNCHANGED <<stream, snapshot>> => Grows
    BY <2>1 DEF Grows
  <2> QED
    BY <2>2, RevisionStep
<1>2. Grows => [Grows]_vars
  OBVIOUS
<1> QED
  BY <1>1, RevisionInvariant, PTL DEF Spec, NeverRegresses, Grows

\* A revision leaves exactly the plans of its terms, or a review is pending.
THEOREM RevisionsAccounted == Spec => RevisionAccounted
<1>1. RevisionInv /\ [Next]_vars => (stream' # stream => Accounted)
  BY RevisionStep
<1> QED
  BY <1>1, RevisionInvariant, PTL DEF Spec, RevisionAccounted, Accounted, LeavesTerms

\* A revision never rewrites or deletes a plan with money on it and never deletes
\* one that anything refers to (revisionImplementedFacts, the foreign keys).
THEOREM FactsAlwaysKept == Spec => FactsKept
<1>1. RevisionInv /\ [Next]_vars => (stream' # stream => KeepsFacts)
  BY RevisionStep
<1> QED
  BY <1>1, RevisionInvariant, PTL DEF Spec, FactsKept, KeepsFacts
=============================================================================
