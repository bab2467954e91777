--------------------------- MODULE Dunning_proofs ---------------------------
(***************************************************************************)
(* Proofs about Dunning for every value of its constants.                  *)
(***************************************************************************)
EXTENDS Dunning, WellFoundedInduction, NaturalsInduction, TLAPS

-----------------------------------------------------------------------------
(* The invariant.                                                          *)

CaseRows == [status : {"NONE", "ACTIVE", "CLOSED"}, rcv : BOOLEAN, due : BOOLEAN,
             blind : BOOLEAN]

ActionRows == [case : Cases, user : Users, phase : Phases \cup {"REMIND"},
               status : {"PENDING", "COMPLETED", "CANCELLED"}]

\* What a worker process may be doing.
Rounds ==
    [at : {"START", "ROLE_CASES", "CANDIDATES", "SCAN", "SCAN_CASES", "REOPEN", "INITIAL",
           "DUE"}]
      \cup [at : {"DISPATCH"}, owner : Users, phase : Phases, rcv : BOOLEAN]
      \cup [at : {"CREATE"}, case : Policies]
      \cup [at : {"REPEAT"}, case : Policies, user : Users]

Transfers == [at : {"CHECKED", "APPLIED", "REJECTED"}, action : Nat, from : Users, to : Users]

FactsTyped ==
    /\ plan \in {"PENDING", "OPEN", "SETTLED"} /\ aging \in Int
    /\ owner \in Users \cup {None}
    /\ freeze \in [Users -> {"NONE", "FROZEN", "RELEASED"}]
    /\ enabled \in SUBSET Policies
    /\ cursor \in [Phases -> Users \cup {None}]
    /\ events \in Nat

TransferTyped ==
    transfer # NoTransfer => transfer \in Transfers /\ transfer.action \in DOMAIN actions

\* The types of the rows; a handover request names an action that exists.
DunningTypeOK ==
    /\ FactsTyped
    /\ case \in [Cases -> CaseRows]
    /\ actions \in Seq(ActionRows)
    /\ loop \in [Loops -> Rounds]
    /\ TransferTyped

\* How the case of the owner and those of the policies keep apart.  A policy's
\* case names the receivable, so there is none before the plan is confirmed, and
\* the keys let one of them be ACTIVE; an owner's case that names the receivable
\* excludes all of them, and so does one that was written before the plan was
\* confirmed: it came first, and the scanner looks for it.
CasesSound ==
    /\ \A k \in Policies : case[k].status # "NONE" => case[k].rcv
    /\ \A j, k \in Policies : Active(j) /\ Active(k) => j = k
    /\ Pending => \A k \in Policies : case[k].status = "NONE"
    /\ Active(Owner) /\ case[Owner].rcv => \A k \in Policies : ~ Active(k)
    /\ Active(Owner) /\ ~ case[Owner].rcv /\ ~ case[Owner].blind =>
         \A k \in Policies : case[k].status = "NONE"

\* What the scanner has found out when it is about to insert a case: the plan is
\* confirmed, and an owner's case would be met at the key or is a blind one.
OwnerSeen == ~ Pending /\ (Active(Owner) => case[Owner].rcv \/ case[Owner].blind)

LoopsSound == \A w \in Loops : At(w, "CREATE") => OwnerSeen

\* The inductive invariant.
DunningInv == DunningTypeOK /\ CasesSound /\ LoopsSound

-----------------------------------------------------------------------------
(* The step predicates of the action properties.                           *)

OncePerInterval ==
    Len(actions') > Len(actions) =>
      LET a == actions'[Len(actions')] IN
      IF a.case = Owner
      THEN cursor[a.phase] # a.user
      ELSE case[a.case].due \/ ~ Active(a.case)

FinalResult ==
    \A i \in DOMAIN actions : actions[i].status # "PENDING" => actions'[i] = actions[i]

\* No action is added and none that is done changes.
LEMMA NoneAdded ==
    ASSUME actions \in Seq(ActionRows), Len(actions') = Len(actions)
    PROVE  OncePerInterval
<1>1. Len(actions) \in Nat
  OBVIOUS
<1>2. ~ (Len(actions') > Len(actions))
  BY <1>1
<1> QED
  BY <1>2 DEF OncePerInterval

LEMMA Untouched ==
    ASSUME actions \in Seq(ActionRows), actions' = actions
    PROVE  OncePerInterval /\ FinalResult
BY NoneAdded DEF FinalResult

\* A sequence whose elements are replaced one by one.
LEMMA Replaced ==
    ASSUME NEW S, NEW s \in Seq(S), NEW f \in [DOMAIN s -> S]
    PROVE  f \in Seq(S) /\ Len(f) = Len(s) /\ DOMAIN f = DOMAIN s
<1>1. DOMAIN s = 1 .. Len(s) /\ Len(s) \in Nat
  OBVIOUS
<1>2. f \in [1 .. Len(s) -> S]
  BY <1>1
<1> QED
  BY <1>1, <1>2

\* The parts of a step put together.
LEMMA StepKept ==
    ASSUME DunningInv, FactsTyped', case' \in [Cases -> CaseRows], CasesSound',
           actions' \in Seq(ActionRows), Len(actions') >= Len(actions),
           loop' \in [Loops -> Rounds],
           \A w \in Loops : loop'[w].at = "CREATE" => loop[w].at = "CREATE" \/ OwnerSeen',
           OwnerSeen => OwnerSeen', UNCHANGED transfer
    PROVE  DunningInv'
<1>1. DOMAIN actions \subseteq DOMAIN actions'
  BY DEF DunningInv, DunningTypeOK
<1>2. TransferTyped'
  BY <1>1 DEF DunningInv, DunningTypeOK, TransferTyped
<1>3. LoopsSound'
  BY DEF DunningInv, LoopsSound, At
<1> QED
  BY <1>2, <1>3 DEF DunningInv, DunningTypeOK

\* A loop that goes on.
LEMMA GoesOn ==
    ASSUME loop \in [Loops -> Rounds], NEW w \in Loops, NEW j \in Rounds, Goes(w, j)
    PROVE  /\ loop' \in [Loops -> Rounds] /\ loop'[w] = j
           /\ \A v \in Loops \ {w} : loop'[v] = loop[v]
BY DEF Goes

\* Where a loop may go without anything in hand.
LEMMA PlainRound ==
    /\ \A step \in {"START", "ROLE_CASES", "CANDIDATES", "SCAN", "SCAN_CASES", "REOPEN",
                    "INITIAL", "DUE"} :
         [at |-> step] \in Rounds /\ [at |-> step].at # "CREATE"
    /\ \A w \in Loops : Idle(w) \in Rounds /\ Idle(w).at # "CREATE"
<1>1. \A step \in {"START", "ROLE_CASES", "CANDIDATES", "SCAN", "SCAN_CASES", "REOPEN",
                   "INITIAL", "DUE"} :
        [at |-> step] \in Rounds /\ [at |-> step].at # "CREATE"
  BY DEF Rounds
<1> QED
  BY <1>1 DEF Idle

\* What a loop has in hand.
LEMMA RoundTyped ==
    ASSUME loop \in [Loops -> Rounds], NEW w \in Loops
    PROVE  /\ At(w, "DISPATCH") => /\ loop[w].owner \in Users /\ loop[w].phase \in Phases
                                   /\ loop[w].rcv \in BOOLEAN
           /\ At(w, "CREATE") => loop[w].case \in Policies
           /\ At(w, "REPEAT") => loop[w].case \in Policies /\ loop[w].user \in Users
BY DEF At, Rounds

\* The phase of the reminder.
LEMMA PhaseTyped ==
    ASSUME FactsTyped
    PROVE  ReminderPhase \in Phases \cup {None}
<1>1. aging \in Int /\ LeadDays \in Int /\ EscalationDays \in Int
  BY DunningAssumption DEF FactsTyped
<1>2. CASE aging < - LeadDays
  BY <1>1, <1>2 DEF ReminderPhase
<1>3. CASE aging >= - LeadDays /\ Pending /\ aging <= 0
  BY <1>1, <1>3 DEF ReminderPhase, Phases
<1>4. CASE aging >= - LeadDays /\ ~ (Pending /\ aging <= 0)
  BY <1>1, <1>4 DEF ReminderPhase, Phases
<1> QED
  BY <1>1, <1>2, <1>3, <1>4

-----------------------------------------------------------------------------
(* The cases.                                                              *)

\* No case is opened: each keeps its status or is closed.
LEMMA QuieterCases ==
    ASSUME CasesSound, case \in [Cases -> CaseRows],
           \A c \in Cases : /\ case'[c].rcv = case[c].rcv
                            /\ \/ case'[c].status = case[c].status
                               \/ Active(c) /\ case'[c].status = "CLOSED"
                            /\ case'[c].status = "ACTIVE" => case'[c].blind = case[c].blind,
           Pending' => Pending
    PROVE  CasesSound' /\ (OwnerSeen => OwnerSeen')
<1>1. Owner \in Cases /\ Policies \subseteq Cases
  BY DEF Cases
<1>2. \A c \in Cases : /\ Active(c)' => Active(c)
                       /\ case'[c].status # "NONE" => case[c].status # "NONE"
  BY DEF Active
<1>3. Active(Owner)' => case'[Owner].rcv = case[Owner].rcv /\ case'[Owner].blind = case[Owner].blind
  BY <1>1 DEF Active
<1>4. CasesSound'
  BY <1>1, <1>2, <1>3 DEF CasesSound
<1>5. OwnerSeen => OwnerSeen'
  BY <1>1, <1>2, <1>3 DEF OwnerSeen
<1> QED
  BY <1>4, <1>5

\* An owner's case is opened: with the receivable only if no policy's case is
\* ACTIVE, without it before there is one or as a blind case.
LEMMA OwnerOpens ==
    ASSUME CasesSound, case \in [Cases -> CaseRows], NEW rcv \in BOOLEAN,
           ~ ActiveCaseConflict(Owner, rcv), UNCHANGED plan,
           case' = [case EXCEPT ![Owner] = [status |-> "ACTIVE", rcv |-> rcv, due |-> FALSE,
                                            blind |-> ~ rcv /\ ~ Pending]]
    PROVE  case' \in [Cases -> CaseRows] /\ CasesSound' /\ (OwnerSeen => OwnerSeen')
<1>1. Owner \in Cases /\ Policies \subseteq Cases /\ Owner \notin Policies
  BY DunningAssumption DEF Cases
<1> DEFINE row == [status |-> "ACTIVE", rcv |-> rcv, due |-> FALSE, blind |-> ~ rcv /\ ~ Pending]
<1>2. /\ row \in CaseRows /\ row.status = "ACTIVE" /\ (row.rcv <=> rcv)
      /\ (row.blind <=> ~ rcv /\ ~ Pending)
  BY DEF CaseRows
<1> HIDE DEF row
<1>3. case' = [case EXCEPT ![Owner] = row]
  BY DEF row
<1>4. /\ case' \in [Cases -> CaseRows] /\ case'[Owner] = row
      /\ \A k \in Policies : case'[k] = case[k]
  BY <1>1, <1>2, <1>3
<1>5. rcv => \A k \in Policies : ~ Active(k)
  <2>1. \A k \in Policies : Active(k) => case[k].rcv
    BY DEF CasesSound, Active
  <2> QED
    BY <1>1, <2>1 DEF ActiveCaseConflict
<1>6. \A k \in Policies : (Active(k)' <=> Active(k)) /\ case'[k] = case[k]
  BY <1>4 DEF Active
<1>7. Pending' <=> Pending
  BY DEF Pending
<1>8. Pending => \A k \in Policies : case[k].status = "NONE"
  BY DEF CasesSound
<1>9. Active(Owner)' /\ (case'[Owner].rcv <=> rcv) /\ (case'[Owner].blind <=> ~ rcv /\ ~ Pending)
  BY <1>2, <1>4 DEF Active
<1>10. CasesSound'
  BY <1>5, <1>6, <1>7, <1>8, <1>9 DEF CasesSound
<1>11. OwnerSeen => OwnerSeen'
  BY <1>7, <1>9 DEF OwnerSeen
<1> QED
  BY <1>4, <1>10, <1>11

\* A policy's case is created: the key met no other, and the scanner had looked
\* for an owner's case without the receivable.
LEMMA PolicyOpens ==
    ASSUME CasesSound, case \in [Cases -> CaseRows], NEW k \in Policies, OwnerSeen,
           ~ DuplicateKey(k, TRUE), UNCHANGED plan,
           case' = [case EXCEPT ![k] = [NoCase EXCEPT !.status = "ACTIVE", !.rcv = TRUE]]
    PROVE  case' \in [Cases -> CaseRows] /\ CasesSound' /\ OwnerSeen'
<1>1. Owner \in Cases /\ Policies \subseteq Cases /\ Owner \notin Policies
  BY DunningAssumption DEF Cases
<1> DEFINE row == [NoCase EXCEPT !.status = "ACTIVE", !.rcv = TRUE]
<1>2. row \in CaseRows /\ row.status = "ACTIVE" /\ row.rcv = TRUE
  BY DEF CaseRows, NoCase
<1> HIDE DEF row
<1>3. case' = [case EXCEPT ![k] = row]
  BY DEF row
<1>4. /\ case' \in [Cases -> CaseRows] /\ case'[k] = row
      /\ \A c \in Cases \ {k} : case'[c] = case[c]
  BY <1>1, <1>2, <1>3
<1>5. case'[Owner] = case[Owner] /\ (Active(Owner)' <=> Active(Owner))
  BY <1>1, <1>4 DEF Active
<1>6. \A j \in Policies \ {k} : ~ Active(j)
  <2>1. \A j \in Policies : Active(j) => case[j].rcv
    BY DEF CasesSound, Active
  <2> QED
    BY <1>1, <2>1 DEF DuplicateKey
<1>7. Active(Owner) => ~ case[Owner].rcv /\ case[Owner].blind
  BY <1>1 DEF DuplicateKey, OwnerSeen
<1>8. ~ Pending /\ ~ Pending'
  BY DEF OwnerSeen, Pending
<1>9. \A j \in Policies \ {k} : case'[j] = case[j] /\ ~ Active(j)'
  BY <1>1, <1>4, <1>6 DEF Active
<1>10. case'[k].rcv
  BY <1>2, <1>4
<1>11. CasesSound'
  BY <1>5, <1>7, <1>8, <1>9, <1>10 DEF CasesSound
<1>12. OwnerSeen'
  BY <1>5, <1>7, <1>8 DEF OwnerSeen
<1> QED
  BY <1>4, <1>11, <1>12

\* The next action of a case is due or put off.
LEMMA DuePutOff ==
    ASSUME case \in [Cases -> CaseRows], NEW k \in Policies, NEW b \in BOOLEAN,
           case' = [case EXCEPT ![k].due = b]
    PROVE  /\ case' \in [Cases -> CaseRows]
           /\ \A c \in Cases : /\ case'[c].rcv = case[c].rcv /\ case'[c].status = case[c].status
                                /\ case'[c].blind = case[c].blind
<1>1. k \in Cases
  BY DEF Cases
<1> DEFINE row == [case[k] EXCEPT !.due = b]
<1>2. /\ row \in CaseRows /\ row.rcv = case[k].rcv /\ row.status = case[k].status
      /\ row.blind = case[k].blind
  BY <1>1 DEF CaseRows
<1>3. case' = [case EXCEPT ![k] = row]
  OBVIOUS
<1> HIDE DEF row
<1> QED
  BY <1>1, <1>2, <1>3

LEMMA Antisymmetric ==
    \A x, y \in Nat : x <= y /\ y <= x => x = y
OBVIOUS

\* At most one closed case is opened again, when no case of the receivable is
\* ACTIVE: no two policies rank the same.
LEMMA CaseReopens ==
    ASSUME CasesSound, case \in [Cases -> CaseRows], enabled \in SUBSET Policies, UNCHANGED plan,
           case' = [c \in Cases |->
             IF /\ c \in Policies /\ Reopenable(c)
                /\ plan = "OPEN" /\ Overdue(c)
                /\ ~ \E d \in Cases : Active(d) /\ case[d].rcv
             THEN [case[c] EXCEPT !.status = "ACTIVE", !.due = TRUE] ELSE case[c]]
    PROVE  case' \in [Cases -> CaseRows] /\ CasesSound' /\ (OwnerSeen => OwnerSeen')
<1>1. Owner \in Cases /\ Policies \subseteq Cases /\ Owner \notin Policies
  BY DunningAssumption DEF Cases
<1> DEFINE Opens(c) == /\ c \in Policies /\ Reopenable(c)
                       /\ plan = "OPEN" /\ Overdue(c)
                       /\ ~ \E d \in Cases : Active(d) /\ case[d].rcv
           row(c) == [case[c] EXCEPT !.status = "ACTIVE", !.due = TRUE]
<1>2. \A c \in Cases : /\ row(c) \in CaseRows /\ row(c).status = "ACTIVE"
                       /\ row(c).rcv = case[c].rcv /\ case[c] \in CaseRows
  BY DEF CaseRows
<1>3. \A c \in Cases : case'[c] = IF Opens(c) THEN row(c) ELSE case[c]
  OBVIOUS
<1>4. \A c \in Cases : /\ Opens(c) => c \in Policies /\ Reopenable(c) /\ plan = "OPEN"
                       /\ Opens(c) => ~ \E d \in Cases : Active(d) /\ case[d].rcv
  OBVIOUS
<1>5. DOMAIN case' = Cases /\ case' = [c \in Cases |-> case'[c]]
  OBVIOUS
<1> HIDE DEF Opens, row
<1>6. case' \in [Cases -> CaseRows]
  BY <1>2, <1>3, <1>5
<1>7. case'[Owner] = case[Owner] /\ (Active(Owner)' <=> Active(Owner))
  BY <1>1, <1>3, <1>4 DEF Active
<1>8. \A k \in Policies : case[k].status # "NONE" => case[k].rcv
  BY DEF CasesSound
<1>9. \A k \in Policies : /\ Active(k)' <=> Active(k) \/ Opens(k)
                          /\ Opens(k) => case[k].status = "CLOSED"
                          /\ ~ Opens(k) => case'[k] = case[k]
                          /\ case'[k].rcv = case[k].rcv
  BY <1>1, <1>2, <1>3, <1>4 DEF Active, Reopenable
<1>10. ASSUME NEW j \in Policies, Opens(j) PROVE \A k \in Policies : ~ Active(k)
  BY <1>1, <1>4, <1>8, <1>10 DEF Active
<1>11. ASSUME NEW j \in Policies, NEW k \in Policies, Opens(j), Opens(k) PROVE j = k
  <2>1. Reopenable(j) /\ Reopenable(k)
    BY <1>1, <1>4, <1>11
  <2>2. Rank[j] <= Rank[k] /\ Rank[k] <= Rank[j]
    BY <2>1 DEF Reopenable
  <2>3. Rank[j] \in Nat /\ Rank[k] \in Nat
    BY DunningAssumption
  <2>4. Rank[j] = Rank[k]
    BY ONLY <2>2, <2>3, Antisymmetric
  <2>5. \A x, y \in Policies : Rank[x] = Rank[y] => x = y
    BY ONLY DunningAssumption, Zenon
  <2> QED
    BY ONLY <2>4, <2>5, j \in Policies, k \in Policies
<1>12. ASSUME NEW j \in Policies, NEW k \in Policies, Active(j)', Active(k)' PROVE j = k
  BY <1>9, <1>10, <1>11, <1>12 DEF CasesSound
<1>13. Pending' => \A k \in Policies : case'[k].status = "NONE"
  <2>1. Pending' => plan = "PENDING" /\ Pending
    BY DEF Pending
  <2> QED
    BY <1>1, <1>4, <1>9, <2>1 DEF CasesSound
<1>14. Active(Owner)' /\ case'[Owner].rcv => \A k \in Policies : ~ Active(k)'
  BY <1>1, <1>4, <1>7, <1>9 DEF CasesSound
<1>15. Active(Owner)' /\ ~ case'[Owner].rcv /\ ~ case'[Owner].blind =>
         \A k \in Policies : case'[k].status = "NONE"
  <2>1. Active(Owner) /\ ~ case[Owner].rcv /\ ~ case[Owner].blind =>
          \A k \in Policies : case[k].status = "NONE"
    BY DEF CasesSound
  <2>2. \A k \in Policies : case[k].status = "NONE" => case'[k] = case[k]
    BY <1>9
  <2> QED
    BY <1>7, <2>1, <2>2
<1>16. \A k \in Policies : case'[k].status # "NONE" => case'[k].rcv
  BY <1>8, <1>9
<1>17. CasesSound'
  BY <1>12, <1>13, <1>14, <1>15, <1>16 DEF CasesSound
<1>18. OwnerSeen => OwnerSeen'
  BY <1>7 DEF OwnerSeen, Pending
<1> QED
  BY <1>6, <1>17, <1>18

-----------------------------------------------------------------------------
(* The actions.                                                            *)

\* The action a reminder adds.
LEMMA ActionAdded ==
    ASSUME actions \in Seq(ActionRows), NEW c \in Cases, NEW u \in Users,
           NEW ph \in Phases \cup {"REMIND"}, InsertAction(c, u, ph)
    PROVE  /\ actions' \in Seq(ActionRows) /\ Len(actions') = Len(actions) + 1
           /\ Len(actions') >= Len(actions) /\ FinalResult
           /\ actions'[Len(actions')].case = c /\ actions'[Len(actions')].user = u
           /\ actions'[Len(actions')].phase = ph
<1> DEFINE a == [case |-> c, user |-> u, phase |-> ph, status |-> "PENDING"]
<1>1. a \in ActionRows /\ a.case = c /\ a.user = u /\ a.phase = ph
  BY DEF ActionRows
<1>2. actions' = Append(actions, a)
  BY DEF InsertAction
<1> HIDE DEF a
<1>3. /\ actions' \in Seq(ActionRows) /\ Len(actions') = Len(actions) + 1
      /\ actions'[Len(actions) + 1] = a /\ Len(actions) \in Nat
      /\ \A i \in DOMAIN actions : actions'[i] = actions[i]
  BY <1>1, <1>2
<1> QED
  BY <1>1, <1>3 DEF FinalResult

\* Some actions that are pending are cancelled.
LEMMA ActionsCancelled ==
    ASSUME actions \in Seq(ActionRows), NEW D,
           actions' = [i \in DOMAIN actions |->
             IF i \in D THEN [actions[i] EXCEPT !.status = "CANCELLED"] ELSE actions[i]],
           \A i \in DOMAIN actions : i \in D => actions[i].status = "PENDING"
    PROVE  /\ actions' \in Seq(ActionRows) /\ Len(actions') >= Len(actions)
           /\ OncePerInterval /\ FinalResult
<1>1. \A i \in DOMAIN actions : /\ actions[i] \in ActionRows
                                /\ [actions[i] EXCEPT !.status = "CANCELLED"] \in ActionRows
  <2>1. \A a \in ActionRows : [a EXCEPT !.status = "CANCELLED"] \in ActionRows
    BY DEF ActionRows
  <2>2. \A i \in DOMAIN actions : actions[i] \in ActionRows
    OBVIOUS
  <2> QED
    BY <2>1, <2>2
<1>2. actions' \in [DOMAIN actions -> ActionRows]
  BY <1>1
<1>3. actions' \in Seq(ActionRows) /\ Len(actions') = Len(actions)
  BY <1>2, Replaced
<1>4. Len(actions') >= Len(actions)
  BY <1>3
<1>5. FinalResult
  BY DEF FinalResult
<1> QED
  BY <1>3, <1>4, <1>5, NoneAdded

\* One action that is pending changes.
LEMMA ActionChanged ==
    ASSUME actions \in Seq(ActionRows), NEW i \in DOMAIN actions, NEW row \in ActionRows,
           actions[i].status = "PENDING", actions' = [actions EXCEPT ![i] = row]
    PROVE  /\ actions' \in Seq(ActionRows) /\ Len(actions') = Len(actions)
           /\ OncePerInterval /\ FinalResult
<1>1. actions' \in [DOMAIN actions -> ActionRows]
  OBVIOUS
<1>2. actions' \in Seq(ActionRows) /\ Len(actions') = Len(actions)
  BY <1>1, Replaced
<1>3. FinalResult
  BY DEF FinalResult
<1> QED
  BY <1>2, <1>3, NoneAdded

\* A set of action numbers has a last one.
LEMMA LatestExists ==
    ASSUME NEW n \in Nat, NEW L \in SUBSET (1 .. n), L # {}
    PROVE  \E i \in L : \A j \in L : j <= i
<1> DEFINE T == {n - i : i \in L}
           R == OpToRel(<, Nat)
<1>1. PICK m \in T : \A y \in T : <<y, m>> \notin R
  <2>1. IsWellFoundedOn(R, Nat)
    BY NatLessThanWellFounded
  <2>2. T \subseteq Nat
    <3>1. \A i \in L : n - i \in Nat
      OBVIOUS
    <3> QED
      BY <3>1
  <2>3. T # {}
    OBVIOUS
  <2> HIDE DEF T, R
  <2> QED
    BY <2>1, <2>2, <2>3, WFMin
<1>2. PICK i \in L : m = n - i
  OBVIOUS
<1>3. ASSUME NEW j \in L PROVE j <= i
  <2>1. n - j \in T /\ n - j \in Nat /\ m \in Nat
    BY <1>2
  <2>2. ~ (n - j < m)
    BY <1>1, <2>1 DEF OpToRel
  <2> QED
    BY <1>2, <2>1, <2>2
<1> QED
  BY <1>3

\* The recipient of a case is a user.
LEMMA RecipientTyped ==
    ASSUME actions \in Seq(ActionRows), NEW k \in Policies
    PROVE  Recipient(k) \in Users
<1> DEFINE live == {i \in DOMAIN actions :
                      actions[i].case = k /\ actions[i].status \in {"PENDING", "COMPLETED"}}
<1>1. CASE live = {}
  BY <1>1, DunningAssumption DEF Recipient
<1>2. CASE live # {}
  <2>1. \E i \in live : \A j \in live : j <= i
    <3>1. live \in SUBSET (1 .. Len(actions)) /\ Len(actions) \in Nat
      OBVIOUS
    <3> HIDE DEF live
    <3> QED
      BY <1>2, <3>1, LatestExists
  <2>2. PICK i \in live : i = CHOOSE x \in live : \A j \in live : j <= x
    <3> HIDE DEF live
    <3> QED
      BY <2>1
  <2>3. Recipient(k) = actions[i].user
    BY <1>2, <2>2 DEF Recipient
  <2>4. actions[i] \in ActionRows
    OBVIOUS
  <2> QED
    BY <2>3, <2>4 DEF ActionRows
<1> QED
  BY <1>1, <1>2

-----------------------------------------------------------------------------
(* The steps.                                                              *)

\* What every step keeps.
Kept == DunningInv' /\ OncePerInterval /\ FinalResult

\* A step that touches neither cases nor actions.
LEMMA QuietStep ==
    ASSUME DunningInv, FactsTyped', UNCHANGED <<case, actions, transfer>>, Pending' => Pending,
           loop' \in [Loops -> Rounds],
           \A w \in Loops : loop'[w].at = "CREATE" => loop[w].at = "CREATE" \/ OwnerSeen'
    PROVE  Kept
<1>1. case \in [Cases -> CaseRows] /\ CasesSound /\ actions \in Seq(ActionRows)
  BY DEF DunningInv, DunningTypeOK
<1>2. CasesSound' /\ (OwnerSeen => OwnerSeen')
  BY <1>1, QuieterCases
<1>3. Len(actions') >= Len(actions)
  BY <1>1
<1>4. DunningInv'
  BY <1>1, <1>2, <1>3, StepKept
<1> QED
  BY <1>1, <1>4, Untouched DEF Kept

\* Events from outside the loops.
LEMMA EventStep ==
    ASSUME DunningInv, Elsewhere,
           plan' \in {"PENDING", "OPEN", "SETTLED"}, aging' \in Int, owner' \in Users \cup {None},
           freeze' \in [Users -> {"NONE", "FROZEN", "RELEASED"}], enabled' \in SUBSET Policies,
           Pending' => Pending
    PROVE  Kept
<1>1. events' \in Nat /\ cursor' = cursor
  BY DEF Elsewhere, Event, DunningInv, DunningTypeOK, FactsTyped
<1>2. FactsTyped'
  BY <1>1 DEF FactsTyped, DunningInv, DunningTypeOK
<1>3. UNCHANGED <<case, actions, transfer, loop>>
  BY DEF Elsewhere
<1>4. loop' \in [Loops -> Rounds]
  BY <1>3 DEF DunningInv, DunningTypeOK
<1> QED
  BY <1>2, <1>3, <1>4, QuietStep

\* A step of a worker process that does not go on to insert a case.
LEMMA RoundStep ==
    ASSUME DunningInv, NEW w \in Loops, NEW j \in Rounds, Goes(w, j), j.at # "CREATE",
           UNCHANGED <<facts, transfer, events>>, cursor' \in [Phases -> Users \cup {None}],
           case' \in [Cases -> CaseRows], CasesSound', OwnerSeen => OwnerSeen',
           actions' \in Seq(ActionRows), Len(actions') >= Len(actions)
    PROVE  DunningInv'
<1>1. FactsTyped'
  BY DEF DunningInv, DunningTypeOK, FactsTyped, facts
<1>2. /\ loop' \in [Loops -> Rounds] /\ loop'[w] = j
      /\ \A v \in Loops \ {w} : loop'[v] = loop[v]
  BY GoesOn DEF DunningInv, DunningTypeOK
<1>3. \A v \in Loops : loop'[v].at = "CREATE" => loop[v].at = "CREATE"
  BY <1>2
<1> QED
  BY <1>1, <1>2, <1>3, StepKept

\* The same, when no action is added or changed and no case is opened.
LEMMA QuietRound ==
    ASSUME DunningInv, NEW w \in Loops, NEW j \in Rounds, Goes(w, j), j.at # "CREATE",
           UNCHANGED <<facts, transfer, events, actions>>, cursor' \in [Phases -> Users \cup {None}],
           case' \in [Cases -> CaseRows],
           \A c \in Cases : /\ case'[c].rcv = case[c].rcv
                            /\ \/ case'[c].status = case[c].status
                               \/ Active(c) /\ case'[c].status = "CLOSED"
                            /\ case'[c].status = "ACTIVE" => case'[c].blind = case[c].blind
    PROVE  Kept
<1>1. case \in [Cases -> CaseRows] /\ CasesSound /\ actions \in Seq(ActionRows)
  BY DEF DunningInv, DunningTypeOK
<1>2. Pending' => Pending
  BY DEF Pending, facts
<1>3. CasesSound' /\ (OwnerSeen => OwnerSeen')
  BY <1>1, <1>2, QuieterCases
<1>4. actions' \in Seq(ActionRows) /\ Len(actions') >= Len(actions)
  BY <1>1
<1>5. DunningInv'
  BY <1>3, <1>4, RoundStep
<1> QED
  BY <1>1, <1>5, Untouched DEF Kept

\* Nothing but the loop and perhaps a cursor changes.
LEMMA PlainStep ==
    ASSUME DunningInv, NEW w \in Loops, NEW j \in Rounds, Goes(w, j), j.at # "CREATE",
           UNCHANGED <<facts, transfer, events, actions, case>>,
           cursor' \in [Phases -> Users \cup {None}]
    PROVE  Kept
<1>1. case' \in [Cases -> CaseRows]
  BY DEF DunningInv, DunningTypeOK
<1> QED
  BY <1>1, QuietRound

\* The plans, the calendar, the owner, the policies and the handover batches.
LEMMA OutsideKept ==
    ASSUME DunningInv,
           \/ ConfirmPlan \/ SettleOrReverse \/ ChangeOwner \/ DayPasses
           \/ \E k \in Policies : CreateDunningPolicy(k)
           \/ \E u \in Leavers : Freeze(u) \/ CompleteHandover(u)
    PROVE  Kept
<1>1. FactsTyped
  BY DEF DunningInv, DunningTypeOK
<1>2. CASE ConfirmPlan
  BY <1>1, <1>2, EventStep DEF ConfirmPlan, FactsTyped, Pending
<1>3. CASE SettleOrReverse
  BY <1>1, <1>3, EventStep DEF SettleOrReverse, FactsTyped, Pending
<1>4. CASE ChangeOwner
  BY <1>1, <1>4, EventStep DEF ChangeOwner, FactsTyped, Pending
<1>5. CASE DayPasses
  <2>1. aging' \in Int
    BY <1>1, <1>5 DEF DayPasses, FactsTyped
  <2> QED
    BY <1>1, <1>5, <2>1, EventStep DEF DayPasses, FactsTyped, Pending
<1>6. CASE \E k \in Policies : CreateDunningPolicy(k)
  BY <1>1, <1>6, EventStep DEF CreateDunningPolicy, FactsTyped, Pending
<1>7. CASE \E u \in Leavers : Freeze(u) \/ CompleteHandover(u)
  <2>1. freeze' \in [Users -> {"NONE", "FROZEN", "RELEASED"}]
    BY <1>1, <1>7 DEF Freeze, CompleteHandover, FactsTyped
  <2> QED
    BY <1>1, <1>7, <2>1, EventStep DEF Freeze, CompleteHandover, FactsTyped, Pending
<1> QED
  BY <1>2, <1>3, <1>4, <1>5, <1>6, <1>7

\* The statements that cancel actions.
LEMMA CancelKept ==
    ASSUME DunningInv, NEW w \in Loops, CloseRoleActions(w) \/ CloseSettledActions(w)
    PROVE  Kept
<1>1. /\ case \in [Cases -> CaseRows] /\ CasesSound /\ actions \in Seq(ActionRows)
      /\ cursor \in [Phases -> Users \cup {None}]
  BY DEF DunningInv, DunningTypeOK, FactsTyped
<1>2. PICK j \in Rounds : Goes(w, j) /\ j.at # "CREATE"
  BY PlainRound DEF CloseRoleActions, CloseSettledActions
<1>3. \E D : /\ actions' = [i \in DOMAIN actions |->
                   IF i \in D THEN [actions[i] EXCEPT !.status = "CANCELLED"] ELSE actions[i]]
             /\ \A i \in DOMAIN actions : i \in D => actions[i].status = "PENDING"
  <2>1. CASE CloseRoleActions(w)
    <3> DEFINE D == {i \in DOMAIN actions : StaleRoleAction(actions[i])}
    <3>1. actions' = [i \in DOMAIN actions |->
            IF i \in D THEN [actions[i] EXCEPT !.status = "CANCELLED"] ELSE actions[i]]
      BY <2>1 DEF CloseRoleActions, Cancel
    <3>2. \A i \in DOMAIN actions : i \in D => actions[i].status = "PENDING"
      BY DEF StaleRoleAction
    <3> QED
      BY <3>1, <3>2
  <2>2. CASE CloseSettledActions(w)
    <3> DEFINE D == {i \in DOMAIN actions : SettledAction(actions[i])}
    <3>1. actions' = [i \in DOMAIN actions |->
            IF i \in D THEN [actions[i] EXCEPT !.status = "CANCELLED"] ELSE actions[i]]
      BY <2>2 DEF CloseSettledActions, Cancel
    <3>2. \A i \in DOMAIN actions : i \in D => actions[i].status = "PENDING"
      BY DEF SettledAction
    <3> QED
      BY <3>1, <3>2
  <2> QED
    BY <2>1, <2>2
<1>4. /\ actions' \in Seq(ActionRows) /\ Len(actions') >= Len(actions)
      /\ OncePerInterval /\ FinalResult
  BY <1>1, <1>3, ActionsCancelled
<1>5. UNCHANGED <<facts, case, cursor, transfer, events>>
  BY DEF CloseRoleActions, CloseSettledActions
<1>6. Pending' => Pending
  BY <1>5 DEF Pending, facts
<1>7. CasesSound' /\ (OwnerSeen => OwnerSeen')
  BY <1>1, <1>5, <1>6, QuieterCases
<1>8. DunningInv'
  BY <1>1, <1>2, <1>4, <1>5, <1>7, RoundStep
<1> QED
  BY <1>4, <1>8 DEF Kept

\* The statements that close cases.
LEMMA CloseKept ==
    ASSUME DunningInv, NEW w \in Loops, CloseRoleCases(w) \/ CloseSettledCases(w)
    PROVE  Kept
<1>1. case \in [Cases -> CaseRows] /\ cursor \in [Phases -> Users \cup {None}]
  BY DEF DunningInv, DunningTypeOK, FactsTyped
<1>2. PICK j \in Rounds : Goes(w, j) /\ j.at # "CREATE"
  BY PlainRound DEF CloseRoleCases, CloseSettledCases
<1> DEFINE row(c) == [case[c] EXCEPT !.status = "CLOSED", !.due = FALSE, !.blind = FALSE]
<1>3. \A c \in Cases : /\ case[c] \in CaseRows /\ row(c) \in CaseRows
                       /\ row(c).status = "CLOSED" /\ row(c).rcv = case[c].rcv
  BY <1>1 DEF CaseRows
<1>4. \E D : case' = [c \in Cases |-> IF Active(c) /\ c \in D THEN row(c) ELSE case[c]]
  <2>1. CASE CloseRoleCases(w)
    <3> DEFINE D == {c \in Cases : c = Owner /\ (Settled \/ owner = None)}
    <3>1. case' = [c \in Cases |-> IF Active(c) /\ c \in D THEN row(c) ELSE case[c]]
      BY <2>1 DEF CloseRoleCases, Close
    <3> QED
      BY <3>1
  <2>2. CASE CloseSettledCases(w)
    <3> DEFINE D == {c \in Cases : case[c].rcv /\ Settled}
    <3>1. case' = [c \in Cases |-> IF Active(c) /\ c \in D THEN row(c) ELSE case[c]]
      BY <2>2 DEF CloseSettledCases, Close
    <3> QED
      BY <3>1
  <2> QED
    BY <2>1, <2>2
<1> HIDE DEF row
<1>5. /\ case' \in [Cases -> CaseRows]
      /\ \A c \in Cases : case'[c] = case[c] \/ (Active(c) /\ case'[c] = row(c))
  BY <1>3, <1>4
<1>6. \A c \in Cases : /\ case'[c].rcv = case[c].rcv
                       /\ \/ case'[c].status = case[c].status
                          \/ Active(c) /\ case'[c].status = "CLOSED"
                       /\ case'[c].status = "ACTIVE" => case'[c].blind = case[c].blind
  BY <1>3, <1>5
<1>7. UNCHANGED <<facts, actions, cursor, transfer, events>>
  BY DEF CloseRoleCases, CloseSettledCases
<1> QED
  BY <1>1, <1>2, <1>5, <1>6, <1>7, QuietRound

\* What a round reads.
LEMMA ReadKept ==
    ASSUME DunningInv, NEW w \in Loops,
           \/ ReadCandidates(w) \/ ReadInitial(w) \/ ReadDue(w) \/ ScanFails(w)
    PROVE  Kept
<1>1. /\ FactsTyped /\ case \in [Cases -> CaseRows] /\ actions \in Seq(ActionRows)
      /\ loop \in [Loops -> Rounds] /\ cursor \in [Phases -> Users \cup {None}]
  BY DEF DunningInv, DunningTypeOK, FactsTyped
<1>2. UNCHANGED <<facts, case, actions, cursor, transfer, events>>
  BY DEF ReadCandidates, ReadInitial, ReadDue, ScanFails
<1>3. CASE ReadCandidates(w)
  <2>1. CASE IsCandidate
    <3> DEFINE j == [at |-> "DISPATCH", owner |-> owner, phase |-> ReminderPhase, rcv |-> ~ Pending]
    <3>1. owner \in Users /\ ReminderPhase \in Phases
      BY <1>1, <2>1, PhaseTyped DEF IsCandidate, FactsTyped
    <3>2. j \in Rounds /\ j.at # "CREATE"
      BY <3>1 DEF Rounds
    <3>3. Goes(w, j)
      BY <1>3, <2>1 DEF ReadCandidates
    <3> HIDE DEF j
    <3> QED
      BY <1>1, <1>2, <3>2, <3>3, PlainStep
  <2>2. CASE ~ IsCandidate
    <3>1. Goes(w, [at |-> "SCAN"])
      BY <1>3, <2>2 DEF ReadCandidates
    <3> QED
      BY <1>1, <1>2, <3>1, PlainRound, PlainStep
  <2> QED
    BY <2>1, <2>2
<1>4. CASE ReadInitial(w)
  <2>1. CASE Goes(w, [at |-> "DUE"])
    BY <1>1, <1>2, <2>1, PlainRound, PlainStep
  <2>2. CASE \E k \in Policies :
               /\ Ruling(k) /\ plan = "OPEN" /\ case[k].status = "NONE"
               /\ ~ Frozen(Rule[k]) /\ ~ ActiveCaseConflict(k, TRUE)
               /\ Goes(w, [at |-> "CREATE", case |-> k])
    <3>1. PICK k \in Policies : /\ plan = "OPEN" /\ ~ ActiveCaseConflict(k, TRUE)
                                /\ Goes(w, [at |-> "CREATE", case |-> k])
      BY <2>2
    <3> DEFINE j == [at |-> "CREATE", case |-> k]
    <3>2. j \in Rounds
      BY DEF Rounds
    <3>3. Goes(w, j)
      BY <3>1
    <3> HIDE DEF j
    <3>4. OwnerSeen
      <4>1. Owner \in Cases \ {k}
        BY DunningAssumption DEF Cases
      <4> QED
        BY <3>1, <4>1 DEF OwnerSeen, Pending, ActiveCaseConflict
    <3>5. OwnerSeen'
      BY <1>2, <3>4 DEF OwnerSeen, Pending, Active, facts
    <3>6. loop' \in [Loops -> Rounds] /\ \A v \in Loops \ {w} : loop'[v] = loop[v]
      BY <1>1, <3>2, <3>3, GoesOn
    <3>7. FactsTyped'
      BY <1>1, <1>2 DEF FactsTyped, facts
    <3>8. Pending' => Pending
      BY <1>2 DEF Pending, facts
    <3> QED
      BY <1>2, <3>5, <3>6, <3>7, <3>8, QuietStep
  <2> QED
    BY <1>4, <2>1, <2>2 DEF ReadInitial
<1>5. CASE ReadDue(w)
  <2>1. CASE Goes(w, Idle(w))
    BY <1>1, <1>2, <2>1, PlainRound, PlainStep
  <2>2. CASE \E k \in Policies : Goes(w, [at |-> "REPEAT", case |-> k, user |-> Recipient(k)])
    <3>1. PICK k \in Policies : Goes(w, [at |-> "REPEAT", case |-> k, user |-> Recipient(k)])
      BY <2>2
    <3> DEFINE j == [at |-> "REPEAT", case |-> k, user |-> Recipient(k)]
    <3>2. Recipient(k) \in Users
      BY <1>1, RecipientTyped
    <3>3. j \in Rounds /\ j.at # "CREATE"
      BY <3>2 DEF Rounds
    <3>4. Goes(w, j)
      BY <3>1
    <3> HIDE DEF j
    <3> QED
      BY <1>1, <1>2, <3>3, <3>4, PlainStep
  <2> QED
    BY <1>5, <2>1, <2>2 DEF ReadDue
<1>6. CASE ScanFails(w)
  <2>1. Goes(w, Idle(w))
    BY <1>6 DEF ScanFails
  <2> QED
    BY <1>1, <1>2, <2>1, PlainRound, PlainStep
<1> QED
  BY <1>3, <1>4, <1>5, <1>6

\* What is put off: the cursor of a candidate, the next action of a case.
LEMMA DeferKept ==
    ASSUME DunningInv, NEW w \in Loops, DeferCandidate(w) \/ DeferCase(w)
    PROVE  Kept
<1>1. /\ FactsTyped /\ case \in [Cases -> CaseRows] /\ loop \in [Loops -> Rounds]
      /\ cursor \in [Phases -> Users \cup {None}] /\ owner \in Users \cup {None}
  BY DEF DunningInv, DunningTypeOK, FactsTyped
<1>2. CASE DeferCandidate(w)
  <2>1. /\ Goes(w, [at |-> "SCAN"]) /\ UNCHANGED <<facts, case, actions, transfer, events>>
        /\ loop[w].phase \in Phases
    BY <1>1, <1>2, RoundTyped DEF DeferCandidate
  <2>2. cursor' \in [Phases -> Users \cup {None}]
    BY <1>1, <1>2, <2>1 DEF DeferCandidate, SetCursor
  <2> QED
    BY <2>1, <2>2, PlainRound, PlainStep
<1>3. CASE DeferCase(w)
  <2>1. PICK k \in Policies : case' = [case EXCEPT ![k].due = FALSE]
    BY <1>3 DEF DeferCase
  <2>2. Goes(w, Idle(w)) /\ UNCHANGED <<facts, actions, cursor, transfer, events>>
    BY <1>3 DEF DeferCase
  <2>3. /\ case' \in [Cases -> CaseRows]
        /\ \A c \in Cases : /\ case'[c].rcv = case[c].rcv /\ case'[c].status = case[c].status
                             /\ case'[c].blind = case[c].blind
    BY <1>1, <2>1, DuePutOff
  <2> QED
    BY <1>1, <2>2, <2>3, PlainRound, QuietRound
<1> QED
  BY <1>2, <1>3

LEMMA IntervalKept ==
    ASSUME DunningInv, IntervalEnds
    PROVE  Kept
<1>1. /\ FactsTyped /\ case \in [Cases -> CaseRows] /\ loop \in [Loops -> Rounds] /\ CasesSound
      /\ cursor \in [Phases -> Users \cup {None}] /\ actions \in Seq(ActionRows)
  BY DEF DunningInv, DunningTypeOK, FactsTyped
<1>2. UNCHANGED <<facts, actions, loop, transfer, events>>
  BY DEF IntervalEnds
<1>3. cursor' \in [Phases -> Users \cup {None}]
  BY <1>1 DEF IntervalEnds
<1>4. /\ case' \in [Cases -> CaseRows]
      /\ \A c \in Cases : /\ case'[c].rcv = case[c].rcv /\ case'[c].status = case[c].status
                           /\ case'[c].blind = case[c].blind
  <2>1. CASE UNCHANGED case
    BY <1>1, <2>1
  <2>2. CASE \E k \in Policies : case' = [case EXCEPT ![k].due = TRUE]
    BY <1>1, <2>2, DuePutOff
  <2> QED
    BY <2>1, <2>2 DEF IntervalEnds
<1>5. FactsTyped'
  BY <1>1, <1>2, <1>3 DEF FactsTyped, facts
<1>6. CasesSound' /\ (OwnerSeen => OwnerSeen')
  <2>1. Pending' => Pending
    BY <1>2 DEF Pending, facts
  <2> QED
    BY <1>1, <1>4, <2>1, QuieterCases
<1>7. Len(actions') >= Len(actions)
  BY <1>1, <1>2
<1>8. DunningInv'
  BY <1>1, <1>2, <1>4, <1>5, <1>6, <1>7, StepKept
<1> QED
  BY <1>1, <1>2, <1>8, Untouched DEF Kept

LEMMA ReopenKept ==
    ASSUME DunningInv, NEW w \in Loops, ReopenSettled(w)
    PROVE  Kept
<1>1. /\ FactsTyped /\ case \in [Cases -> CaseRows] /\ CasesSound /\ enabled \in SUBSET Policies
      /\ cursor \in [Phases -> Users \cup {None}] /\ actions \in Seq(ActionRows)
  BY DEF DunningInv, DunningTypeOK, FactsTyped
<1>2. Goes(w, [at |-> "INITIAL"]) /\ UNCHANGED <<facts, actions, cursor, transfer, events>>
  BY DEF ReopenSettled
<1>3. plan' = plan
  BY <1>2 DEF facts
<1>4. case' \in [Cases -> CaseRows] /\ CasesSound' /\ (OwnerSeen => OwnerSeen')
  BY <1>1, <1>3, CaseReopens DEF ReopenSettled
<1>5. actions' \in Seq(ActionRows) /\ Len(actions') >= Len(actions)
  BY <1>1, <1>2
<1>6. DunningInv'
  BY <1>1, <1>2, <1>4, <1>5, PlainRound, RoundStep
<1> QED
  BY <1>1, <1>2, <1>6, Untouched DEF Kept

\* dispatch: the cursor is set or an action is added for an owner whose interval
\* has ended.
LEMMA DispatchKept ==
    ASSUME DunningInv, NEW w \in Loops, Dispatch(w)
    PROVE  Kept
<1>1. /\ FactsTyped /\ case \in [Cases -> CaseRows] /\ CasesSound /\ loop \in [Loops -> Rounds]
      /\ cursor \in [Phases -> Users \cup {None}] /\ actions \in Seq(ActionRows)
  BY DEF DunningInv, DunningTypeOK, FactsTyped
<1>2. /\ Goes(w, [at |-> "SCAN"]) /\ UNCHANGED <<facts, transfer, events>>
      /\ loop[w].owner \in Users /\ loop[w].phase \in Phases /\ loop[w].rcv \in BOOLEAN
  BY <1>1, RoundTyped DEF Dispatch
<1>3. CASE ~ StillCandidate(w)
  <2>1. UNCHANGED <<case, actions, cursor>>
    BY <1>3 DEF Dispatch
  <2> QED
    BY <1>1, <1>2, <2>1, PlainRound, PlainStep
<1>4. CASE StillCandidate(w)
  <2>1. /\ owner \in Users /\ owner \in Users \cup {None} /\ cursor[loop[w].phase] # owner
        /\ DeferOverlap(w) \/ Remind(w)
    BY <1>2, <1>4 DEF StillCandidate, Dispatch
  <2>2. cursor' \in [Phases -> Users \cup {None}]
    BY <1>1, <1>2, <2>1 DEF DeferOverlap, Remind, SetCursor
  <2>3. CASE DeferOverlap(w)
    <3>1. UNCHANGED <<case, actions>>
      BY <2>3 DEF DeferOverlap
    <3> QED
      BY <1>2, <2>2, <3>1, PlainRound, PlainStep
  <2>4. CASE Remind(w)
    <3>1. plan' = plan
      BY <1>2 DEF facts
    <3>2. case' \in [Cases -> CaseRows] /\ CasesSound' /\ (OwnerSeen => OwnerSeen')
      <4> DEFINE r == loop[w].rcv
      <4>1. r \in BOOLEAN /\ ~ ActiveCaseConflict(Owner, r)
        BY <1>2, <2>4 DEF Remind
      <4>2. case' = [case EXCEPT ![Owner] = [status |-> "ACTIVE", rcv |-> r, due |-> FALSE,
                                             blind |-> ~ r /\ ~ Pending]]
        BY <2>4 DEF Remind
      <4> HIDE DEF r
      <4> QED
        BY <1>1, <3>1, <4>1, <4>2, OwnerOpens
    <3>3. /\ actions' \in Seq(ActionRows) /\ Len(actions') >= Len(actions) /\ FinalResult
          /\ actions'[Len(actions')].case = Owner /\ actions'[Len(actions')].user = owner
          /\ actions'[Len(actions')].phase = loop[w].phase
      <4>1. InsertAction(Owner, owner, loop[w].phase)
        BY <2>4 DEF Remind
      <4>2. Owner \in Cases /\ loop[w].phase \in Phases \cup {"REMIND"}
        BY <1>2 DEF Cases
      <4> QED
        BY <1>1, <2>1, <4>1, <4>2, ActionAdded
    <3>4. OncePerInterval
      BY <2>1, <3>3 DEF OncePerInterval
    <3>5. DunningInv'
      BY <1>2, <2>2, <3>2, <3>3, PlainRound, RoundStep
    <3> QED
      BY <3>3, <3>4, <3>5 DEF Kept
  <2> QED
    BY <2>1, <2>3, <2>4
<1> QED
  BY <1>3, <1>4

LEMMA CreateKept ==
    ASSUME DunningInv, NEW w \in Loops, CreateInitial(w)
    PROVE  Kept
<1>1. /\ FactsTyped /\ case \in [Cases -> CaseRows] /\ CasesSound /\ loop \in [Loops -> Rounds]
      /\ cursor \in [Phases -> Users \cup {None}] /\ actions \in Seq(ActionRows)
  BY DEF DunningInv, DunningTypeOK, FactsTyped
<1> DEFINE k == loop[w].case
<1>2. /\ Goes(w, [at |-> "DUE"]) /\ UNCHANGED <<facts, cursor, transfer, events>>
      /\ k \in Policies /\ OwnerSeen
  BY <1>1, RoundTyped DEF CreateInitial, DunningInv, LoopsSound
<1>3. \/ /\ case[k].status = "NONE" /\ ~ DuplicateKey(k, TRUE)
         /\ InsertAction(k, Rule[k], "REMIND")
         /\ case' = [case EXCEPT ![k] = [NoCase EXCEPT !.status = "ACTIVE", !.rcv = TRUE]]
      \/ UNCHANGED <<case, actions>>
  BY DEF CreateInitial
<1> HIDE DEF k
<1>4. CASE UNCHANGED <<case, actions>>
  BY <1>1, <1>2, <1>4, PlainRound, PlainStep
<1>5. CASE /\ case[k].status = "NONE" /\ ~ DuplicateKey(k, TRUE)
           /\ InsertAction(k, Rule[k], "REMIND")
           /\ case' = [case EXCEPT ![k] = [NoCase EXCEPT !.status = "ACTIVE", !.rcv = TRUE]]
  <2>1. plan' = plan
    BY <1>2 DEF facts
  <2>2. case' \in [Cases -> CaseRows] /\ CasesSound' /\ OwnerSeen'
    BY <1>1, <1>2, <1>5, <2>1, PolicyOpens
  <2>3. k \in Cases /\ Rule[k] \in Users /\ k # Owner
    BY <1>2, DunningAssumption DEF Cases
  <2>4. /\ actions' \in Seq(ActionRows) /\ Len(actions') >= Len(actions) /\ FinalResult
        /\ actions'[Len(actions')].case = k
    BY <1>1, <1>5, <2>3, ActionAdded
  <2>5. OncePerInterval
    BY <1>5, <2>3, <2>4 DEF OncePerInterval, Active
  <2>6. DunningInv'
    BY <1>1, <1>2, <2>2, <2>4, PlainRound, RoundStep
  <2> QED
    BY <2>4, <2>5, <2>6 DEF Kept
<1> QED
  BY <1>3, <1>4, <1>5

LEMMA RepeatKept ==
    ASSUME DunningInv, NEW w \in Loops, CreateRepeat(w)
    PROVE  Kept
<1>1. /\ FactsTyped /\ case \in [Cases -> CaseRows] /\ CasesSound /\ loop \in [Loops -> Rounds]
      /\ cursor \in [Phases -> Users \cup {None}] /\ actions \in Seq(ActionRows)
  BY DEF DunningInv, DunningTypeOK, FactsTyped
<1> DEFINE k == loop[w].case
           u == loop[w].user
<1>2. /\ Goes(w, Idle(w)) /\ UNCHANGED <<facts, cursor, transfer, events>>
      /\ k \in Policies /\ u \in Users
  BY <1>1, RoundTyped DEF CreateRepeat
<1>3. \/ /\ RepeatAllowed(k) /\ InsertAction(k, u, "REMIND")
         /\ case' = [case EXCEPT ![k].due = FALSE]
      \/ UNCHANGED <<case, actions>>
  BY DEF CreateRepeat
<1> HIDE DEF k, u
<1>4. CASE UNCHANGED <<case, actions>>
  BY <1>1, <1>2, <1>4, PlainRound, PlainStep
<1>5. CASE /\ RepeatAllowed(k) /\ InsertAction(k, u, "REMIND")
           /\ case' = [case EXCEPT ![k].due = FALSE]
  <2>1. Pending' => Pending
    BY <1>2 DEF Pending, facts
  <2>2. /\ case' \in [Cases -> CaseRows]
        /\ \A c \in Cases : /\ case'[c].rcv = case[c].rcv /\ case'[c].status = case[c].status
                             /\ case'[c].blind = case[c].blind
    BY <1>1, <1>2, <1>5, DuePutOff
  <2>3. CasesSound' /\ (OwnerSeen => OwnerSeen')
    BY <1>1, <2>1, <2>2, QuieterCases
  <2>4. k \in Cases /\ k # Owner
    BY <1>2, DunningAssumption DEF Cases
  <2>5. /\ actions' \in Seq(ActionRows) /\ Len(actions') >= Len(actions) /\ FinalResult
        /\ actions'[Len(actions')].case = k
    BY <1>1, <1>2, <1>5, <2>4, ActionAdded
  <2>6. OncePerInterval
    BY <1>5, <2>4, <2>5 DEF OncePerInterval, RepeatAllowed
  <2>7. DunningInv'
    BY <1>1, <1>2, <2>2, <2>3, <2>5, PlainRound, RoundStep
  <2> QED
    BY <2>5, <2>6, <2>7 DEF Kept
<1> QED
  BY <1>3, <1>4, <1>5

\* A step that changes one action or the handover request and nothing of the cases.
LEMMA ActionStep ==
    ASSUME DunningInv, UNCHANGED <<facts, case, cursor, loop>>, events' \in Nat,
           actions' \in Seq(ActionRows), Len(actions') = Len(actions), TransferTyped',
           OncePerInterval, FinalResult
    PROVE  Kept
<1>1. FactsTyped' /\ case' \in [Cases -> CaseRows] /\ loop' \in [Loops -> Rounds]
  BY DEF DunningInv, DunningTypeOK, FactsTyped, facts
<1>2. CasesSound'
  BY DEF DunningInv, CasesSound, Active, Pending, facts
<1>3. LoopsSound'
  BY DEF DunningInv, LoopsSound, At, OwnerSeen, Active, Pending, facts
<1> QED
  BY <1>1, <1>2, <1>3 DEF Kept, DunningInv, DunningTypeOK

LEMMA CompleteKept ==
    ASSUME DunningInv, NEW i \in DOMAIN actions, CompleteDunningAction(i)
    PROVE  Kept
<1>1. actions \in Seq(ActionRows) /\ events \in Nat /\ TransferTyped
  BY DEF DunningInv, DunningTypeOK, FactsTyped
<1> DEFINE row == [actions[i] EXCEPT !.status = "COMPLETED"]
<1>2. row \in ActionRows
  <2>1. \A a \in ActionRows : [a EXCEPT !.status = "COMPLETED"] \in ActionRows
    BY DEF ActionRows
  <2>2. actions[i] \in ActionRows
    BY <1>1
  <2> QED
    BY <2>1, <2>2
<1>3. actions[i].status = "PENDING" /\ actions' = [actions EXCEPT ![i] = row]
  BY DEF CompleteDunningAction
<1> HIDE DEF row
<1>4. /\ actions' \in Seq(ActionRows) /\ Len(actions') = Len(actions)
      /\ OncePerInterval /\ FinalResult
  BY <1>1, <1>2, <1>3, ActionChanged
<1>5. UNCHANGED <<facts, case, cursor, loop, transfer>> /\ events' \in Nat
  BY <1>1 DEF CompleteDunningAction, Event
<1>6. DOMAIN actions' = DOMAIN actions
  BY <1>3
<1>7. TransferTyped'
  BY <1>1, <1>5, <1>6 DEF TransferTyped
<1> QED
  BY <1>4, <1>5, <1>7, ActionStep

\* The handover of an action: only one that is pending changes hands.
LEMMA TransferKept ==
    ASSUME DunningInv,
           \/ \E i \in DOMAIN actions, u \in Leavers, v \in Users : BeginTransfer(i, u, v)
           \/ TransferOwnership
    PROVE  Kept
<1>1. actions \in Seq(ActionRows) /\ events \in Nat /\ TransferTyped
  BY DEF DunningInv, DunningTypeOK, FactsTyped
<1>2. CASE \E i \in DOMAIN actions, u \in Leavers, v \in Users : BeginTransfer(i, u, v)
  <2>1. PICK i \in DOMAIN actions, u \in Leavers, v \in Users : BeginTransfer(i, u, v)
    BY <1>2
  <2>2. i \in Nat /\ u \in Users
    BY <1>1, DunningAssumption
  <2>3. transfer' = [at |-> "CHECKED", action |-> i, from |-> u, to |-> v]
    BY <2>1 DEF BeginTransfer
  <2>4. UNCHANGED <<facts, case, actions, cursor, loop>> /\ events' \in Nat
    BY <1>1, <2>1 DEF BeginTransfer, Event
  <2>5. transfer' \in Transfers /\ transfer'.action = i
    BY <2>2, <2>3 DEF Transfers
  <2>6. TransferTyped'
    BY <2>4, <2>5 DEF TransferTyped
  <2>7. OncePerInterval /\ FinalResult
    BY <1>1, <2>4, Untouched
  <2> QED
    BY <1>1, <2>4, <2>6, <2>7, ActionStep
<1>3. CASE TransferOwnership
  <2>1. transfer.at = "CHECKED" /\ UNCHANGED <<facts, case, cursor, loop, events>>
    BY <1>3 DEF TransferOwnership
  <2>2. transfer \in Transfers /\ transfer.action \in DOMAIN actions
    BY <1>1, <2>1 DEF TransferTyped, NoTransfer
  <2>3. transfer' \in Transfers /\ transfer'.action = transfer.action
    BY <1>3, <2>2 DEF TransferOwnership, Transfers
  <2> DEFINE i == transfer.action
             row == [actions[i] EXCEPT !.user = transfer.to]
  <2>4. row \in ActionRows
    <3>1. \A a \in ActionRows, v \in Users : [a EXCEPT !.user = v] \in ActionRows
      BY DEF ActionRows
    <3>2. actions[i] \in ActionRows /\ transfer.to \in Users
      BY <1>1, <2>2 DEF Transfers
    <3> QED
      BY <3>1, <3>2
  <2>5. \/ actions[i].status = "PENDING" /\ actions' = [actions EXCEPT ![i] = row]
        \/ actions' = actions
    BY <1>3 DEF TransferOwnership, Transferable
  <2>6. i \in DOMAIN actions
    BY <2>2
  <2> HIDE DEF row, i
  <2>7. /\ actions' \in Seq(ActionRows) /\ Len(actions') = Len(actions)
        /\ OncePerInterval /\ FinalResult
    <3>1. CASE actions' = actions
      BY <1>1, <3>1, Untouched
    <3>2. CASE actions[i].status = "PENDING" /\ actions' = [actions EXCEPT ![i] = row]
      BY <1>1, <2>4, <2>6, <3>2, ActionChanged
    <3> QED
      BY <2>5, <3>1, <3>2
  <2>8. DOMAIN actions' = DOMAIN actions
    BY <2>5
  <2>9. TransferTyped'
    BY <2>2, <2>3, <2>8 DEF TransferTyped
  <2> QED
    BY <1>1, <2>1, <2>7, <2>9, ActionStep
<1> QED
  BY <1>2, <1>3

-----------------------------------------------------------------------------
(* The theorems.                                                           *)

LEMMA DunningInit == Init => DunningInv
<1> SUFFICES ASSUME Init PROVE DunningInv
  OBVIOUS
<1>1. FactsTyped
  BY DunningAssumption DEF Init, FactsTyped
<1>2. case = [c \in Cases |-> NoCase] /\ NoCase \in CaseRows /\ NoCase.status = "NONE"
  BY DEF Init, NoCase, CaseRows
<1>3. \A c \in Cases : case[c].status = "NONE"
  BY <1>2
<1>4. case \in [Cases -> CaseRows]
  BY <1>2
<1>5. actions \in Seq(ActionRows) /\ TransferTyped
  BY DEF Init, TransferTyped
<1>6. loop \in [Loops -> Rounds] /\ \A w \in Loops : loop[w].at # "CREATE"
  BY PlainRound DEF Init
<1>7. CasesSound
  BY <1>3 DEF CasesSound, Active, Cases
<1>8. LoopsSound
  BY <1>6 DEF LoopsSound, At
<1> QED
  BY <1>1, <1>4, <1>5, <1>6, <1>7, <1>8 DEF DunningInv, DunningTypeOK

LEMMA DunningStep ==
    ASSUME DunningInv, [Next]_vars
    PROVE  Kept
<1>1. CASE UNCHANGED vars
  <2>1. /\ UNCHANGED <<facts, case, cursor, loop>> /\ UNCHANGED <<actions, transfer, events>>
    BY <1>1 DEF vars
  <2>2. actions \in Seq(ActionRows) /\ events \in Nat /\ TransferTyped
    BY DEF DunningInv, DunningTypeOK, FactsTyped
  <2>3. TransferTyped'
    BY <2>1, <2>2 DEF TransferTyped
  <2> QED
    BY <2>1, <2>2, <2>3, Untouched, ActionStep
<1>2. ASSUME NEW w \in Loops, Step(w) PROVE Kept
  <2>1. CASE CloseRoleActions(w) \/ CloseSettledActions(w)
    BY <2>1, CancelKept
  <2>2. CASE CloseRoleCases(w) \/ CloseSettledCases(w)
    BY <2>2, CloseKept
  <2>3. CASE ReadCandidates(w) \/ ReadInitial(w) \/ ReadDue(w) \/ ScanFails(w)
    BY <2>3, ReadKept
  <2>4. CASE DeferCandidate(w) \/ DeferCase(w)
    BY <2>4, DeferKept
  <2>5. CASE ReopenSettled(w)
    BY <2>5, ReopenKept
  <2>6. CASE Dispatch(w)
    BY <2>6, DispatchKept
  <2>7. CASE CreateInitial(w)
    BY <2>7, CreateKept
  <2>8. CASE CreateRepeat(w)
    BY <2>8, RepeatKept
  <2> QED
    BY <1>2, <2>1, <2>2, <2>3, <2>4, <2>5, <2>6, <2>7, <2>8 DEF Step
<1>3. CASE \/ ConfirmPlan \/ SettleOrReverse \/ ChangeOwner \/ DayPasses
           \/ \E k \in Policies : CreateDunningPolicy(k)
           \/ \E u \in Leavers : Freeze(u) \/ CompleteHandover(u)
  BY <1>3, OutsideKept
<1>4. CASE IntervalEnds
  BY <1>4, IntervalKept
<1>5. CASE \E i \in DOMAIN actions : CompleteDunningAction(i)
  BY <1>5, CompleteKept
<1>6. CASE \/ \E i \in DOMAIN actions, u \in Leavers, v \in Users : BeginTransfer(i, u, v)
           \/ TransferOwnership
  BY <1>6, TransferKept
<1> QED
  BY <1>1, <1>2, <1>3, <1>4, <1>5, <1>6 DEF Next

LEMMA DunningInvariant == Spec => []DunningInv
<1>1. DunningInv /\ [Next]_vars => DunningInv'
  BY DunningStep DEF Kept
<1> QED
  BY DunningInit, <1>1, PTL DEF Spec

\* The rows and what a worker process has in hand keep their types, and a
\* handover request names an action that exists.
THEOREM DunningTypeCorrect == Spec => []DunningTypeOK
<1>1. DunningInv => DunningTypeOK
  BY DEF DunningInv
<1> QED
  BY DunningInvariant, <1>1, PTL

\* Whatever number of worker processes open, close and reopen cases in whatever
\* order, two cases of an obligation are ACTIVE only when the owner's is one that
\* was written from a candidate read before the plan was confirmed.
THEOREM AlwaysOneActiveCase == Spec => []OneActiveCase
<1>1. DunningInv => OneActiveCase
  <2> SUFFICES ASSUME DunningInv, NEW c \in Cases, NEW d \in Cases, Active(c), Active(d), c # d
               PROVE  case[Owner].blind
    BY DEF OneActiveCase
  <2>1. CasesSound
    BY DEF DunningInv
  <2>2. ASSUME NEW k \in Policies, Active(k), Active(Owner) PROVE case[Owner].blind
    <3>1. case[k].status # "NONE"
      BY <2>2 DEF Active
    <3> QED
      BY <2>1, <2>2, <3>1 DEF CasesSound
  <2>3. ~ (c \in Policies /\ d \in Policies)
    BY <2>1 DEF CasesSound
  <2> QED
    BY <2>2, <2>3 DEF Cases
<1> QED
  BY DunningInvariant, <1>1, PTL

\* An action is added for an owner only when no interval of the phase runs for
\* that owner, and for a policy only when its case is due or opens, however many
\* worker processes have read the same candidate or the same due case.
THEOREM AlwaysOncePerInterval == Spec => RemindedOncePerInterval
<1>1. DunningInv /\ [Next]_vars => OncePerInterval
  BY DunningStep DEF Kept
<1>2. DunningInv /\ [Next]_vars =>
        [Len(actions') > Len(actions) =>
           LET a == actions'[Len(actions')] IN
           IF a.case = Owner
           THEN cursor[a.phase] # a.user
           ELSE case[a.case].due \/ ~ Active(a.case)]_vars
  BY <1>1 DEF OncePerInterval
<1> QED
  BY DunningInvariant, <1>2, PTL DEF Spec, RemindedOncePerInterval

\* No scan, no handover and no repetition of a call changes an action that was
\* completed or cancelled.
THEOREM ResultsAreFinal == Spec => ResultIsFinal
<1>1. DunningInv /\ [Next]_vars => FinalResult
  BY DunningStep DEF Kept
<1>2. DunningInv /\ [Next]_vars =>
        [\A i \in DOMAIN actions :
           actions[i].status # "PENDING" => actions'[i] = actions[i]]_vars
  BY <1>1 DEF FinalResult
<1> QED
  BY DunningInvariant, <1>2, PTL DEF Spec, ResultIsFinal
=============================================================================
