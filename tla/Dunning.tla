------------------------------ MODULE Dunning ------------------------------
(***************************************************************************)
(* Dunning of one installment: its plan, and the receivable the plan turns *)
(* into when it is confirmed, are one obligation.  Every worker process    *)
(* repeats one loop, a round of RoleReminderWorker, which reminds the      *)
(* contract's owner, and then a round of Scanner, which follows the        *)
(* policies users define; both write cases and actions.  Users complete    *)
(* actions and the personnel platform hands over those of a leaver.        *)
(*                                                                         *)
(* A transaction is one action.  What a round reads outside it is carried  *)
(* in the loop's record and may be stale when used.  Intervals are         *)
(* abstracted to "due or not": every write of next_action_at or next_at    *)
(* lies in the future, and IntervalEnds makes it due.  The contract is     *)
(* EFFECTIVE and RELEASED throughout (see ContractImport for HOLD).        *)
(* Notifications and audit rows are written with the action they announce  *)
(* and are left out, as is the escalation level.                           *)
(***************************************************************************)
EXTENDS Integers, Sequences, FiniteSets

CONSTANTS Policies,       \* dunning policies of users
          FromDays,       \* policy -> aging_from_days
          ToDays,         \* policy -> aging_to_days
          Rank,           \* policy -> its place when ranked by aging_from_days,
                          \* among equals by id
          Rule,           \* policy -> the user of its recipient_rule
          Users,
          Leavers,        \* users whose responsibilities are handed over
          LeadDays, EscalationDays,   \* the reminder rules
          LastAging,      \* bound: days overdue
          Starts,         \* where a behaviour begins: <<plan, days overdue>>
          Loops,          \* worker processes, and of them those with a
          Reminders,      \* tenant and a directory to remind owners
          MaxActions,     \* bound: dunning actions
          MaxEvents       \* bound: events from outside the loops

\* The case of the system's own policy, recipient_rule CONTRACT_OWNER.
Owner == "CONTRACT_OWNER"
None == "NONE"

ASSUME DunningAssumption ==
    /\ FromDays \in [Policies -> Nat] /\ ToDays \in [Policies -> Nat]
    /\ Rank \in [Policies -> Nat]
    /\ \A j, k \in Policies : Rank[j] = Rank[k] => j = k
    /\ \A j, k \in Policies : FromDays[j] < FromDays[k] => Rank[j] < Rank[k]
    /\ Rule \in [Policies -> Users] /\ Leavers \subseteq Users
    /\ LeadDays \in Nat /\ EscalationDays \in Nat \ {0}
    /\ LastAging \in Int /\ Starts \subseteq {"PENDING", "OPEN"} \X Int
    /\ Owner \notin Policies /\ None \notin Users \cup Policies
    /\ Reminders \subseteq Loops
    /\ MaxActions \in Nat /\ MaxEvents \in Nat

VARIABLES
    plan,      \* the obligation: unconfirmed plan, open or settled receivable
    aging,     \* business days since the due date
    owner,     \* owner_user_id of the active responsibility, or None
    freeze,    \* settlement_handover_freeze of each user's handover batch
    enabled,   \* policies that exist
    case,      \* settlement_dunning_case
    actions,   \* settlement_dunning_action, in the order of creation
    cursor,    \* settlement_role_reminder_cursor: phase -> the owner whose
               \* interval runs, None when there is no row or next_at is past
    loop,      \* what each worker process is doing
    transfer,  \* the handover request in hand, and its receipt
    events     \* number of events from outside the loops

facts == <<plan, aging, owner, freeze, enabled>>
vars == <<facts, case, actions, cursor, loop, transfer, events>>

Phases == {"PLAN_CONFIRMATION", "DUE_SOON", "OVERDUE", "ESCALATED"}
Cases == Policies \cup {Owner}
NoCase == [status |-> "NONE", rcv |-> FALSE, due |-> FALSE, blind |-> FALSE]
Idle(w) == [at |-> IF w \in Reminders THEN "START" ELSE "SCAN"]
NoTransfer == [at |-> "NONE"]

Init ==
    /\ \E s \in Starts : plan = s[1] /\ aging = s[2]
    /\ owner \in Users
    /\ freeze = [u \in Users |-> "NONE"]
    /\ enabled \in SUBSET Policies
    /\ case = [c \in Cases |-> NoCase]
    /\ actions = <<>>
    /\ cursor = [p \in Phases |-> None]
    /\ loop = [w \in Loops |-> Idle(w)]
    /\ transfer = NoTransfer
    /\ events = 0

-----------------------------------------------------------------------------
(* The rest of the system: plans and receivables, responsibility events,   *)
(* the calendar.                                                           *)
Event == events < MaxEvents /\ events' = events + 1
Elsewhere == Event /\ UNCHANGED <<case, actions, cursor, loop, transfer>>

ConfirmPlan ==
    /\ plan = "PENDING" /\ plan' = "OPEN"
    /\ Elsewhere /\ UNCHANGED <<aging, owner, freeze, enabled>>

\* An allocation settles the receivable, a reversal opens it again.
SettleOrReverse ==
    /\ \/ plan = "OPEN" /\ plan' = "SETTLED"
       \/ plan = "SETTLED" /\ plan' = "OPEN"
    /\ Elsewhere /\ UNCHANGED <<aging, owner, freeze, enabled>>

ChangeOwner ==
    /\ owner' \in (Users \cup {None}) \ {owner}
    /\ Elsewhere /\ UNCHANGED <<plan, aging, freeze, enabled>>

DayPasses ==
    /\ aging < LastAging /\ aging' = aging + 1
    /\ Elsewhere /\ UNCHANGED <<plan, owner, freeze, enabled>>

CreateDunningPolicy(k) ==
    /\ k \notin enabled /\ enabled' = enabled \cup {k}
    /\ Elsewhere /\ UNCHANGED <<plan, aging, owner, freeze>>

IntervalEnds ==
    /\ \/ /\ \E k \in Policies :
                /\ case[k].status = "ACTIVE" /\ ~ case[k].due
                /\ case' = [case EXCEPT ![k].due = TRUE]
          /\ UNCHANGED cursor
       \/ /\ \E p \in Phases :
                /\ cursor[p] # None /\ cursor' = [cursor EXCEPT ![p] = None]
          /\ UNCHANGED case
    /\ UNCHANGED <<facts, actions, loop, transfer, events>>

-----------------------------------------------------------------------------
Pending == plan = "PENDING"
Settled == plan = "SETTLED"
Frozen(u) == freeze[u] = "FROZEN"
Active(c) == case[c].status = "ACTIVE"
Overdue(k) == aging >= 1 /\ aging \in FromDays[k] .. ToDays[k]
Goes(w, step) == loop' = [loop EXCEPT ![w] = step]
At(w, step) == loop[w].at = step

\* reminderPhase; None before the first day of the reminder window.
ReminderPhase ==
    CASE aging < - LeadDays -> None
      [] aging >= - LeadDays /\ Pending /\ aging <= 0 -> "PLAN_CONFIRMATION"
      [] aging >= - LeadDays /\ ~ (Pending /\ aging <= 0) ->
            IF aging >= EscalationDays THEN "ESCALATED"
            ELSE IF aging >= 1 THEN "OVERDUE" ELSE "DUE_SOON"

\* Mutant: the plan of a case is not looked at.
ConflictByReceivable(c, rcv) == \E d \in Cases \ {c} : Active(d) /\ rcv /\ case[d].rcv

\* activeCaseConflict for a case of c: an ACTIVE case of another policy with
\* the same plan (only Owner's cases carry one) or the same receivable.
ActiveCaseConflict(c, rcv) ==
    \E d \in Cases \ {c} : Active(d) /\ (d = Owner \/ (rcv /\ case[d].rcv))

\* The unique keys on the generated columns active_receivable_id, active_plan_id.
DuplicateKey(c, rcv) == \E d \in Cases \ {c} : Active(d) /\ rcv /\ case[d].rcv

\* The action, when the bound leaves room for it.
InsertAction(c, u, phase) ==
    /\ Len(actions) < MaxActions
    /\ actions' = Append(actions,
         [case |-> c, user |-> u, phase |-> phase, status |-> "PENDING"])

\* Those actions of A that pass the filter become CANCELLED.
Cancel(Filter(_)) ==
    actions' = [i \in DOMAIN actions |->
        IF Filter(actions[i]) THEN [actions[i] EXCEPT !.status = "CANCELLED"]
                              ELSE actions[i]]

Close(Filter(_)) ==
    case' = [c \in Cases |->
        IF Active(c) /\ Filter(c)
        THEN [case[c] EXCEPT !.status = "CLOSED", !.due = FALSE, !.blind = FALSE]
        ELSE case[c]]

-----------------------------------------------------------------------------
(* RoleReminderWorker.RunOnce                                              *)

\* Mutant: an action stays with a former owner.
StaleIgnoringOwner(a) ==
    /\ a.case = Owner /\ a.status = "PENDING"
    /\ \/ Settled \/ owner = None
       \/ a.phase = "PLAN_CONFIRMATION" /\ ~ Pending

\* What the first statement of closeRoleActions selects.
StaleRoleAction(a) ==
    /\ a.case = Owner /\ a.status = "PENDING"
    /\ \/ Settled \/ owner = None
       \/ a.phase # "ESCALATED" /\ a.user # owner
       \/ a.phase = "PLAN_CONFIRMATION" /\ ~ Pending

CloseRoleActions(w) ==
    /\ At(w, "START") /\ Goes(w, [at |-> "ROLE_CASES"])
    /\ Cancel(StaleRoleAction)
    /\ UNCHANGED <<facts, case, cursor, transfer, events>>

CloseRoleCases(w) ==
    /\ At(w, "ROLE_CASES") /\ Goes(w, [at |-> "CANDIDATES"])
    /\ Close(LAMBDA c : c = Owner /\ (Settled \/ owner = None))
    /\ UNCHANGED <<facts, actions, cursor, transfer, events>>

\* The candidate query.
IsCandidate ==
    /\ owner # None /\ ~ Settled /\ ReminderPhase # None
    /\ ~ Frozen(owner)
    /\ cursor[ReminderPhase] # owner

ReadCandidates(w) ==
    /\ At(w, "CANDIDATES")
    /\ IF IsCandidate
       THEN Goes(w, [at |-> "DISPATCH", owner |-> owner, phase |-> ReminderPhase,
                     rcv |-> ~ Pending])
       ELSE Goes(w, [at |-> "SCAN"])
    /\ UNCHANGED <<facts, case, actions, cursor, transfer, events>>

\* What dispatch finds again under its locks on plan, responsibility and
\* receivable, and of the cursor.  A freeze is read without a lock: one that
\* commits during the transaction comes after it.
StillCandidate(w) ==
    /\ owner = loop[w].owner /\ ~ Settled /\ ReminderPhase = loop[w].phase
    /\ ~ Frozen(owner)
    /\ cursor[ReminderPhase] # owner

SetCursor(p, u) == cursor' = [cursor EXCEPT ![p] = u]

\* deferOverlap, for another policy's case that is seen or met at the key.
DeferOverlap(w) ==
    /\ ActiveCaseConflict(Owner, loop[w].rcv) \/ DuplicateKey(Owner, loop[w].rcv)
    /\ SetCursor(loop[w].phase, owner)
    /\ UNCHANGED <<case, actions>>

\* The case is inserted, or made ACTIVE again, with the receivable the
\* candidate query saw.  "blind" is a history of that: no receivable was
\* seen although there is one now.
Remind(w) ==
    /\ ~ ActiveCaseConflict(Owner, loop[w].rcv) /\ ~ DuplicateKey(Owner, loop[w].rcv)
    /\ InsertAction(Owner, owner, loop[w].phase)
    /\ case' = [case EXCEPT ![Owner] =
         [status |-> "ACTIVE", rcv |-> loop[w].rcv, due |-> FALSE,
          blind |-> ~ loop[w].rcv /\ ~ Pending]]
    /\ SetCursor(loop[w].phase, owner)

\* dispatch, once the directory has confirmed the owner's role.
Dispatch(w) ==
    /\ At(w, "DISPATCH") /\ Goes(w, [at |-> "SCAN"])
    /\ IF StillCandidate(w) THEN DeferOverlap(w) \/ Remind(w)
       ELSE UNCHANGED <<case, actions, cursor>>
    /\ UNCHANGED <<facts, transfer, events>>

\* deferCandidate, after dispatch has failed: directory, licence or database.
DeferCandidate(w) ==
    /\ At(w, "DISPATCH") /\ Goes(w, [at |-> "SCAN"])
    /\ IF owner = loop[w].owner /\ ReminderPhase = loop[w].phase
       THEN SetCursor(loop[w].phase, owner) ELSE UNCHANGED cursor
    /\ UNCHANGED <<facts, case, actions, transfer, events>>

-----------------------------------------------------------------------------
(* Scanner.RunOnce                                                         *)

\* Mutant: actions are cancelled through the cases that are still ACTIVE.
SettledActiveAction(a) ==
    a.status = "PENDING" /\ case[a.case].rcv /\ Settled /\ Active(a.case)

SettledAction(a) == a.status = "PENDING" /\ case[a.case].rcv /\ Settled

CloseSettledActions(w) ==
    /\ At(w, "SCAN") /\ Goes(w, [at |-> "SCAN_CASES"])
    /\ Cancel(SettledAction)
    /\ UNCHANGED <<facts, case, cursor, transfer, events>>

CloseSettledCases(w) ==
    /\ At(w, "SCAN_CASES") /\ Goes(w, [at |-> "REOPEN"])
    /\ Close(LAMBDA c : case[c].rcv /\ Settled)
    /\ UNCHANGED <<facts, actions, cursor, transfer, events>>

\* The closed case that ranks first for the receivable.
Reopenable(k) ==
    /\ k \in enabled /\ case[k].status = "CLOSED"
    /\ \A j \in enabled : case[j].status = "CLOSED" => Rank[j] <= Rank[k]

ReopenSettled(w) ==
    /\ At(w, "REOPEN") /\ Goes(w, [at |-> "INITIAL"])
    /\ case' = [c \in Cases |->
         IF /\ c \in Policies /\ Reopenable(c)
            /\ plan = "OPEN" /\ Overdue(c)
            /\ ~ \E d \in Cases : Active(d) /\ case[d].rcv
         THEN [case[c] EXCEPT !.status = "ACTIVE", !.due = TRUE] ELSE case[c]]
    /\ UNCHANGED <<facts, actions, cursor, transfer, events>>

\* The policy that rules at this age.
Ruling(k) ==
    /\ k \in enabled /\ Overdue(k)
    /\ \A j \in enabled : Overdue(j) => Rank[j] <= Rank[k]

\* The reads before the insert: the candidate, the directory, which may
\* refuse or fail, the freeze, and createInitial's check for a conflict.
ReadInitial(w) ==
    /\ At(w, "INITIAL")
    /\ \/ Goes(w, [at |-> "DUE"])
       \/ \E k \in Policies :
            /\ Ruling(k) /\ plan = "OPEN" /\ case[k].status = "NONE"
            /\ ~ Frozen(Rule[k]) /\ ~ ActiveCaseConflict(k, TRUE)
            /\ Goes(w, [at |-> "CREATE", case |-> k])
    /\ UNCHANGED <<facts, case, actions, cursor, transfer, events>>

\* INSERT IGNORE ... SELECT, then insertAction in the same transaction.
CreateInitial(w) ==
    /\ At(w, "CREATE")
    /\ LET k == loop[w].case IN
       IF plan = "OPEN" /\ case[k].status = "NONE" /\ ~ DuplicateKey(k, TRUE)
       THEN /\ InsertAction(k, Rule[k], "REMIND")
            /\ case' = [case EXCEPT ![k] = [NoCase EXCEPT !.status = "ACTIVE", !.rcv = TRUE]]
       ELSE UNCHANGED <<case, actions>>
    /\ Goes(w, [at |-> "DUE"])
    /\ UNCHANGED <<facts, cursor, transfer, events>>

\* The recipient of the latest action that was not cancelled, or of the rule.
Recipient(k) ==
    LET live == {i \in DOMAIN actions :
                    actions[i].case = k /\ actions[i].status \in {"PENDING", "COMPLETED"}}
    IN  IF live = {} THEN Rule[k]
        ELSE actions[CHOOSE i \in live : \A j \in live : j <= i].user

IsDue(k) == k \in enabled /\ Active(k) /\ case[k].due /\ plan = "OPEN"

\* A due case, or none; the directory and the freeze of its recipient.
ReadDue(w) ==
    /\ At(w, "DUE")
    /\ \/ /\ ~ \E k \in Policies : IsDue(k)
          /\ Goes(w, Idle(w))
       \/ \E k \in Policies :
            /\ IsDue(k) /\ ~ Frozen(Recipient(k))
            /\ Goes(w, [at |-> "REPEAT", case |-> k, user |-> Recipient(k)])
    /\ UNCHANGED <<facts, case, actions, cursor, transfer, events>>

\* deferCase: the recipient is frozen, no collector any more, or unknown.
DeferCase(w) ==
    /\ At(w, "DUE") /\ Goes(w, Idle(w))
    /\ \E k \in Policies : IsDue(k) /\ case' = [case EXCEPT ![k].due = FALSE]
    /\ UNCHANGED <<facts, actions, cursor, transfer, events>>

\* Mutant: the row that was read outside the transaction is not read again.
RepeatUnchecked(k) == TRUE

\* What createRepeat reads again FOR UPDATE; the balance is not part of it.
RepeatAllowed(k) == Active(k) /\ case[k].due

CreateRepeat(w) ==
    /\ At(w, "REPEAT") /\ Goes(w, Idle(w))
    /\ LET k == loop[w].case IN
       IF RepeatAllowed(k)
       THEN /\ InsertAction(k, loop[w].user, "REMIND")
            /\ case' = [case EXCEPT ![k].due = FALSE]
       ELSE UNCHANGED <<case, actions>>
    /\ UNCHANGED <<facts, cursor, transfer, events>>

\* RunOnce returns on an error of a transaction, which has rolled back.
ScanFails(w) ==
    /\ loop[w].at \in {"CREATE", "REPEAT"} /\ Goes(w, Idle(w))
    /\ UNCHANGED <<facts, case, actions, cursor, transfer, events>>

-----------------------------------------------------------------------------
\* CompleteDunningAction, by the recipient.
CompleteDunningAction(i) ==
    /\ actions[i].status = "PENDING"
    /\ actions' = [actions EXCEPT ![i].status = "COMPLETED"]
    /\ Event /\ UNCHANGED <<facts, case, cursor, loop, transfer>>

\* Service.Freeze and Complete, one batch for each user.
Freeze(u) ==
    /\ freeze[u] = "NONE" /\ freeze' = [freeze EXCEPT ![u] = "FROZEN"]
    /\ Elsewhere /\ UNCHANGED <<plan, aging, owner, enabled>>

CompleteHandover(u) ==
    /\ freeze[u] = "FROZEN" /\ freeze' = [freeze EXCEPT ![u] = "RELEASED"]
    /\ Elsewhere /\ UNCHANGED <<plan, aging, owner, enabled>>

\* Service.Transfer checks the successor before the transaction.
BeginTransfer(i, from, to) ==
    /\ transfer = NoTransfer /\ from # to /\ ~ Frozen(to)
    /\ transfer' = [at |-> "CHECKED", action |-> i, from |-> from, to |-> to]
    /\ Event /\ UNCHANGED <<facts, case, actions, cursor, loop>>

\* Mutant: the update leaves the status out of its condition.
TransferableAnyStatus(a) == a.user = transfer.from

Transferable(a) == a.user = transfer.from /\ a.status = "PENDING"

\* TransferOwnership: the update and its receipt.  A repetition finds the
\* receipt and changes nothing.
TransferOwnership ==
    /\ transfer.at = "CHECKED"
    /\ LET applied == Transferable(actions[transfer.action]) IN
       /\ actions' = IF applied THEN [actions EXCEPT ![transfer.action].user = transfer.to]
                                ELSE actions
       /\ transfer' = [transfer EXCEPT !.at = IF applied THEN "APPLIED" ELSE "REJECTED"]
    /\ UNCHANGED <<facts, case, cursor, loop, events>>

-----------------------------------------------------------------------------
Step(w) ==
    \/ CloseRoleActions(w) \/ CloseRoleCases(w) \/ ReadCandidates(w)
    \/ Dispatch(w) \/ DeferCandidate(w)
    \/ CloseSettledActions(w) \/ CloseSettledCases(w) \/ ReopenSettled(w)
    \/ ReadInitial(w) \/ CreateInitial(w)
    \/ ReadDue(w) \/ DeferCase(w) \/ CreateRepeat(w) \/ ScanFails(w)

Next ==
    \/ \E w \in Loops : Step(w)
    \/ ConfirmPlan \/ SettleOrReverse \/ ChangeOwner \/ DayPasses \/ IntervalEnds
    \/ \E k \in Policies : CreateDunningPolicy(k)
    \/ \E i \in DOMAIN actions : CompleteDunningAction(i)
    \/ \E u \in Leavers : Freeze(u) \/ CompleteHandover(u)
    \/ \E i \in DOMAIN actions, u \in Leavers, v \in Users : BeginTransfer(i, u, v)
    \/ TransferOwnership

Spec == Init /\ [][Next]_vars

\* A worker process goes on with its loop; nothing else is promised.
FairSpec == Spec /\ \A w \in Loops : WF_vars(Step(w))

-----------------------------------------------------------------------------
WithFormerOwner(i) ==
    /\ i \in DOMAIN actions
    /\ actions[i].case = Owner /\ actions[i].phase # "ESCALATED"
    /\ actions[i].status = "PENDING" /\ actions[i].user # owner

\* An obligation has at most one ACTIVE case, whoever opens cases at the same
\* time (migration 000024, overlap.go).  The exception is an owner's case
\* written from a candidate that was read before the plan was confirmed: it
\* names no receivable, so neither the check nor the keys relate it to a
\* policy's case.
OneActiveCase ==
    \A c, d \in Cases : Active(c) /\ Active(d) /\ c # d => case[Owner].blind

\* Two processes that find the same case or plan due remind once: an action
\* is only added while an interval has ended, and adding it starts the next.
RemindedOncePerInterval ==
    [][Len(actions') > Len(actions) =>
         LET a == actions'[Len(actions')] IN
         IF a.case = Owner
         THEN cursor[a.phase] # a.user
         ELSE case[a.case].due \/ ~ Active(a.case)]_vars

\* What became of an action is final: neither the scans, which cancel, nor a
\* handover, which reassigns, touch an action that was completed or cancelled.
ResultIsFinal ==
    [][\A i \in DOMAIN actions :
         actions[i].status # "PENDING" => actions'[i] = actions[i]]_vars

\* Once a receivable stays settled, its cases are closed and nobody is asked
\* to act on it any more, also when a round under way still saw it open.
SettledIsClosed ==
    <>[]Settled =>
      <>[](/\ \A c \in Cases : ~ Active(c)
           /\ \A i \in DOMAIN actions : actions[i].status # "PENDING")

\* A reminder to someone who is no longer the contract's owner is withdrawn,
\* unless it is an escalation.
FormerOwnerReleased ==
    \A i \in 1 .. MaxActions : WithFormerOwner(i) ~> ~ WithFormerOwner(i)
=============================================================================
