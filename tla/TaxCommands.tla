----------------------------- MODULE TaxCommands -----------------------------
(***************************************************************************)
(* The outbox queue of TAX_INVOICE_COMMAND events and the tax provider it  *)
(* feeds.  Acquire, HTTP call and each recorded outcome are separate steps *)
(* of a worker that may stop in between, and a worker that is late finds   *)
(* its rows taken over.  The provider is external; its results may arrive  *)
(* late, again, out of order and in contradiction to each other.  The      *)
(* modules that extend this one say which commands there are and what      *)
(* their results do.                                                       *)
(***************************************************************************)
EXTENDS Naturals, FiniteSets

CONSTANTS Commands,        \* tax commands, named by the attempt they belong to
          Workers,         \* outbox worker processes
          MaxTries,        \* deliveries before a command is a dead letter (7)
          LostResponses,   \* may the provider receive a command whose answer is lost?
          Results,         \* results the provider may send: a type and a result_sequence
          AdminRetry       \* is the generic outbox retry used on tax commands?

ResultTypes == {"unknown", "failed", "issued"}

ASSUME TaxCommandAssumption ==
    /\ MaxTries \in Nat \ {0}
    /\ Results \subseteq [type : ResultTypes, seq : Nat \ {0}]
    /\ LostResponses \in BOOLEAN /\ AdminRetry \in BOOLEAN

VARIABLES
    command,   \* command -> its outbox row
    leaseOver, \* commands whose locked_until has passed
    worker,    \* worker -> the batch it is in the middle of
    received   \* external: commands the provider has received

queueVars == <<command, leaseOver, worker>>
providerVars == <<received>>
taxVars == <<queueVars, providerVars>>

CommandStatuses == {"PENDING", "PROCESSING", "RETRY_WAIT", "DELIVERED", "DEAD_LETTER"}

Absent == [exists |-> FALSE]
NoWorker == "none"

CommandRows == [exists : {TRUE}, status : CommandStatuses, tries : 0 .. MaxTries,
                holder : Workers \cup {NoWorker}]
NewCommand == [exists |-> TRUE, status |-> "PENDING", tries |-> 0, holder |-> NoWorker]

\* pc: "acquired" (to be sent), then the outcome of the HTTP call to record.
Jobs == [pc : {"idle", "acquired", "accepted", "failed", "rejected"},
         batch : SUBSET Commands]
Idle == [pc |-> "idle", batch |-> {}]

TaxInit ==
    /\ command = [c \in Commands |-> Absent]
    /\ leaseOver = {}
    /\ worker = [w \in Workers |-> Idle]
    /\ received = {}

TaxTypeOK ==
    /\ command \in [Commands -> CommandRows \cup {Absent}]
    /\ leaseOver \in SUBSET Commands
    /\ worker \in [Workers -> Jobs]
    /\ received \in SUBSET Commands

-----------------------------------------------------------------------------
(* The queue.                                                              *)

\* Mutant: a command whose worker died is never taken over.
DueWaiting(c) ==
    command[c].exists /\ command[c].status \in {"PENDING", "RETRY_WAIT"}

Due(c) ==
    /\ command[c].exists
    /\ \/ command[c].status \in {"PENDING", "RETRY_WAIT"}
       \/ command[c].status = "PROCESSING" /\ c \in leaseOver

\* Store.Acquire: the due commands become one batch under a fresh lease.
Acquire(w) ==
    LET batch == {c \in Commands : Due(c)} IN
    /\ worker[w] = Idle
    /\ batch # {}
    /\ command' = [c \in Commands |->
                     IF c \in batch
                     THEN [command[c] EXCEPT !.status = "PROCESSING", !.holder = w]
                     ELSE command[c]]
    /\ leaseOver' = leaseOver \ batch
    /\ worker' = [worker EXCEPT ![w] = [pc |-> "acquired", batch |-> batch]]
    /\ UNCHANGED providerVars

\* deliver: one HTTP request for the whole batch.  The provider takes it, or
\* refuses it for good (400, 413, 422), or the call fails and part of it may
\* have been taken.
PostAccepted(w) ==
    /\ worker[w].pc = "acquired"
    /\ received' = received \cup worker[w].batch
    /\ worker' = [worker EXCEPT ![w].pc = "accepted"]
    /\ UNCHANGED <<command, leaseOver>>

PostRejected(w) ==
    /\ worker[w].pc = "acquired"
    /\ worker' = [worker EXCEPT ![w].pc = "rejected"]
    /\ UNCHANGED <<command, leaseOver, providerVars>>

PostFailed(w, taken) ==
    /\ worker[w].pc = "acquired"
    /\ taken \subseteq worker[w].batch
    /\ taken # {} => LostResponses
    /\ received' = received \cup taken
    /\ worker' = [worker EXCEPT ![w].pc = "failed"]
    /\ UNCHANGED <<command, leaseOver>>

Holds(w, c) == command[c].status = "PROCESSING" /\ command[c].holder = w

\* One row of the batch is done; a lost lease ends the batch.
NextInBatch(w, c) ==
    LET rest == worker[w].batch \ {c} IN
    worker' = [worker EXCEPT ![w] =
                 IF Holds(w, c) /\ rest # {} THEN [@ EXCEPT !.batch = rest] ELSE Idle]

\* Store.Delivered for one row; the attempt is marked in the same transaction.
DeliveredRow(w, c) ==
    /\ worker[w].pc = "accepted" /\ c \in worker[w].batch
    /\ command' = IF Holds(w, c)
                  THEN [command EXCEPT ![c].status = "DELIVERED", ![c].holder = NoWorker]
                  ELSE command
    /\ NextInBatch(w, c)
    /\ UNCHANGED <<leaseOver, providerVars>>

\* Store.Failed for one row.
Failed(w, c) ==
    LET tries == command[c].tries + 1
        dead == worker[w].pc = "rejected" \/ tries >= MaxTries
    IN  /\ worker[w].pc \in {"failed", "rejected"} /\ c \in worker[w].batch
        /\ command' = IF Holds(w, c)
                      THEN [command EXCEPT ![c] =
                              [@ EXCEPT !.status = IF dead THEN "DEAD_LETTER" ELSE "RETRY_WAIT",
                                        !.tries = tries, !.holder = NoWorker]]
                      ELSE command
        /\ NextInBatch(w, c)
        /\ UNCHANGED <<leaseOver, providerVars>>

\* The process stops, or the business license pauses it: rows keep their lease.
Stop(w) ==
    /\ worker[w] # Idle
    /\ worker' = [worker EXCEPT ![w] = Idle]
    /\ UNCHANGED <<command, leaseOver, providerVars>>

\* Thirty seconds pass, whether or not the worker is done.
LeaseExpires(c) ==
    /\ command[c].exists /\ command[c].status = "PROCESSING"
    /\ c \notin leaseOver
    /\ leaseOver' = leaseOver \cup {c}
    /\ UNCHANGED <<command, worker, providerVars>>

\* A dead letter is sent again, from its first try.
Requeue(c) ==
    /\ command[c].exists /\ command[c].status = "DEAD_LETTER"
    /\ command' = [command EXCEPT ![c].status = "PENDING", ![c].tries = 0]
    /\ UNCHANGED <<leaseOver, worker, providerVars>>

\* RetryOutboxEvent: any dead letter.
RetryOutboxEvent(c) == AdminRetry /\ Requeue(c)

-----------------------------------------------------------------------------
\* External: the provider may send any of its results of a command it has
\* received, as often as it likes and in any order; each event carries a
\* result_sequence of the provider's choosing, which is never zero.
Sends(c, r) == c \in received /\ r \in Results

-----------------------------------------------------------------------------
\* The steps that touch nothing but the queue and the provider.
TaxNext ==
    \/ \E w \in Workers :
         \/ Acquire(w) \/ PostAccepted(w) \/ PostRejected(w) \/ Stop(w)
         \/ \E taken \in SUBSET Commands : PostFailed(w, taken)
         \/ \E c \in Commands : Failed(w, c)
    \/ \E c \in Commands :
         \/ LeaseExpires(c) \/ RetryOutboxEvent(c)

\* Workers run on tickers for as long as the process is up and take up again
\* after a stop (so the steps that a stop can pre-empt are strongly fair);
\* leases run out.
TaxFairness ==
    /\ \A w \in Workers :
         /\ SF_taxVars(Acquire(w))
         /\ SF_taxVars(PostAccepted(w) \/ PostRejected(w) \/ PostFailed(w, {}))
         /\ \A c \in Commands : SF_taxVars(DeliveredRow(w, c)) /\ SF_taxVars(Failed(w, c))
    /\ \A c \in Commands : WF_taxVars(LeaseExpires(c))
=============================================================================
