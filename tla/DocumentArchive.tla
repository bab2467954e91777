--------------------------- MODULE DocumentArchive ---------------------------
(***************************************************************************)
(* Archiving of invoice documents (invoice_archive.go) and of receipt      *)
(* images (receipt_archive.go): the same protocol over two sets of tables. *)
(* A request journals its idempotency key and what it archives; a second   *)
(* transaction locks the owning invoice or receipt and the journal row,    *)
(* uploads the file, binds it, and commits the document together with the  *)
(* row.  A worker retires what requests left PENDING for two minutes.      *)
(*                                                                         *)
(* A document stands for its owner row, its type and its checksum; two     *)
(* documents of one owner would only wait for each other.  The deployment  *)
(* identity (application id and gateway origin) may change while requests  *)
(* of the old deployment still run.  A refusal that writes nothing is the  *)
(* absence of a step.                                                      *)
(***************************************************************************)
EXTENDS Naturals, FiniteSets, FileGateway

CONSTANTS Documents,
          Sessions,        \* upload requests that may run at the same time
          Apps, FirstApp,  \* deployment identities, and the one at the start
          MaxRedeploys     \* bound: changes of the identity

ASSUME ArchiveAssumption ==
    /\ FirstApp \in Apps
    /\ MaxRedeploys \in Nat
    /\ "none" \notin Uploads

VARIABLES
    kind,        \* the tables this instance is about, which share nothing
    effect,      \* key -> row of settlement_{invoice,receipt}_archive_effect
    document,    \* document -> request id of its file, or None
    session,     \* session -> its place in Upload{Invoice,Receipt}Document
    app,         \* identity of the current deployment
    redeploys

archiveVars == <<kind, effect, document, session, app, redeploys>>
vars == <<archiveVars, gatewayVars>>

Keys == Uploads
None == "none"
NoEffect == [state |-> "NONE"]
Idle == [pc |-> "idle"]

\* due: available_at has passed.
EffectRows == [state : {"PENDING", "ARCHIVED", "RETIRED"}, doc : Documents,
               app : Apps, file : Keys \cup {None}, due : BOOLEAN]
Requests == [pc : {"prepared", "locked", "uploading", "uploaded", "binding", "bound"},
             key : Keys, doc : Documents, app : Apps]

Init ==
    /\ kind \in {"invoice", "receipt"}
    /\ effect = [k \in Keys |-> NoEffect]
    /\ document = [d \in Documents |-> None]
    /\ session = [s \in Sessions |-> Idle]
    /\ app = FirstApp
    /\ redeploys = 0
    /\ GatewayInit

-----------------------------------------------------------------------------
At(s, pc) == session[s].pc = pc
Step(s, pc) == session' = [session EXCEPT ![s].pc = pc]
Key(s) == session[s].key

\* The second transaction holds the owner and the journal row.
InTransaction(s) == session[s] # Idle /\ ~ At(s, "prepared")
Locked(d) == \E s \in Sessions : InTransaction(s) /\ session[s].doc = d

Used(k) == effect[k] # NoEffect

\* A key that is known must come with the same document and deployment.
SameRequest(k, d) == Used(k) /\ effect[k].doc = d /\ effect[k].app = app

\* Mutant: old bytes are relabelled with the current deployment.
ProvenanceAny(d) == document[d] # None

\* The document exists and a row of this deployment vouches for its file.
Provenance(d) ==
    /\ document[d] # None
    /\ \E k \in Keys : /\ Used(k) /\ effect[k].doc = d /\ effect[k].state = "ARCHIVED"
                       /\ effect[k].file = document[d] /\ effect[k].app = app

\* No other key is about to archive the same document.
NotReserved(d) ==
    /\ document[d] = None
    /\ \A k \in Keys : Used(k) /\ effect[k].doc = d => effect[k].state # "PENDING"

NewEffect(d) ==
    [state |-> IF document[d] = None THEN "PENDING" ELSE "ARCHIVED", doc |-> d,
     app |-> app, file |-> document[d], due |-> FALSE]

PrepareArchive(s, k, d) ==
    /\ session[s] = Idle
    /\ ~ Locked(d)
    /\ \/ SameRequest(k, d) /\ UNCHANGED effect
       \/ /\ ~ Used(k)
          /\ Provenance(d) \/ NotReserved(d)
          /\ effect' = [effect EXCEPT ![k] = NewEffect(d)]
    /\ session' = [session EXCEPT ![s] =
                     [pc |-> "prepared", key |-> k, doc |-> d, app |-> app]]
    /\ UNCHANGED <<document, app, redeploys, kind, gatewayVars>>

\* prepareInvoiceArchive, prepareReceiptArchive
PrepareInvoiceArchive(s, k, d) == kind = "invoice" /\ PrepareArchive(s, k, d)
PrepareReceiptArchive(s, k, d) == kind = "receipt" /\ PrepareArchive(s, k, d)

-----------------------------------------------------------------------------
(* The second transaction.                                                 *)

\* Rows are locked and read again: an archived key has its answer, an
\* abandoned one is refused, a pending one goes on to the gateway.
LockRows(s) ==
    LET e == effect[Key(s)] IN
    /\ At(s, "prepared") /\ ~ Locked(session[s].doc)
    /\ session' = [session EXCEPT ![s] =
         IF e.state = "PENDING" /\ e.app = @.app THEN [@ EXCEPT !.pc = "locked"] ELSE Idle]
    /\ UNCHANGED <<effect, document, app, redeploys, kind, gatewayVars>>

SendUpload(s) ==
    /\ At(s, "locked")
    /\ Send("upload", Key(s))
    /\ Step(s, "uploading")
    /\ UNCHANGED <<effect, document, app, redeploys, kind, upload, binding>>

UploadAnswered(s) ==
    /\ At(s, "uploading")
    /\ ~ InFlight("upload", Key(s)) /\ upload[Key(s)] = "ready"
    /\ Step(s, "uploaded")
    /\ UNCHANGED <<effect, document, app, redeploys, kind, gatewayVars>>

SendBind(s) ==
    /\ At(s, "uploaded")
    /\ Send("bind", Key(s))
    /\ Step(s, "binding")
    /\ UNCHANGED <<effect, document, app, redeploys, kind, upload, binding>>

BindAnswered(s) ==
    /\ At(s, "binding")
    /\ ~ InFlight("bind", Key(s)) /\ binding[Key(s)] = "active"
    /\ Step(s, "bound")
    /\ UNCHANGED <<effect, document, app, redeploys, kind, gatewayVars>>

\* archiveInvoiceDocumentTx or archiveReceiptDocumentTx, and the row, in one commit.
Archive(s) ==
    /\ At(s, "bound")
    /\ document[session[s].doc] = None
    /\ document' = [document EXCEPT ![session[s].doc] = Key(s)]
    /\ effect' = [effect EXCEPT ![Key(s)] =
         IF @.state = "PENDING" THEN [@ EXCEPT !.state = "ARCHIVED", !.file = Key(s)] ELSE @]
    /\ session' = [session EXCEPT ![s] = Idle]
    /\ UNCHANGED <<app, redeploys, kind, gatewayVars>>

\* The license is denied, the gateway fails or stays silent for 30 seconds,
\* the client leaves, the process stops: the transaction is rolled back.
GiveUp(s) ==
    /\ session[s] # Idle
    /\ session' = [session EXCEPT ![s] = Idle]
    /\ UNCHANGED <<effect, document, app, redeploys, kind, gatewayVars>>

UploadDocument(s) ==
    \/ LockRows(s) \/ SendUpload(s) \/ UploadAnswered(s) \/ SendBind(s)
    \/ BindAnswered(s) \/ Archive(s) \/ GiveUp(s)

UploadInvoiceDocument(s) ==
    kind = "invoice" /\ UploadDocument(s)
UploadReceiptDocument(s) ==
    kind = "receipt" /\ UploadDocument(s)

-----------------------------------------------------------------------------
(* The recovery workers.                                                   *)

\* Two minutes after it was written, or 30 seconds after a failed recovery.
Due(k) ==
    /\ Used(k) /\ effect[k].state = "PENDING" /\ ~ effect[k].due
    /\ effect' = [effect EXCEPT ![k].due = TRUE]
    /\ UNCHANGED <<document, session, app, redeploys, kind, gatewayVars>>

\* Mutant: the row is read without its lock.
RecoverableUnlocked(k) == Used(k) /\ effect[k].state = "PENDING" /\ effect[k].due

\* Mutant: only rows whose file is known are recovered.
RecoverableKnown(k) ==
    /\ Used(k) /\ effect[k].state = "PENDING" /\ effect[k].due
    /\ effect[k].file # None /\ ~ Locked(effect[k].doc)

\* Mutant: a row that was archived is recovered as well.
RecoverableAny(k) == Used(k) /\ effect[k].due /\ ~ Locked(effect[k].doc)

\* FOR UPDATE SKIP LOCKED
Recoverable(k) ==
    /\ Used(k) /\ effect[k].state = "PENDING" /\ effect[k].due
    /\ ~ Locked(effect[k].doc)

\* The upload is retired, its file released if it has one, the row closed.
RecoverOne(k) ==
    /\ Recoverable(k) /\ effect[k].app = app
    /\ RetireUpload(k)
    /\ Release(k)
    /\ effect' = [effect EXCEPT ![k].state = "RETIRED",
                                ![k].file = IF Stored(k) THEN k ELSE None]
    /\ UNCHANGED <<document, session, app, redeploys, kind, calls>>

\* The retirement is not answered in time, or it is, with a file, and the
\* release is not.  (A call that was refused is one that is lost.)
RecoveryGivesUp(k) ==
    \/ SendLate("retire", k) /\ UNCHANGED <<upload, binding>>
    \/ Stored(k) /\ RetireUpload(k) /\ SendLate("release", k) /\ UNCHANGED binding

\* A call fails or times out, the license is denied, or the row belongs to
\* another deployment, whose calls are not made: the row waits, unlocked, for
\* its next turn (unless the process stopped before it could say so).
RecoveryFails(k) ==
    /\ Recoverable(k)
    /\ effect' \in {effect, [effect EXCEPT ![k].due = FALSE]}
    /\ UNCHANGED gatewayVars \/ (effect[k].app = app /\ RecoveryGivesUp(k))
    /\ UNCHANGED <<document, session, app, redeploys, kind>>

RecoverInvoiceArchive(k) ==
    kind = "invoice" /\ (RecoverOne(k) \/ RecoveryFails(k))
RecoverReceiptArchive(k) ==
    kind = "receipt" /\ (RecoverOne(k) \/ RecoveryFails(k))

Redeploy ==
    /\ redeploys < MaxRedeploys
    /\ redeploys' = redeploys + 1
    /\ app' \in Apps \ {app}
    /\ UNCHANGED <<effect, document, session, kind, gatewayVars>>

-----------------------------------------------------------------------------
Next ==
    \/ \E s \in Sessions :
         \/ \E k \in Keys, d \in Documents : \/ PrepareInvoiceArchive(s, k, d)
                                             \/ PrepareReceiptArchive(s, k, d)
         \/ UploadInvoiceDocument(s) \/ UploadReceiptDocument(s)
    \/ \E k \in Keys : Due(k) \/ RecoverInvoiceArchive(k) \/ RecoverReceiptArchive(k)
    \/ Redeploy
    \/ GatewayNext /\ UNCHANGED archiveVars

Spec == Init /\ [][Next]_vars

\* Requests end (the transaction is bounded by 30 seconds), time passes, and
\* the worker, which ticks for ever, does not fail every time.
Fairness ==
    /\ \A s \in Sessions : WF_vars(UploadDocument(s))
    /\ \A k \in Keys : WF_vars(Due(k)) /\ SF_vars(RecoverOne(k))

FairSpec == Spec /\ Fairness

-----------------------------------------------------------------------------
\* The types of the rows.
TypeOK ==
    /\ kind \in {"invoice", "receipt"}
    /\ effect \in [Keys -> EffectRows \cup {NoEffect}]
    /\ document \in [Documents -> Keys \cup {None}]
    /\ session \in [Sessions -> Requests \cup {Idle}]
    /\ app \in Apps /\ redeploys \in 0 .. MaxRedeploys
    /\ GatewayTypeOK

\* The worker "never releases an ARCHIVED document": the file of a document is
\* stored and bound, and its key archived, for as long as the document exists,
\* whatever late uploads, binds, retirements and releases, retries under the
\* same key and recoveries do.  (A retirement that arrives late, after a retry
\* of its key archived, still closes the key to further uploads.)
DocumentFileKept ==
    \A d \in Documents : document[d] # None =>
      /\ Stored(document[d]) /\ binding[document[d]] = "active"
      /\ effect[document[d]].state = "ARCHIVED"

\* Every file at the gateway has a journal row that answers for it: nothing is
\* sent before the row is committed, a retired key leaves nothing usable
\* behind, and an archived key names the file of its document, uploaded by the
\* deployment the row names.
FilesAccounted ==
    \A k \in Keys :
      LET e == effect[k] IN
      /\ e.state = "NONE" => upload[k] = "none" /\ binding[k] = "none"
      /\ e.state = "RETIRED" => upload[k] # "ready" /\ binding[k] # "active"
      /\ e.state = "ARCHIVED" =>
           e.file # None /\ e.file = document[e.doc] /\ e.app = effect[e.file].app

\* A retry never undoes an answer: a key that was archived or retired stays so,
\* with its document and its deployment, and a document keeps its file.
AnswerIsFinal ==
    [][/\ \A k \in Keys : effect[k].state \in {"ARCHIVED", "RETIRED"} => effect'[k] = effect[k]
       /\ \A d \in Documents : document[d] # None => document'[d] = document[d]]_vars

\* A key that a request left pending is archived or retired in the end, unless
\* the deployment that may touch it is gone.
PendingResolved ==
    \A k \in Keys : effect[k].state = "PENDING"
                      ~> (effect[k].state # "PENDING" \/ effect[k].app # app)
=============================================================================
