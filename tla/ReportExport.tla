---------------------------- MODULE ReportExport ----------------------------
(***************************************************************************)
(* Report export jobs: a request leaves a job, a worker claims it under a  *)
(* lease with a new lease_generation, generates the file, uploads it to    *)
(* the file gateway, binds it and publishes the job.  Every generation     *)
(* journals its gateway calls (settlement_report_export_effect) so that    *)
(* what an abandoned generation left at the gateway can be cleaned up.     *)
(*                                                                         *)
(* Each step of a worker is one transaction that renews the lease first    *)
(* (leased); the two steps that call the gateway keep the job row locked   *)
(* for as long as the call lasts.  The heartbeat only keeps a lease alive  *)
(* and cancels a worker that has lost it.  The bytes of the report are     *)
(* abstracted to whether they are there.                                   *)
(***************************************************************************)
EXTENDS Naturals, FiniteSets, FileGateway

CONSTANTS Jobs,            \* export jobs, one per idempotency key of a requester
          Workers,         \* report export worker processes
          Configs,         \* deployments: [mode, gateway]
          Apps, FirstApp,  \* application ids at the gateway, and the first one
          MaxGenerations,  \* bound: claims of one job
          MaxDisruptions   \* bound: stops, and leases lost while their worker runs

Modes == {"legacy", "dual", "required"}

ASSUME ExportAssumption ==
    /\ Configs \subseteq [mode : Modes, gateway : BOOLEAN]
    /\ MaxGenerations \in Nat \ {0}
    /\ MaxDisruptions \in Nat
    /\ FirstApp \in Apps
    /\ Uploads = Jobs \X (1 .. MaxGenerations)

VARIABLES
    config,      \* SETTLEMENT_FILE_GATEWAY_MODE, and whether a gateway is set up
    job,         \* settlement_report_export_job
    effect,      \* <<job, generation>> -> settlement_report_export_effect
    app,         \* worker -> SETTLEMENT_FILE_GATEWAY_APPLICATION_ID it runs with
    worker,      \* worker -> the generate call it is in the middle of
    disruptions  \* disruptions so far

exportVars == <<config, job, effect, app, worker, disruptions>>
vars == <<exportVars, gatewayVars>>

Generations == 1 .. MaxGenerations
NoWorker == "none"

\* alive: locked_until is in the future.  file: generation whose file is
\* platform_file_id, 0 without one.  scoped: the requester's scope snapshot
\* allows the whole tenant.
JobRows == [status : {"NONE", "PENDING", "PROCESSING", "READY", "FAILED"},
            scoped : BOOLEAN, gen : 0 .. MaxGenerations,
            holder : Workers \cup {NoWorker}, alive : BOOLEAN,
            file : 0 .. MaxGenerations, content : BOOLEAN, expired : BOOLEAN]
EffectRows == [state : {"NONE", "PREPARED", "INTENT", "PUBLISHED", "COMPENSATED"},
               known : BOOLEAN,           \* file_id is recorded
               app : Apps]                \* meaningless while there is no row
Calls == [pc : {"claimed", "prepared", "intent", "uploading", "uploaded",
                "binding", "publish"},
          job : Jobs, gen : Generations, file : {"DISABLED", "FAILED", "READY"}]
Idle == [pc |-> "idle"]

NoJob == [status |-> "NONE", scoped |-> FALSE, gen |-> 0, holder |-> NoWorker,
          alive |-> FALSE, file |-> 0, content |-> FALSE, expired |-> FALSE]
NoEffect == [state |-> "NONE", known |-> FALSE, app |-> FirstApp]

Init ==
    /\ config \in Configs
    /\ job = [j \in Jobs |-> NoJob]
    /\ effect = [k \in Uploads |-> NoEffect]
    /\ app = [w \in Workers |-> FirstApp]
    /\ worker = [w \in Workers |-> Idle]
    /\ disruptions = 0
    /\ GatewayInit

-----------------------------------------------------------------------------
Key(w) == <<worker[w].job, worker[w].gen>>

At(w, pc) == worker[w].pc = pc
Step(w, pc) == worker' = [worker EXCEPT ![w].pc = pc]

\* A gateway call under way keeps the job row locked.
Locked(j) == \E w \in Workers : /\ worker[w].pc \in {"uploading", "binding"}
                                /\ worker[w].job = j

\* Mutant: the update asks for the status only.
HoldsRow(w) == job[worker[w].job].status = "PROCESSING"

\* The WHERE clause of renew, fail and publish.
Holds(w) ==
    LET v == job[worker[w].job] IN
    /\ v.status = "PROCESSING" /\ v.holder = w
    /\ v.gen = worker[w].gen /\ v.alive

\* createReportExport; a repeated key finds its job.
CreateReportExport(j, scoped) ==
    /\ job[j].status = "NONE"
    /\ job' = [job EXCEPT ![j] = [NoJob EXCEPT !.status = "PENDING", !.scoped = scoped]]
    /\ UNCHANGED <<config, app, effect, worker, disruptions, gatewayVars>>

\* Mutant: a job whose lease ran out is left alone.
ClaimablePending(j) == job[j].status = "PENDING"

Claimable(j) ==
    \/ job[j].status = "PENDING"
    \/ job[j].status = "PROCESSING" /\ ~ job[j].alive

\* claim, with FOR UPDATE SKIP LOCKED.
Claim(w, j) ==
    /\ worker[w] = Idle
    /\ Claimable(j) /\ ~ Locked(j)
    /\ job[j].gen < MaxGenerations
    /\ job' = [job EXCEPT ![j].status = "PROCESSING", ![j].gen = @ + 1,
                          ![j].holder = w, ![j].alive = TRUE]
    /\ worker' = [worker EXCEPT ![w] =
         [pc |-> "claimed", job |-> j, gen |-> job[j].gen + 1, file |-> "DISABLED"]]
    /\ UNCHANGED <<config, app, effect, disruptions, gatewayVars>>

-----------------------------------------------------------------------------
(* generate                                                                *)

\* failWithMessage
Fail(w) ==
    /\ Holds(w)
    /\ job' = [job EXCEPT ![worker[w].job] =
         [@ EXCEPT !.status = "FAILED", !.holder = NoWorker, !.alive = FALSE]]
    /\ worker' = [worker EXCEPT ![w] = Idle]

\* The scope snapshot does not allow it, the report cannot be read, or a
\* required gateway is not set up.
FailBeforeUpload(w) ==
    /\ At(w, "claimed")
    /\ Fail(w)
    /\ UNCHANGED <<config, app, effect, disruptions, gatewayVars>>

Scoped(w) == job[worker[w].job].scoped
UsesGateway == config.mode \in {"dual", "required"} /\ config.gateway

\* The report is generated and no gateway takes it.
GenerateLocally(w) ==
    /\ At(w, "claimed") /\ Scoped(w) /\ Holds(w)
    /\ ~ UsesGateway /\ config.mode # "required"
    /\ Step(w, "publish")
    /\ UNCHANGED <<config, app, job, effect, disruptions, gatewayVars>>

\* The report is generated and journaled, in a transaction before any call.
Prepare(w) ==
    /\ At(w, "claimed") /\ Scoped(w) /\ Holds(w)
    /\ UsesGateway
    /\ effect' = [effect EXCEPT ![Key(w)] = [@ EXCEPT !.state = "PREPARED", !.app = app[w]]]
    /\ Step(w, "prepared")
    /\ UNCHANGED <<config, app, job, disruptions, gatewayVars>>

Intend(w) ==
    /\ At(w, "prepared") /\ Holds(w)
    /\ effect[Key(w)].state = "PREPARED"
    /\ effect' = [effect EXCEPT ![Key(w)].state = "INTENT"]
    /\ Step(w, "intent")
    /\ UNCHANGED <<config, app, job, disruptions, gatewayVars>>

SendUpload(w) ==
    /\ At(w, "intent") /\ Holds(w)
    /\ Send("upload", Key(w))
    /\ Step(w, "uploading")
    /\ UNCHANGED <<config, app, job, effect, disruptions, upload, binding>>

UploadAnswered(w) ==
    /\ At(w, "uploading")
    /\ ~ InFlight("upload", Key(w)) /\ upload[Key(w)] = "ready"
    /\ effect[Key(w)].state = "INTENT"
    /\ effect' = [effect EXCEPT ![Key(w)].known = TRUE]
    /\ Step(w, "uploaded")
    /\ UNCHANGED <<config, app, job, disruptions, gatewayVars>>

SendBind(w) ==
    /\ At(w, "uploaded") /\ Holds(w)
    /\ Send("bind", Key(w))
    /\ Step(w, "binding")
    /\ UNCHANGED <<config, app, job, effect, disruptions, upload, binding>>

BindAnswered(w) ==
    /\ At(w, "binding")
    /\ ~ InFlight("bind", Key(w)) /\ binding[Key(w)] = "active"
    /\ worker' = [worker EXCEPT ![w].pc = "publish", ![w].file = "READY"]
    /\ UNCHANGED <<config, app, job, effect, disruptions, gatewayVars>>

\* A call to the gateway fails, or its answer is lost; the transaction around
\* it is rolled back.  Required: the job fails.  Dual: it goes on without file.
GatewayFails(w) ==
    /\ At(w, "uploading") \/ At(w, "binding")
    /\ \/ config.mode = "required" /\ Fail(w)
       \/ /\ config.mode = "dual"
          /\ worker' = [worker EXCEPT ![w].pc = "publish", ![w].file = "FAILED"]
          /\ UNCHANGED job
    /\ UNCHANGED <<config, app, effect, disruptions, gatewayVars>>

\* The job and its journal are published in one transaction.
Publish(w) ==
    LET filed == worker[w].file = "READY" IN
    /\ At(w, "publish") /\ Holds(w)
    /\ job' = [job EXCEPT ![worker[w].job] =
         [@ EXCEPT !.status = "READY", !.holder = NoWorker, !.alive = FALSE,
                   !.content = TRUE, !.file = IF filed THEN worker[w].gen ELSE 0]]
    /\ effect' = IF filed THEN [effect EXCEPT ![Key(w)].state = "PUBLISHED"] ELSE effect
    /\ worker' = [worker EXCEPT ![w] = Idle]
    /\ UNCHANGED <<config, app, disruptions, gatewayVars>>

\* The next renewal, or the heartbeat's, finds the lease gone.
LeaseLost(w) ==
    /\ worker[w] # Idle /\ ~ Holds(w)
    /\ worker' = [worker EXCEPT ![w] = Idle]
    /\ UNCHANGED <<config, app, job, effect, disruptions, gatewayVars>>

\* The process stops, or the database fails it; a new deployment may start it
\* again with another application id.
Stop(w) ==
    /\ disruptions < MaxDisruptions
    /\ disruptions' = disruptions + 1
    /\ worker' = [worker EXCEPT ![w] = Idle]
    /\ \E a \in Apps : app' = [app EXCEPT ![w] = a]
    /\ UNCHANGED <<config, job, effect, gatewayVars>>

\* A lease runs out: after its worker is gone, or because the worker could
\* not renew it in time.
LeaseExpires(j) ==
    LET held == \E w \in Workers : worker[w] # Idle /\ worker[w].job = j /\ Holds(w) IN
    /\ job[j].status = "PROCESSING" /\ job[j].alive
    /\ held => disruptions < MaxDisruptions
    /\ disruptions' = IF held THEN disruptions + 1 ELSE disruptions
    /\ job' = [job EXCEPT ![j].alive = FALSE]
    /\ UNCHANGED <<config, app, effect, worker, gatewayVars>>

-----------------------------------------------------------------------------
(* reconcileEffects: what an abandoned generation left behind.             *)

\* Mutant: only the journal row of the job's own generation is looked at.
AbandonedCurrent(k) ==
    /\ effect[k].state \in {"PREPARED", "INTENT"}
    /\ job[k[1]].gen = k[2] /\ job[k[1]].status # "PROCESSING"

\* An open journal row that no live generation is working on.
Abandoned(k) ==
    /\ effect[k].state \in {"PREPARED", "INTENT"}
    /\ ~ (/\ job[k[1]].status = "PROCESSING" /\ job[k[1]].gen = k[2]
          /\ job[k[1]].alive)

\* The worker may settle the row: no gateway call holds the job's lock, and
\* the row was written under the worker's application id.
Reconcilable(w, k) ==
    worker[w] = Idle /\ Abandoned(k) /\ ~ Locked(k[1]) /\ effect[k].app = app[w]

\* Mutant: an upload whose answer never came is not retired.
CleanUpKnown(k) ==
    Release(k) /\ IF effect[k].known THEN RetireUpload(k) ELSE UNCHANGED upload

\* The upload is retired, then its file, if there is one, released.
CleanUp(k) == RetireUpload(k) /\ Release(k)

\* The job row is locked while the gateway is called, and the row closed.  The
\* branch for a READY job that already names the file is never taken: Publish
\* closes both rows in one commit.
Reconcile(w, k) ==
    /\ Reconcilable(w, k)
    /\ CleanUp(k)
    /\ effect' = [effect EXCEPT ![k] = [@ EXCEPT !.state = "COMPENSATED", !.known = Stored(k)]]
    /\ UNCHANGED <<config, job, app, worker, disruptions, calls>>

\* The retirement is not answered in time, and nothing has become known; or it
\* is, with a file, and the release is not.  (A call that was refused is one
\* that is lost.)  The row is tried again.
ReconcileFails(w, k) ==
    /\ Reconcilable(w, k)
    /\ \/ SendLate("retire", k) /\ UNCHANGED <<effect, upload, binding>>
       \/ /\ Stored(k)
          /\ RetireUpload(k) /\ SendLate("release", k) /\ UNCHANGED binding
          /\ effect' = [effect EXCEPT ![k].known = TRUE]
    /\ UNCHANGED <<config, job, app, worker, disruptions>>

\* Seven days after publication; purgeExpiredContent drops the bytes.
Expire(j) ==
    /\ job[j].status = "READY" /\ ~ job[j].expired
    /\ job' = [job EXCEPT ![j].expired = TRUE]
    /\ UNCHANGED <<config, app, effect, worker, disruptions, gatewayVars>>

\* Mutant: every published job is purged.
PurgeableReady(j) == job[j].status = "READY"

Purgeable(j) == job[j].expired

PurgeExpiredContent(w) ==
    /\ worker[w] = Idle
    /\ \E j \in Jobs : Purgeable(j) /\ job[j].content
    /\ job' = [j \in Jobs |-> IF Purgeable(j) THEN [job[j] EXCEPT !.content = FALSE]
                                             ELSE job[j]]
    /\ UNCHANGED <<config, app, effect, worker, disruptions, gatewayVars>>

-----------------------------------------------------------------------------
Generate(w) ==
    \/ FailBeforeUpload(w) \/ GenerateLocally(w) \/ Prepare(w) \/ Intend(w)
    \/ SendUpload(w) \/ UploadAnswered(w) \/ SendBind(w) \/ BindAnswered(w)
    \/ GatewayFails(w) \/ Publish(w) \/ LeaseLost(w)

Next ==
    \/ \E j \in Jobs :
         \/ \E scoped \in BOOLEAN : CreateReportExport(j, scoped)
         \/ LeaseExpires(j)
         \/ Expire(j)
    \/ \E w \in Workers :
         \/ \E j \in Jobs : Claim(w, j)
         \/ Generate(w)
         \/ Stop(w)
         \/ PurgeExpiredContent(w)
         \/ \E k \in Uploads : Reconcile(w, k) \/ ReconcileFails(w, k)
    \/ GatewayNext /\ UNCHANGED exportVars

Spec == Init /\ [][Next]_vars

\* The worker loop ticks for ever: it claims, carries a call it is in to its
\* end (calls time out), and reconciles; the gateway answers some of the
\* clean-up calls; leases run out.
Fairness ==
    /\ \A w \in Workers :
         /\ WF_vars(Generate(w))
         /\ \A j \in Jobs : SF_vars(Claim(w, j))
         /\ \A k \in Uploads : SF_vars(Reconcile(w, k))
    /\ \A j \in Jobs : WF_vars(LeaseExpires(j))

FairSpec == Spec /\ Fairness

-----------------------------------------------------------------------------
\* The types of the rows.
TypeOK ==
    /\ config \in Configs
    /\ job \in [Jobs -> JobRows]
    /\ effect \in [Uploads -> EffectRows]
    /\ app \in [Workers -> Apps]
    /\ worker \in [Workers -> Calls \cup {Idle}]
    /\ disruptions \in 0 .. MaxDisruptions
    /\ GatewayTypeOK

\* A job that tells its requester of a platform file has one: stored, bound and
\* never retired or released by the clean-up of another generation.
PublishedFileKept ==
    \A j \in Jobs : job[j].file # 0 =>
      LET k == <<j, job[j].file>> IN
      /\ job[j].status = "READY" /\ effect[k].state = "PUBLISHED"
      /\ upload[k] = "ready" /\ binding[k] = "active"

\* Nothing is left at the gateway without a row that accounts for it: a call
\* is made only after its INTENT was committed, a generation that was
\* compensated has no active binding however late its calls arrive, and a
\* published one is the file of its job.
GatewayAccounted ==
    \A k \in Uploads :
      /\ effect[k].state \in {"NONE", "PREPARED"} =>
           /\ upload[k] \notin {"ready", "retired"} /\ binding[k] = "none"
           /\ ~ InFlight("upload", k) /\ ~ InFlight("bind", k)
      /\ effect[k].state = "COMPENSATED" => upload[k] # "ready" /\ binding[k] # "active"
      /\ effect[k].state = "PUBLISHED" => job[k[1]].file = k[2]

\* A finished job stays as it was published, whatever workers of earlier
\* generations still do; only its bytes go, and only after they expired.
FinishedIsFinal ==
    [][\A j \in Jobs : job[j].status \in {"READY", "FAILED"} =>
         /\ [job'[j] EXCEPT !.content = TRUE, !.expired = TRUE] =
              [job[j] EXCEPT !.content = TRUE, !.expired = TRUE]
         /\ job[j].content /\ ~ job'[j].content => job[j].expired]_vars

\* A job is finished in the end, also when its worker stopped or lost its lease.
JobSettles ==
    \A j \in Jobs : job[j].status \in {"PENDING", "PROCESSING"}
                      ~> job[j].status \in {"READY", "FAILED"}

\* What a generation began at the gateway is published or compensated, unless
\* no worker runs with the application id its row was written under: such a row
\* is refused at every turn.
EffectSettles ==
    \A k \in Uploads : effect[k].state \in {"PREPARED", "INTENT"}
                         ~> \/ effect[k].state \in {"PUBLISHED", "COMPENSATED"}
                            \/ \A w \in Workers : app[w] # effect[k].app
=============================================================================
