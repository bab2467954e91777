------------------------- MODULE ReportExport_proofs -------------------------
(***************************************************************************)
(* Proofs about ReportExport for every value of its constants: a published *)
(* file is kept, what a generation did at the gateway is accounted for,    *)
(* and a finished job stays finished.                                      *)
(***************************************************************************)
EXTENDS ReportExport, TLAPS

-----------------------------------------------------------------------------
(* The inductive invariant.                                                *)

\* The gateway: only a stored file is ever bound; what the journal says.
GatewaySound ==
    \A k \in Uploads :
      /\ binding[k] # "none" => Stored(k)
      /\ effect[k].state \in {"NONE", "PREPARED"} =>
           /\ ~ Stored(k)
           /\ ~ InFlight("upload", k) /\ ~ InFlight("bind", k)
      /\ effect[k].state = "COMPENSATED" =>
           /\ upload[k] \in {"cancelled", "retired"}
           /\ upload[k] = "retired" => binding[k] = "released"

\* A clean-up call under way, however late: its generation left a journal row
\* that was not published, nobody holds it any more and no gateway call of it
\* keeps the job locked.
InCleanUp(k) == InFlight("retire", k) \/ InFlight("release", k)

CleanUpSound ==
    \A k \in Uploads : InCleanUp(k) =>
      /\ effect[k].state \notin {"NONE", "PUBLISHED"}
      /\ \A v \in Workers : worker[v] # Idle /\ Key(v) = k =>
           ~ Holds(v) /\ worker[v].pc \notin {"uploading", "binding"}

\* A generation leaves a trace only after it was claimed, and is published only
\* as the file of its job.
GenerationsSound ==
    /\ \A j \in Jobs : job[j].status = "NONE" => job[j].gen = 0
    /\ \A k \in Uploads :
         /\ effect[k].state # "NONE" => k[2] <= job[k[1]].gen
         /\ effect[k].state = "PUBLISHED" => job[k[1]].file = k[2]

\* No two workers are in the middle of the same generation.
OneWorker ==
    \A v, w \in Workers :
      worker[v] # Idle /\ worker[w] # Idle /\ Key(v) = Key(w) => v = w

\* What a worker knows.  The row it wrote is as it left it while it holds the
\* lease, and while the gateway call keeps the job locked also without it.
WorkerSound(w) ==
    LET r == worker[w]
        e == effect[Key(w)].state IN
    r # Idle =>
      /\ r.gen <= job[r.job].gen
      /\ r.pc # "publish" => r.file = "DISABLED"
      /\ r.pc = "claimed" /\ Holds(w) => e = "NONE"
      /\ r.pc = "prepared" /\ Holds(w) => e = "PREPARED"
      /\ r.pc = "intent" /\ Holds(w) => e = "INTENT"
      /\ r.pc \in {"uploading", "binding"} => e = "INTENT"
      /\ r.pc = "uploaded" /\ Holds(w) => e = "INTENT" /\ upload[Key(w)] = "ready"
      /\ r.pc = "binding" => upload[Key(w)] = "ready"
      /\ r.pc = "publish" /\ r.file = "READY" /\ Holds(w) =>
           e = "INTENT" /\ upload[Key(w)] = "ready" /\ binding[Key(w)] = "active"

WorkersSound == \A w \in Workers : WorkerSound(w)

ExportInv ==
    /\ TypeOK /\ GatewaySound /\ CleanUpSound /\ GenerationsSound
    /\ OneWorker /\ WorkersSound /\ PublishedFileKept

-----------------------------------------------------------------------------
(* The steps.                                                              *)

\* Rows and calls are records of their types; a worker in a call has a key.
LEMMA Rows ==
    ASSUME TypeOK
    PROVE  /\ \A j \in Jobs : /\ job[j] \in JobRows /\ job[j].gen \in Nat
                              /\ job[j].file \in 0 .. MaxGenerations
           /\ \A w \in Workers : worker[w] # Idle =>
                /\ worker[w] \in Calls /\ worker[w].job \in Jobs
                /\ worker[w].gen \in Generations /\ worker[w].gen \in Nat \ {0}
                /\ Key(w) \in Uploads
           /\ \A w \in Workers : worker[w] = Idle <=> worker[w].pc = "idle"
           /\ \A k \in Uploads : /\ effect[k] \in EffectRows
                                 /\ k = <<k[1], k[2]>> /\ k[1] \in Jobs
                                 /\ k[2] \in Generations /\ k[2] \in Nat \ {0}
BY ExportAssumption DEF TypeOK, JobRows, Calls, EffectRows, Idle, Key, Generations

\* Nothing is requested, written or sent at the start.
LEMMA ExportInit == Init => ExportInv
<1> SUFFICES ASSUME Init PROVE ExportInv
  OBVIOUS
<1>1. NoJob \in JobRows /\ NoEffect \in EffectRows
  BY ExportAssumption DEF NoJob, JobRows, NoEffect, EffectRows
<1>2. TypeOK
  BY <1>1, ExportAssumption DEF Init, TypeOK, GatewayInit, GatewayTypeOK
<1>3. GatewaySound /\ CleanUpSound /\ GenerationsSound
  BY <1>2, Rows DEF Init, GatewayInit, GatewaySound, CleanUpSound, InCleanUp, GenerationsSound,
                    NoJob, NoEffect, Stored, InFlight
<1>4. OneWorker /\ WorkersSound
  BY DEF Init, OneWorker, WorkersSound, WorkerSound
<1>5. PublishedFileKept
  BY DEF Init, PublishedFileKept, NoJob
<1> QED
  BY <1>2, <1>3, <1>4, <1>5 DEF ExportInv

\* A worker goes on with its call: its own journal row and what is on its way
\* to the gateway may change, the job does not.
LEMMA CallMoves ==
    ASSUME ExportInv, NEW w \in Workers, worker[w] # Idle,
           NEW r \in Calls, r.job = worker[w].job, r.gen = worker[w].gen,
           NEW e \in EffectRows, NEW c \in SUBSET ({"upload", "bind"} \X {Key(w)}),
           worker' = [worker EXCEPT ![w] = r],
           effect' = [effect EXCEPT ![Key(w)] = e],
           calls' = calls \cup c,
           UNCHANGED <<config, job, app, disruptions, upload, binding>>,
           ~ InCleanUp(Key(w)),
           \/ e = effect[Key(w)]
           \/ /\ effect[Key(w)].state \in {"NONE", "PREPARED", "INTENT"}
              /\ e.state \in {"PREPARED", "INTENT"},
           e.state = "PREPARED" => effect[Key(w)].state \in {"NONE", "PREPARED"},
           c # {} => e.state = "INTENT",
           WorkerSound(w)'
    PROVE  ExportInv'
<1>0. TypeOK
  BY DEF ExportInv
<1> DEFINE k == Key(w)
<1>1. k \in Uploads /\ k[1] = r.job /\ k[2] = r.gen
  BY <1>0, Rows DEF Key
<1>2. /\ effect'[k] = e /\ \A i \in Uploads : i # k => effect'[i] = effect[i]
      /\ worker'[w] = r /\ \A v \in Workers : v # w => worker'[v] = worker[v]
  BY <1>0, <1>1 DEF TypeOK
<1>3. \A v \in Workers : Key(v)' = Key(v)
  BY <1>2 DEF Key
<1>4. \A v \in Workers : v # w => Holds(v)' = Holds(v)
  BY <1>2 DEF Holds
<1>5. r # Idle
  BY DEF Calls, Idle
<1>6. TypeOK'
  BY <1>0, <1>1 DEF TypeOK, GatewayTypeOK, Operations
<1>12. CleanUpSound'
  <2>1. \A i \in Uploads : InCleanUp(i)' => InCleanUp(i) /\ i # k
    BY DEF InCleanUp, InFlight
  <2> QED
    BY <2>1, <1>2, <1>3, <1>4 DEF ExportInv, CleanUpSound
<1>7. GatewaySound'
  <2> SUFFICES ASSUME NEW i \in Uploads PROVE GatewaySound!(i)'
    BY DEF GatewaySound
  <2>1. GatewaySound!(i)
    BY DEF ExportInv, GatewaySound
  <2>2. CASE i = k
    BY <2>1, <2>2, <1>2 DEF Stored, InFlight
  <2>3. CASE i # k
    <3>1. \A op \in {"upload", "bind"} : <<op, i>> \notin c
      BY <2>3
    <3> QED
      BY <2>1, <2>3, <3>1, <1>2 DEF Stored, InFlight
  <2> QED
    BY <2>2, <2>3
<1>8. GenerationsSound'
  <2>1. r.gen <= job[r.job].gen
    BY <1>0, Rows DEF ExportInv, WorkersSound, WorkerSound
  <2> SUFFICES ASSUME NEW i \in Uploads PROVE GenerationsSound!2!(i)'
    BY DEF ExportInv, GenerationsSound
  <2>2. CASE i = k
    BY <2>1, <2>2, <1>1, <1>2 DEF ExportInv, GenerationsSound
  <2>3. CASE i # k
    BY <2>3, <1>2 DEF ExportInv, GenerationsSound
  <2> QED
    BY <2>2, <2>3
<1>9. OneWorker'
  BY <1>2, <1>3, <1>5 DEF ExportInv, OneWorker
<1>10. WorkersSound'
  <2> SUFFICES ASSUME NEW v \in Workers, v # w, worker[v] # Idle PROVE WorkerSound(v)'
    BY <1>2 DEF WorkersSound, WorkerSound
  <2>1. WorkerSound(v) /\ Key(v) # k /\ Key(v) \in Uploads
    BY <1>0, Rows DEF ExportInv, WorkersSound, OneWorker
  <2> QED
    BY <2>1, <1>2, <1>3, <1>4 DEF WorkerSound
<1>11. PublishedFileKept'
  <2> SUFFICES ASSUME NEW j \in Jobs, job[j].file # 0 PROVE PublishedFileKept!(j)'
    BY DEF PublishedFileKept
  <2>1. <<j, job[j].file>> \in Uploads
    BY <1>0, Rows, ExportAssumption
  <2> QED
    BY <2>1, <1>2 DEF ExportInv, PublishedFileKept
<1> QED
  BY <1>6, <1>7, <1>8, <1>9, <1>10, <1>11, <1>12 DEF ExportInv

\* A lease ends, a worker gives up, a job is created, failed or expires: nobody
\* gains a lease and no generation begins.
LEMMA JobMoves ==
    ASSUME ExportInv, TypeOK',
           UNCHANGED <<effect, gatewayVars>>,
           \A v \in Workers : worker'[v] = worker[v] \/ worker'[v] = Idle,
           \A v \in Workers : worker'[v] # Idle /\ Holds(v)' => Holds(v),
           \A j \in Jobs : /\ job'[j].gen = job[j].gen /\ job'[j].file = job[j].file
                           /\ job'[j].status = "NONE" => job[j].status = "NONE"
                           /\ job[j].status = "READY" => job'[j].status = "READY"
    PROVE  ExportInv'
<1>0. TypeOK
  BY DEF ExportInv
<1>1. GatewaySound'
  BY DEF ExportInv, GatewaySound, Stored, InFlight, gatewayVars
<1>6. CleanUpSound'
  BY DEF ExportInv, CleanUpSound, InCleanUp, InFlight, Key, gatewayVars
<1>2. GenerationsSound'
  BY <1>0, Rows DEF ExportInv, GenerationsSound
<1>3. OneWorker'
  BY DEF ExportInv, OneWorker, Key
<1>4. WorkersSound'
  <2> SUFFICES ASSUME NEW v \in Workers, worker'[v] # Idle PROVE WorkerSound(v)'
    BY DEF WorkersSound, WorkerSound
  <2>1. WorkerSound(v) /\ worker'[v] = worker[v] /\ Key(v)' = Key(v) /\ worker[v].job \in Jobs
    BY <1>0, Rows DEF ExportInv, WorkersSound, Key
  <2> QED
    BY <2>1 DEF WorkerSound, gatewayVars
<1>5. PublishedFileKept'
  BY DEF ExportInv, PublishedFileKept, gatewayVars
<1> QED
  BY <1>1, <1>2, <1>3, <1>4, <1>5, <1>6 DEF ExportInv

\* createReportExport, failWithMessage, a lost or expired lease, a stopped
\* process, and the expiry of a published report.
LEMMA JobStep ==
    ASSUME ExportInv,
           \/ \E j \in Jobs : \/ \E scoped \in BOOLEAN : CreateReportExport(j, scoped)
                              \/ LeaseExpires(j) \/ Expire(j)
           \/ \E w \in Workers :
                \/ worker[w] # Idle /\ Fail(w)
                   /\ UNCHANGED <<config, app, effect, disruptions, gatewayVars>>
                \/ LeaseLost(w) \/ Stop(w) \/ PurgeExpiredContent(w)
    PROVE  ExportInv'
<1>0. TypeOK
  BY DEF ExportInv
<1>1. ASSUME NEW j \in Jobs, NEW scoped \in BOOLEAN, CreateReportExport(j, scoped)
      PROVE  ExportInv'
  <2> DEFINE q == [NoJob EXCEPT !.status = "PENDING", !.scoped = scoped]
  <2>1. q \in JobRows /\ q.gen = 0 /\ q.file = 0 /\ q.status = "PENDING"
    <3>1. NoJob \in JobRows /\ NoJob.gen = 0 /\ NoJob.file = 0
      BY ExportAssumption DEF NoJob, JobRows
    <3> QED
      BY <3>1 DEF JobRows
  <2>2. job' = [job EXCEPT ![j] = q] /\ job[j].status = "NONE"
    BY <1>1 DEF CreateReportExport
  <2>3. job[j].gen = 0 /\ job[j].file = 0
    BY <2>2, <1>0, Rows DEF ExportInv, GenerationsSound, PublishedFileKept
  <2> HIDE DEF q
  <2>4. TypeOK'
    BY <2>1, <2>2, <1>0, <1>1 DEF CreateReportExport, TypeOK, GatewayTypeOK, gatewayVars
  <2>5. UNCHANGED <<effect, worker, gatewayVars>>
    BY <1>1 DEF CreateReportExport
  <2>6. \A v \in Workers : worker'[v] # Idle /\ Holds(v)' => Holds(v)
    BY <2>1, <2>2, <2>5, <1>0, Rows DEF Holds, TypeOK
  <2>7. \A i \in Jobs : /\ job'[i].gen = job[i].gen /\ job'[i].file = job[i].file
                        /\ job'[i].status = "NONE" => job[i].status = "NONE"
                        /\ job[i].status = "READY" => job'[i].status = "READY"
    BY <2>1, <2>2, <2>3, <1>0 DEF TypeOK
  <2> QED
    BY <2>4, <2>5, <2>6, <2>7, JobMoves
<1>2. ASSUME NEW j \in Jobs, LeaseExpires(j) PROVE ExportInv'
  <2>1. TypeOK'
    <3>1. [job[j] EXCEPT !.alive = FALSE] \in JobRows
      BY <1>0, Rows DEF JobRows
    <3>2. disruptions' \in 0 .. MaxDisruptions
      BY <1>0, <1>2, ExportAssumption DEF TypeOK, LeaseExpires
    <3> QED
      BY <3>1, <3>2, <1>0, <1>2 DEF LeaseExpires, TypeOK, GatewayTypeOK, gatewayVars
  <2>2. UNCHANGED <<effect, worker, gatewayVars>>
    BY <1>2 DEF LeaseExpires
  <2>3. /\ \A i \in Jobs : i # j => job'[i] = job[i]
        /\ job'[j].alive = FALSE /\ job'[j].gen = job[j].gen /\ job'[j].file = job[j].file
        /\ job'[j].status = job[j].status
    BY <1>0, <1>2, Rows DEF LeaseExpires, TypeOK, JobRows
  <2>4. \A v \in Workers : worker'[v] # Idle /\ Holds(v)' => Holds(v)
    BY <2>2, <2>3, <1>0, Rows DEF Holds
  <2> QED
    BY <2>1, <2>2, <2>3, <2>4, JobMoves
<1>3. ASSUME NEW j \in Jobs, Expire(j) PROVE ExportInv'
  <2>1. TypeOK'
    <3>1. [job[j] EXCEPT !.expired = TRUE] \in JobRows
      BY <1>0, Rows DEF JobRows
    <3> QED
      BY <3>1, <1>0, <1>3 DEF Expire, TypeOK, GatewayTypeOK, gatewayVars
  <2>2. UNCHANGED <<effect, worker, gatewayVars>>
    BY <1>3 DEF Expire
  <2>3. /\ \A i \in Jobs : i # j => job'[i] = job[i]
        /\ job'[j].gen = job[j].gen /\ job'[j].file = job[j].file
        /\ job'[j].status = job[j].status /\ job[j].status = "READY"
    BY <1>0, <1>3, Rows DEF Expire, TypeOK, JobRows
  <2>4. \A v \in Workers : worker'[v] # Idle /\ Holds(v)' => Holds(v)
    BY <2>2, <2>3, <1>0, Rows DEF Holds
  <2> QED
    BY <2>1, <2>2, <2>3, <2>4, JobMoves
<1>4. ASSUME NEW w \in Workers, worker[w] # Idle, Fail(w),
             UNCHANGED <<config, app, effect, disruptions, gatewayVars>>
      PROVE  ExportInv'
  <2> DEFINE j == worker[w].job
             q == [job[j] EXCEPT !.status = "FAILED", !.holder = NoWorker, !.alive = FALSE]
  <2>1. j \in Jobs /\ job[j] \in JobRows /\ job[j].status = "PROCESSING"
    BY <1>0, <1>4, Rows DEF Fail, Holds
  <2>2. q \in JobRows /\ q.gen = job[j].gen /\ q.file = job[j].file /\ q.status = "FAILED"
    BY <2>1 DEF JobRows
  <2>3. job' = [job EXCEPT ![j] = q] /\ worker' = [worker EXCEPT ![w] = Idle]
    BY <1>4 DEF Fail
  <2> HIDE DEF q, j
  <2>4. /\ job'[j] = q /\ \A i \in Jobs : i # j => job'[i] = job[i]
        /\ worker'[w] = Idle /\ \A v \in Workers : v # w => worker'[v] = worker[v]
    BY <2>1, <2>3, <1>0 DEF TypeOK
  <2>5. TypeOK'
    BY <2>2, <2>3, <1>0, <1>4 DEF TypeOK, GatewayTypeOK, gatewayVars
  <2>6. \A v \in Workers : worker'[v] # Idle /\ Holds(v)' => Holds(v)
    BY <2>2, <2>4, <1>0, Rows DEF Holds
  <2> QED
    BY <2>1, <2>2, <2>4, <2>5, <2>6, <1>4, JobMoves
<1>5. ASSUME NEW w \in Workers, LeaseLost(w) \/ Stop(w) PROVE ExportInv'
  <2>1. worker' = [worker EXCEPT ![w] = Idle] /\ UNCHANGED <<config, job, effect, gatewayVars>>
    BY <1>5 DEF LeaseLost, Stop
  <2>2. disruptions' \in 0 .. MaxDisruptions /\ app' \in [Workers -> Apps]
    BY <1>0, <1>5, ExportAssumption DEF TypeOK, LeaseLost, Stop
  <2>3. worker'[w] = Idle /\ \A v \in Workers : v # w => worker'[v] = worker[v]
    BY <2>1, <1>0 DEF TypeOK
  <2>4. TypeOK'
    BY <2>1, <2>2, <1>0 DEF TypeOK, GatewayTypeOK, gatewayVars
  <2>5. \A v \in Workers : worker'[v] # Idle /\ Holds(v)' => Holds(v)
    BY <2>1, <2>3 DEF Holds
  <2> QED
    BY <2>1, <2>3, <2>4, <2>5, JobMoves
<1>6. ASSUME NEW w \in Workers, PurgeExpiredContent(w) PROVE ExportInv'
  <2>1. \A j \in Jobs : [job[j] EXCEPT !.content = FALSE] \in JobRows
    BY <1>0, Rows DEF JobRows
  <2>2. TypeOK'
    BY <2>1, <1>0, <1>6, Rows DEF PurgeExpiredContent, TypeOK, GatewayTypeOK, gatewayVars
  <2>3. UNCHANGED <<effect, worker, gatewayVars>>
    BY <1>6 DEF PurgeExpiredContent
  <2>4. \A j \in Jobs : /\ job'[j].gen = job[j].gen /\ job'[j].file = job[j].file
                        /\ job'[j].status = job[j].status /\ job'[j].holder = job[j].holder
                        /\ job'[j].alive = job[j].alive
    BY <1>0, <1>6, Rows DEF PurgeExpiredContent, JobRows
  <2>5. \A v \in Workers : worker'[v] # Idle /\ Holds(v)' => Holds(v)
    BY <2>3, <2>4, <1>0, Rows DEF Holds
  <2> QED
    BY <2>2, <2>3, <2>4, <2>5, JobMoves
<1> QED
  BY <1>1, <1>2, <1>3, <1>4, <1>5, <1>6

\* claim: the new generation is above every one that left a trace, so whoever
\* works on an older one does not hold the lease again.
LEMMA ClaimStep ==
    ASSUME ExportInv, NEW w \in Workers, NEW j \in Jobs, Claim(w, j)
    PROVE  ExportInv'
<1>0. TypeOK
  BY DEF ExportInv
<1> DEFINE g == job[j].gen + 1
           q == [job[j] EXCEPT !.status = "PROCESSING", !.gen = g, !.holder = w, !.alive = TRUE]
           r == [pc |-> "claimed", job |-> j, gen |-> g, file |-> "DISABLED"]
           k == <<j, g>>
<1>1. g \in Generations /\ g \in Nat /\ k \in Uploads /\ job[j].gen < g
  BY <1>0, Rows, ExportAssumption DEF Claim, JobRows, Generations
<1>2. q \in JobRows /\ r \in Calls /\ r # Idle
  <2>1. job[j] \in JobRows /\ g \in 0 .. MaxGenerations
    BY <1>0, <1>1, Rows DEF Generations
  <2>2. r \in Calls /\ r # Idle
    BY <1>1 DEF Calls, Idle
  <2> HIDE DEF g
  <2>3. q \in JobRows
    BY <2>1 DEF JobRows
  <2> QED
    BY <2>2, <2>3
<1>3. /\ q.status = "PROCESSING" /\ q.gen = g /\ q.file = job[j].file
      /\ r.pc = "claimed" /\ r.job = j /\ r.gen = g /\ r.file = "DISABLED"
  BY <1>0, Rows DEF JobRows
<1>4. /\ job' = [job EXCEPT ![j] = q] /\ worker' = [worker EXCEPT ![w] = r]
      /\ UNCHANGED <<config, app, effect, disruptions, gatewayVars>>
      /\ job[j].status \in {"PENDING", "PROCESSING"}
  BY DEF Claim, Claimable
<1> HIDE DEF q, r
<1>5. /\ job'[j] = q /\ \A i \in Jobs : i # j => job'[i] = job[i]
      /\ worker'[w] = r /\ \A v \in Workers : v # w => worker'[v] = worker[v]
  BY <1>0, <1>4 DEF TypeOK
<1>6. job[j].file = 0
  BY <1>4 DEF ExportInv, PublishedFileKept
<1>7. \A i \in Uploads : i[1] = j /\ effect[i].state # "NONE" => i[2] < g
  BY <1>0, <1>1, Rows DEF ExportInv, GenerationsSound
<1>8. \A v \in Workers : worker[v] # Idle /\ worker[v].job = j => worker[v].gen < g
  BY <1>0, <1>1, Rows DEF ExportInv, WorkersSound, WorkerSound
<1>9. Key(w)' = k /\ \A v \in Workers : v # w => Key(v)' = Key(v)
  BY <1>3, <1>5 DEF Key
<1> HIDE DEF g
<1>10. TypeOK'
  BY <1>0, <1>2, <1>4 DEF TypeOK, GatewayTypeOK, gatewayVars
<1>11. GatewaySound'
  BY <1>4 DEF ExportInv, GatewaySound, Stored, InFlight, gatewayVars
<1>16. CleanUpSound'
  <2> SUFFICES ASSUME NEW i \in Uploads, InCleanUp(i)' PROVE CleanUpSound!(i)!2'
    BY DEF CleanUpSound
  <2>1. CleanUpSound!(i)!2
    BY <1>4 DEF ExportInv, CleanUpSound, InCleanUp, InFlight, gatewayVars
  <2>2. i # k
    BY <2>1, <1>1, <1>7
  <2>3. ASSUME NEW v \in Workers, worker'[v] # Idle, Key(v)' = i
        PROVE  ~ Holds(v)' /\ worker'[v].pc \notin {"uploading", "binding"}
    <3>1. v # w /\ worker'[v] = worker[v] /\ Key(v) = i
      BY <2>2, <2>3, <1>5, <1>9
    <3>2. worker[v].job \in Jobs /\ worker[v].gen \in Nat /\ worker[v] # Idle
      BY <2>3, <3>1, <1>0, Rows
    <3>3. Holds(v)' => Holds(v)
      BY <3>1, <3>2, <1>1, <1>3, <1>5, <1>8 DEF Holds
    <3> QED
      BY <3>1, <3>2, <3>3, <2>1
  <2> QED
    BY <2>1, <2>3, <1>4
<1>12. GenerationsSound'
  <2>1. \A i \in Jobs : job'[i].status = "NONE" => job'[i].gen = 0
    BY <1>3, <1>5 DEF ExportInv, GenerationsSound
  <2> SUFFICES ASSUME NEW i \in Uploads PROVE GenerationsSound!2!(i)'
    BY <2>1 DEF GenerationsSound
  <2>2. i[1] \in Jobs /\ i[2] \in Nat
    BY <1>0, Rows
  <2> QED
    BY <2>2, <1>1, <1>3, <1>4, <1>5, <1>7 DEF ExportInv, GenerationsSound
<1>13. OneWorker'
  <2>1. \A v \in Workers : v # w /\ worker[v] # Idle => Key(v) # k
    BY <1>0, <1>1, <1>8, Rows DEF Key
  <2> QED
    BY <2>1, <1>5, <1>9 DEF ExportInv, OneWorker
<1>14. WorkersSound'
  <2>1. WorkerSound(w)'
    <3>1. effect[k].state = "NONE"
      BY <1>1, <1>7
    <3>2. g <= job'[j].gen
      BY <1>1, <1>3, <1>5
    <3> QED
      BY <3>1, <3>2, <1>3, <1>4, <1>5, <1>9 DEF WorkerSound
  <2>2. ASSUME NEW v \in Workers, v # w, worker[v] # Idle PROVE WorkerSound(v)'
    <3>1. WorkerSound(v) /\ worker'[v] = worker[v] /\ Key(v)' = Key(v)
      BY <2>2, <1>5, <1>9 DEF ExportInv, WorkersSound
    <3>2. worker[v].job \in Jobs /\ worker[v].gen \in Nat
      BY <2>2, <1>0, Rows
    <3>3. Holds(v)' => Holds(v)
      BY <2>2, <3>1, <3>2, <1>1, <1>3, <1>5, <1>8 DEF Holds
    <3>4. worker'[v].gen <= job'[worker[v].job].gen
      BY <2>2, <3>1, <3>2, <1>1, <1>3, <1>5, <1>8 DEF WorkerSound
    <3> QED
      BY <3>1, <3>3, <3>4, <1>4 DEF WorkerSound, gatewayVars
  <2> QED
    BY <2>1, <2>2, <1>5 DEF WorkersSound, WorkerSound
<1>15. PublishedFileKept'
  BY <1>3, <1>4, <1>5, <1>6 DEF ExportInv, PublishedFileKept, gatewayVars
<1> QED
  BY <1>10, <1>11, <1>12, <1>13, <1>14, <1>15, <1>16 DEF ExportInv

\* The gateway steps of generate: journal rows, requests, answers, and in mode
\* dual a failure that leaves the job without a file.
LEMMA CallStep ==
    ASSUME ExportInv, NEW w \in Workers,
           \/ GenerateLocally(w) \/ Prepare(w) \/ Intend(w) \/ SendUpload(w)
           \/ UploadAnswered(w) \/ SendBind(w) \/ BindAnswered(w)
           \/ /\ At(w, "uploading") \/ At(w, "binding")
              /\ worker' = [worker EXCEPT ![w].pc = "publish", ![w].file = "FAILED"]
              /\ UNCHANGED <<config, app, job, effect, disruptions, gatewayVars>>
    PROVE  ExportInv'
<1>0. TypeOK /\ GatewayTypeOK
  BY DEF ExportInv, TypeOK
<1> DEFINE k == Key(w)
<1>1. worker[w] # Idle /\ worker[w].pc # "idle"
  BY DEF GenerateLocally, Prepare, Intend, SendUpload, UploadAnswered, SendBind, BindAnswered,
         At, Idle
<1>2. worker[w] \in Calls /\ k \in Uploads /\ effect[k] \in EffectRows /\ worker[w].job \in Jobs
  BY <1>0, <1>1, Rows
<1>3. WorkerSound(w)
  BY DEF ExportInv, WorkersSound
<1>4. effect = [effect EXCEPT ![k] = effect[k]] /\ calls = calls \cup {}
  BY <1>0, <1>2 DEF TypeOK
<1>5. /\ UNCHANGED <<config, job, app, disruptions, upload, binding>>
      /\ Holds(w) \/ worker[w].pc \in {"uploading", "binding"}
  BY DEF GenerateLocally, Prepare, Intend, SendUpload, UploadAnswered, SendBind, BindAnswered,
         gatewayVars, At
<1>17. ~ InCleanUp(k)
  BY <1>1, <1>2, <1>5 DEF ExportInv, CleanUpSound
<1>6. \A pc \in {"prepared", "intent", "uploading", "uploaded", "binding", "publish"} :
        LET r == [worker[w] EXCEPT !.pc = pc] IN
        /\ r \in Calls /\ r.job = worker[w].job /\ r.gen = worker[w].gen
        /\ r.pc = pc /\ r.file = worker[w].file /\ r # Idle
  BY <1>2 DEF Calls, Idle
<1>7. \A f \in {"FAILED", "READY"} :
        LET r == [worker[w] EXCEPT !.pc = "publish", !.file = f] IN
        /\ r \in Calls /\ r.job = worker[w].job /\ r.gen = worker[w].gen
        /\ r.pc = "publish" /\ r.file = f /\ r # Idle
  BY <1>2 DEF Calls, Idle
\* What has to be shown of the new call r and the new journal row e.
<1>8. ASSUME NEW r \in Calls, r.job = worker[w].job, r.gen = worker[w].gen, r # Idle,
             worker' = [worker EXCEPT ![w] = r]
      PROVE  worker'[w] = r /\ Key(w)' = k /\ (Holds(w)' <=> Holds(w))
  BY <1>0, <1>5, <1>8 DEF TypeOK, Key, Holds
<1>9. CASE GenerateLocally(w)
  <2> DEFINE r == [worker[w] EXCEPT !.pc = "publish"]
  <2>1. /\ worker' = [worker EXCEPT ![w] = r] /\ effect' = effect /\ calls' = calls
        /\ worker[w].pc = "claimed"
    BY <1>9 DEF GenerateLocally, Step, gatewayVars, At
  <2>2. r \in Calls /\ r.job = worker[w].job /\ r.gen = worker[w].gen /\ r.pc = "publish"
        /\ r.file = "DISABLED" /\ r # Idle
    BY <1>1, <1>3, <1>6, <2>1 DEF WorkerSound
  <2> HIDE DEF r
  <2>3. WorkerSound(w)'
    BY <1>1, <1>3, <1>5, <1>8, <2>1, <2>2 DEF WorkerSound
  <2> QED
    BY <1>1, <1>2, <1>4, <1>5, <1>17, <2>1, <2>2, <2>3, CallMoves
<1>10. CASE Prepare(w)
  <2> DEFINE r == [worker[w] EXCEPT !.pc = "prepared"]
             e == [effect[k] EXCEPT !.state = "PREPARED", !.app = app[w]]
  <2>1. /\ worker' = [worker EXCEPT ![w] = r] /\ effect' = [effect EXCEPT ![k] = e]
        /\ calls' = calls /\ worker[w].pc = "claimed" /\ Holds(w)
    BY <1>10 DEF Prepare, Step, gatewayVars, At
  <2>2. /\ r \in Calls /\ r.job = worker[w].job /\ r.gen = worker[w].gen /\ r.pc = "prepared"
        /\ r.file = "DISABLED" /\ r # Idle
    BY <1>1, <1>3, <1>6, <2>1 DEF WorkerSound
  <2>3. e \in EffectRows /\ e.state = "PREPARED" /\ effect[k].state = "NONE"
    BY <1>0, <1>1, <1>2, <1>3, <2>1 DEF WorkerSound, EffectRows, TypeOK
  <2> HIDE DEF r, e
  <2>4. effect'[k] = e
    BY <1>0, <1>2, <2>1 DEF TypeOK
  <2>5. WorkerSound(w)'
    BY <1>1, <1>3, <1>5, <1>8, <2>1, <2>2, <2>3, <2>4 DEF WorkerSound
  <2> QED
    BY <1>1, <1>2, <1>4, <1>5, <1>17, <2>1, <2>2, <2>3, <2>5, CallMoves
<1>11. CASE Intend(w)
  <2> DEFINE r == [worker[w] EXCEPT !.pc = "intent"]
             e == [effect[k] EXCEPT !.state = "INTENT"]
  <2>1. /\ worker' = [worker EXCEPT ![w] = r] /\ effect' = [effect EXCEPT ![k] = e]
        /\ calls' = calls /\ worker[w].pc = "prepared" /\ effect[k].state = "PREPARED"
    BY <1>11 DEF Intend, Step, gatewayVars, At
  <2>2. /\ r \in Calls /\ r.job = worker[w].job /\ r.gen = worker[w].gen /\ r.pc = "intent"
        /\ r.file = "DISABLED" /\ r # Idle
    BY <1>1, <1>3, <1>6, <2>1 DEF WorkerSound
  <2>3. e \in EffectRows /\ e.state = "INTENT"
    BY <1>2 DEF EffectRows
  <2> HIDE DEF r, e
  <2>4. effect'[k] = e
    BY <1>0, <1>2, <2>1 DEF TypeOK
  <2>5. WorkerSound(w)'
    BY <1>1, <1>3, <1>5, <1>8, <2>1, <2>2, <2>3, <2>4 DEF WorkerSound
  <2> QED
    BY <1>1, <1>2, <1>4, <1>5, <1>17, <2>1, <2>2, <2>3, <2>5, CallMoves
<1>12. CASE SendUpload(w)
  <2> DEFINE r == [worker[w] EXCEPT !.pc = "uploading"]
  <2>1. /\ worker' = [worker EXCEPT ![w] = r] /\ effect' = effect
        /\ calls' = calls \cup {<<"upload", k>>} /\ worker[w].pc = "intent" /\ Holds(w)
    BY <1>12 DEF SendUpload, Step, Send, At
  <2>2. /\ r \in Calls /\ r.job = worker[w].job /\ r.gen = worker[w].gen /\ r.pc = "uploading"
        /\ r.file = "DISABLED" /\ r # Idle
    BY <1>1, <1>3, <1>6, <2>1 DEF WorkerSound
  <2>3. effect[k].state = "INTENT"
    BY <1>1, <1>3, <2>1 DEF WorkerSound
  <2> HIDE DEF r
  <2>4. WorkerSound(w)'
    BY <1>1, <1>3, <1>5, <1>8, <2>1, <2>2, <2>3 DEF WorkerSound
  <2>5. {<<"upload", k>>} \in SUBSET ({"upload", "bind"} \X {k})
    OBVIOUS
  <2> QED
    BY <1>1, <1>2, <1>4, <1>5, <1>17, <2>1, <2>2, <2>3, <2>4, <2>5, CallMoves
<1>13. CASE UploadAnswered(w)
  <2> DEFINE r == [worker[w] EXCEPT !.pc = "uploaded"]
             e == [effect[k] EXCEPT !.known = TRUE]
  <2>1. /\ worker' = [worker EXCEPT ![w] = r] /\ effect' = [effect EXCEPT ![k] = e]
        /\ calls' = calls /\ worker[w].pc = "uploading" /\ effect[k].state = "INTENT"
        /\ upload[k] = "ready"
    BY <1>13 DEF UploadAnswered, Step, gatewayVars, At
  <2>2. /\ r \in Calls /\ r.job = worker[w].job /\ r.gen = worker[w].gen /\ r.pc = "uploaded"
        /\ r.file = "DISABLED" /\ r # Idle
    BY <1>1, <1>3, <1>6, <2>1 DEF WorkerSound
  <2>3. e \in EffectRows /\ e.state = "INTENT"
    BY <1>2, <2>1 DEF EffectRows
  <2> HIDE DEF r, e
  <2>4. effect'[k] = e
    BY <1>0, <1>2, <2>1 DEF TypeOK
  <2>5. WorkerSound(w)'
    BY <1>1, <1>3, <1>5, <1>8, <2>1, <2>2, <2>3, <2>4 DEF WorkerSound
  <2> QED
    BY <1>1, <1>2, <1>4, <1>5, <1>17, <2>1, <2>2, <2>3, <2>5, CallMoves
<1>14. CASE SendBind(w)
  <2> DEFINE r == [worker[w] EXCEPT !.pc = "binding"]
  <2>1. /\ worker' = [worker EXCEPT ![w] = r] /\ effect' = effect
        /\ calls' = calls \cup {<<"bind", k>>} /\ worker[w].pc = "uploaded" /\ Holds(w)
    BY <1>14 DEF SendBind, Step, Send, At
  <2>2. /\ r \in Calls /\ r.job = worker[w].job /\ r.gen = worker[w].gen /\ r.pc = "binding"
        /\ r.file = "DISABLED" /\ r # Idle
    BY <1>1, <1>3, <1>6, <2>1 DEF WorkerSound
  <2>3. effect[k].state = "INTENT" /\ upload[k] = "ready"
    BY <1>1, <1>3, <2>1 DEF WorkerSound
  <2> HIDE DEF r
  <2>4. WorkerSound(w)'
    BY <1>1, <1>3, <1>5, <1>8, <2>1, <2>2, <2>3 DEF WorkerSound
  <2>5. {<<"bind", k>>} \in SUBSET ({"upload", "bind"} \X {k})
    OBVIOUS
  <2> QED
    BY <1>1, <1>2, <1>4, <1>5, <1>17, <2>1, <2>2, <2>3, <2>4, <2>5, CallMoves
<1>15. CASE BindAnswered(w)
  <2> DEFINE r == [worker[w] EXCEPT !.pc = "publish", !.file = "READY"]
  <2>1. /\ worker' = [worker EXCEPT ![w] = r] /\ effect' = effect /\ calls' = calls
        /\ worker[w].pc = "binding" /\ binding[k] = "active"
    BY <1>15 DEF BindAnswered, gatewayVars, At
  <2>2. /\ r \in Calls /\ r.job = worker[w].job /\ r.gen = worker[w].gen /\ r.pc = "publish"
        /\ r.file = "READY" /\ r # Idle
    BY <1>7
  <2> HIDE DEF r
  <2>3. WorkerSound(w)'
    BY <1>1, <1>3, <1>5, <1>8, <2>1, <2>2 DEF WorkerSound
  <2> QED
    BY <1>1, <1>2, <1>4, <1>5, <1>17, <2>1, <2>2, <2>3, CallMoves
<1>16. CASE /\ At(w, "uploading") \/ At(w, "binding")
            /\ worker' = [worker EXCEPT ![w].pc = "publish", ![w].file = "FAILED"]
            /\ UNCHANGED <<config, app, job, effect, disruptions, gatewayVars>>
  <2> DEFINE r == [worker[w] EXCEPT !.pc = "publish", !.file = "FAILED"]
  <2>1. worker' = [worker EXCEPT ![w] = r] /\ effect' = effect /\ calls' = calls
    BY <1>16 DEF gatewayVars
  <2>2. /\ r \in Calls /\ r.job = worker[w].job /\ r.gen = worker[w].gen /\ r.pc = "publish"
        /\ r.file = "FAILED" /\ r # Idle
    BY <1>7
  <2> HIDE DEF r
  <2>3. WorkerSound(w)'
    BY <1>1, <1>3, <1>5, <1>8, <2>1, <2>2 DEF WorkerSound
  <2> QED
    BY <1>1, <1>2, <1>4, <1>5, <1>17, <2>1, <2>2, <2>3, CallMoves
<1> QED
  BY <1>9, <1>10, <1>11, <1>12, <1>13, <1>14, <1>15, <1>16

\* publish: the worker still holds its generation, so nothing was cleaned up
\* behind it, and the job has no file yet.
LEMMA PublishStep ==
    ASSUME ExportInv, NEW w \in Workers, Publish(w)
    PROVE  ExportInv'
<1>0. TypeOK
  BY DEF ExportInv
<1> DEFINE k == Key(w)
           j == worker[w].job
           g == worker[w].gen
           filed == worker[w].file = "READY"
           f == IF filed THEN g ELSE 0
           q == [job[j] EXCEPT !.status = "READY", !.holder = NoWorker, !.alive = FALSE,
                               !.content = TRUE, !.file = f]
<1>1. worker[w] # Idle /\ worker[w].pc = "publish" /\ Holds(w)
  BY DEF Publish, At, Idle
<1>2. /\ j \in Jobs /\ g \in Nat \ {0} /\ g \in Generations /\ k \in Uploads /\ k = <<j, g>>
      /\ k[1] = j /\ k[2] = g /\ job[j] \in JobRows
  BY <1>0, <1>1, Rows DEF Key
<1>3. job[j].status = "PROCESSING" /\ job[j].gen = g
  BY <1>1 DEF Holds
<1>4. f \in 0 .. MaxGenerations /\ (f # 0 <=> filed) /\ (filed => f = g)
  BY <1>2, ExportAssumption DEF Generations
<1>5. filed => effect[k].state = "INTENT" /\ upload[k] = "ready" /\ binding[k] = "active"
  BY <1>1 DEF ExportInv, WorkersSound, WorkerSound
<1>6. job[j].file = 0
  BY <1>2, <1>3 DEF ExportInv, PublishedFileKept
<1>7. /\ job' = [job EXCEPT ![j] = q] /\ worker' = [worker EXCEPT ![w] = Idle]
      /\ filed => effect' = [effect EXCEPT ![k].state = "PUBLISHED"]
      /\ ~ filed => effect' = effect
      /\ UNCHANGED <<config, app, disruptions, gatewayVars>>
  BY DEF Publish
<1> HIDE DEF f, filed
<1>8. q \in JobRows /\ q.status = "READY" /\ q.gen = g /\ q.file = f
  BY <1>2, <1>3, <1>4 DEF JobRows
<1> HIDE DEF q, j, g
<1>9. /\ job'[j] = q /\ \A i \in Jobs : i # j => job'[i] = job[i]
      /\ worker'[w] = Idle /\ \A v \in Workers : v # w => worker'[v] = worker[v]
  BY <1>0, <1>2, <1>7 DEF TypeOK
<1>10. /\ effect'[k] \in EffectRows
       /\ filed => effect'[k].state = "PUBLISHED"
       /\ ~ filed => effect'[k] = effect[k]
       /\ \A i \in Uploads : i # k => effect'[i] = effect[i]
       /\ effect' \in [Uploads -> EffectRows]
  BY <1>0, <1>2, <1>7 DEF TypeOK, EffectRows
<1> HIDE DEF k
<1>11. TypeOK'
  BY <1>0, <1>7, <1>8, <1>10 DEF TypeOK, GatewayTypeOK, gatewayVars
<1>12. GatewaySound'
  <2> SUFFICES ASSUME NEW i \in Uploads PROVE GatewaySound!(i)'
    BY DEF GatewaySound
  <2>1. GatewaySound!(i) /\ UNCHANGED gatewayVars
    BY <1>7 DEF ExportInv, GatewaySound
  <2>2. CASE i = k /\ filed
    BY <2>1, <2>2, <1>10 DEF Stored, InFlight, gatewayVars
  <2>3. CASE ~ (i = k /\ filed)
    BY <2>1, <2>3, <1>10 DEF Stored, InFlight, gatewayVars
  <2> QED
    BY <2>2, <2>3
<1>17. CleanUpSound'
  <2>1. ~ InCleanUp(k)
    BY <1>1, <1>2 DEF ExportInv, CleanUpSound, k
  <2>2. ASSUME NEW v \in Workers, v # w, worker[v] # Idle PROVE Holds(v)' => Holds(v)
    <3>1. worker[v].job \in Jobs
      BY <2>2, <1>0, Rows
    <3> QED
      BY <2>2, <3>1, <1>8, <1>9 DEF Holds
  <2>3. \A v \in Workers : v # w => Key(v)' = Key(v)
    BY <1>9 DEF Key
  <2>4. \A i \in Uploads : InCleanUp(i)' => InCleanUp(i) /\ i # k /\ effect'[i] = effect[i]
    BY <2>1, <1>7, <1>10 DEF InCleanUp, InFlight, gatewayVars
  <2> QED
    BY <2>2, <2>3, <2>4, <1>9 DEF ExportInv, CleanUpSound
<1>13. GenerationsSound'
  <2>1. \A i \in Jobs : job'[i].status = "NONE" => job'[i].gen = 0
    BY <1>8, <1>9 DEF ExportInv, GenerationsSound
  <2> SUFFICES ASSUME NEW i \in Uploads PROVE GenerationsSound!2!(i)'
    BY <2>1 DEF GenerationsSound
  <2>2. i[1] \in Jobs /\ i[2] \in Nat \ {0}
    BY <1>0, Rows
  <2>3. GenerationsSound!2!(i)
    BY DEF ExportInv, GenerationsSound
  <2>4. CASE i = k /\ filed
    BY <2>4, <1>2, <1>4, <1>8, <1>9
  <2>5. CASE ~ (i = k /\ filed)
    <3>1. effect'[i] = effect[i]
      BY <2>5, <1>10
    <3>2. job'[i[1]].gen = job[i[1]].gen
      BY <2>2, <1>3, <1>8, <1>9
    <3>3. effect[i].state = "PUBLISHED" => i[1] # j
      BY <2>2, <2>3, <1>6
    <3> QED
      BY <2>2, <2>3, <3>1, <3>2, <3>3, <1>9
  <2> QED
    BY <2>4, <2>5
<1>14. OneWorker'
  BY <1>9 DEF ExportInv, OneWorker, Key
<1>15. WorkersSound'
  <2> SUFFICES ASSUME NEW v \in Workers, v # w, worker[v] # Idle PROVE WorkerSound(v)'
    BY <1>9 DEF WorkersSound, WorkerSound
  <2>1. WorkerSound(v) /\ worker'[v] = worker[v] /\ Key(v)' = Key(v)
    BY <1>9 DEF ExportInv, WorkersSound, Key
  <2>2. worker[v].job \in Jobs /\ Key(v) \in Uploads /\ Key(v) # k
    BY <1>0, <1>1, Rows DEF ExportInv, OneWorker, k
  <2>3. Holds(v)' => Holds(v)
    BY <2>1, <2>2, <1>8, <1>9 DEF Holds
  <2>4. job'[worker[v].job].gen = job[worker[v].job].gen
    BY <2>2, <1>3, <1>8, <1>9
  <2> QED
    BY <2>1, <2>2, <2>3, <2>4, <1>7, <1>10 DEF WorkerSound, gatewayVars
<1>16. PublishedFileKept'
  <2> SUFFICES ASSUME NEW i \in Jobs, job'[i].file # 0 PROVE PublishedFileKept!(i)'
    BY DEF PublishedFileKept
  <2>1. CASE i = j
    BY <2>1, <1>2, <1>4, <1>5, <1>7, <1>8, <1>9, <1>10 DEF gatewayVars
  <2>2. CASE i # j
    <3>1. <<i, job[i].file>> \in Uploads /\ <<i, job[i].file>> # k
      BY <2>2, <1>0, <1>2, <1>9, Rows, ExportAssumption
    <3> QED
      BY <2>2, <3>1, <1>7, <1>9, <1>10 DEF ExportInv, PublishedFileKept, gatewayVars
  <2> QED
    BY <2>1, <2>2
<1> QED
  BY <1>11, <1>12, <1>13, <1>14, <1>15, <1>16, <1>17 DEF ExportInv

\* reconcileEffects, complete or cut short: nobody holds the generation whose
\* upload is retired, and none of its calls keeps the job locked.
LEMMA ReconcileStep ==
    ASSUME ExportInv, NEW w \in Workers, NEW k \in Uploads,
           Reconcile(w, k) \/ ReconcileFails(w, k)
    PROVE  ExportInv'
<1>0. TypeOK /\ GatewayTypeOK
  BY DEF ExportInv, TypeOK
<1> DEFINE t == CASE upload[k] = "none" -> "cancelled" [] upload[k] = "ready" -> "retired"
                  [] OTHER -> upload[k]
<1>1. /\ Abandoned(k) /\ ~ Locked(k[1]) /\ UNCHANGED <<config, job, app, worker, disruptions>>
      /\ calls' \in SUBSET (calls \cup {<<"retire", k>>, <<"release", k>>})
  BY DEF Reconcile, ReconcileFails, Reconcilable, SendLate, Send
<1>2. t \in {"cancelled", "retired"} /\ (Stored(k) <=> t = "retired")
  BY <1>0 DEF GatewayTypeOK, Stored
<1>3. /\ k[1] \in Jobs /\ k = <<k[1], k[2]>> /\ effect[k] \in EffectRows
      /\ effect[k].state \in {"PREPARED", "INTENT"} /\ Stored(k) \in BOOLEAN
  BY <1>0, <1>1, Rows DEF Abandoned, Stored
<1>15. PICK u \in {t, upload[k]} :
        /\ upload' = [upload EXCEPT ![k] = u]
        /\ \/ u = t /\ (Release(k) \/ UNCHANGED binding)
           \/ ReconcileFails(w, k) /\ u = upload[k] /\ UNCHANGED binding
        /\ ReconcileFails(w, k) \/ (Reconcile(w, k) /\ u = t /\ Release(k))
  <2>1. /\ RetireUpload(k) => upload' = [upload EXCEPT ![k] = t]
        /\ upload = [upload EXCEPT ![k] = upload[k]]
    BY <1>0 DEF RetireUpload, GatewayTypeOK
  <2> HIDE DEF t
  <2> QED
    BY <2>1 DEF Reconcile, ReconcileFails, CleanUp
<1>16. /\ u \in {"none", "ready", "cancelled", "retired"}
       /\ u \in {"ready", "retired"} <=> Stored(k)
  BY <1>0, <1>2, <1>15 DEF GatewayTypeOK, Stored
<1> HIDE DEF t
<1>4. /\ upload'[k] = u /\ \A i \in Uploads : i # k => upload'[i] = upload[i]
      /\ \A i \in Uploads : i # k => binding'[i] = binding[i]
      /\ GatewayTypeOK'
  BY <1>0, <1>1, <1>15, <1>16 DEF GatewayTypeOK, Release, Operations
<1>5. /\ binding'[k] # "none" => Stored(k)
      /\ Release(k) /\ Stored(k) => binding'[k] = "released"
  BY <1>0, <1>15 DEF GatewayTypeOK, Release, ExportInv, GatewaySound
<1>6. PICK e \in EffectRows :
        /\ effect' = [effect EXCEPT ![k] = e]
        /\ e.state = effect[k].state \/ (e.state = "COMPENSATED" /\ Release(k) /\ u = t)
  <2>1. CASE Reconcile(w, k) /\ u = t /\ Release(k)
    <3> DEFINE e == [effect[k] EXCEPT !.state = "COMPENSATED", !.known = Stored(k)]
    <3>1. e \in EffectRows /\ e.state = "COMPENSATED"
      BY <1>3 DEF EffectRows
    <3>2. effect' = [effect EXCEPT ![k] = e]
      BY <2>1 DEF Reconcile
    <3> HIDE DEF e
    <3> QED
      BY <2>1, <3>1, <3>2
  <2>2. CASE ReconcileFails(w, k)
    <3> DEFINE e == [effect[k] EXCEPT !.known = TRUE]
    <3>1. e \in EffectRows /\ e.state = effect[k].state
      BY <1>3 DEF EffectRows
    <3>2. effect = [effect EXCEPT ![k] = effect[k]]
      BY <1>0 DEF TypeOK
    <3>3. effect' = effect \/ effect' = [effect EXCEPT ![k] = e]
      BY <2>2 DEF ReconcileFails
    <3> HIDE DEF e
    <3> QED
      BY <3>1, <3>2, <3>3, <1>3
  <2> QED
    BY <2>1, <2>2, <1>15
<1>7. effect'[k] = e /\ \A i \in Uploads : i # k => effect'[i] = effect[i]
  BY <1>0, <1>6 DEF TypeOK
<1>8. \A v \in Workers : worker[v] # Idle /\ Key(v) = k =>
        ~ Holds(v) /\ worker[v].pc \notin {"uploading", "binding"}
  BY <1>1, <1>3 DEF Key, Holds, Abandoned, Locked
<1>9. TypeOK'
  BY <1>0, <1>1, <1>4, <1>6 DEF TypeOK
<1>10. GatewaySound'
  <2> SUFFICES ASSUME NEW i \in Uploads PROVE GatewaySound!(i)'
    BY DEF GatewaySound
  <2>1. GatewaySound!(i)
    BY DEF ExportInv, GatewaySound
  <2>2. CASE i = k
    <3>1. Stored(k)' <=> Stored(k)
      BY <1>4, <1>16 DEF Stored
    <3>2. \A op \in {"upload", "bind"} : InFlight(op, k)' => InFlight(op, k)
      BY <1>1 DEF InFlight
    <3> QED
      BY <2>1, <2>2, <3>1, <3>2, <1>2, <1>3, <1>4, <1>5, <1>6, <1>7
  <2>3. CASE i # k
    BY <2>1, <2>3, <1>1, <1>4, <1>7 DEF Stored, InFlight
  <2> QED
    BY <2>2, <2>3
<1>17. CleanUpSound'
  <2>1. \A i \in Uploads : i # k => (InCleanUp(i)' => InCleanUp(i))
    BY <1>1 DEF InCleanUp, InFlight
  <2>2. \A v \in Workers : Key(v)' = Key(v) /\ (Holds(v)' <=> Holds(v)) /\ worker'[v] = worker[v]
    BY <1>1 DEF Key, Holds
  <2>3. effect'[k].state \notin {"NONE", "PUBLISHED"}
    BY <1>3, <1>6, <1>7
  <2> QED
    BY <2>1, <2>2, <2>3, <1>7, <1>8 DEF ExportInv, CleanUpSound
<1>11. GenerationsSound'
  BY <1>1, <1>3, <1>6, <1>7 DEF ExportInv, GenerationsSound
<1>12. OneWorker'
  BY <1>1 DEF ExportInv, OneWorker, Key
<1>13. WorkersSound'
  <2> SUFFICES ASSUME NEW v \in Workers, worker[v] # Idle PROVE WorkerSound(v)'
    BY <1>1 DEF WorkersSound, WorkerSound
  <2>1. /\ WorkerSound(v) /\ Key(v) \in Uploads /\ Key(v)' = Key(v) /\ (Holds(v)' <=> Holds(v))
        /\ worker' = worker /\ job' = job
    BY <1>0, <1>1, Rows DEF ExportInv, WorkersSound, Key, Holds
  <2>2. CASE Key(v) = k
    BY <2>1, <2>2, <1>8 DEF WorkerSound
  <2>3. CASE Key(v) # k
    BY <2>1, <2>3, <1>4, <1>7 DEF WorkerSound
  <2> QED
    BY <2>2, <2>3
<1>14. PublishedFileKept'
  <2> SUFFICES ASSUME NEW i \in Jobs, job[i].file # 0 PROVE PublishedFileKept!(i)'
    BY <1>1 DEF PublishedFileKept
  <2>1. <<i, job[i].file>> \in Uploads /\ PublishedFileKept!(i)
    BY <1>0, Rows, ExportAssumption DEF ExportInv, PublishedFileKept
  <2> QED
    BY <2>1, <1>1, <1>3, <1>4, <1>7
<1> QED
  BY <1>9, <1>10, <1>11, <1>12, <1>13, <1>14, <1>17 DEF ExportInv

\* A call arrives late or is lost; a generation that was compensated left
\* tombstones that refuse it.
LEMMA GatewayStep ==
    ASSUME ExportInv, GatewayNext, UNCHANGED exportVars
    PROVE  ExportInv'
<1>0. TypeOK /\ GatewayTypeOK
  BY DEF ExportInv, TypeOK
<1>1. PICK k \in Uploads : \/ ReceiveUpload(k) \/ ReceiveBind(k) \/ ReceiveRetire(k)
                            \/ ReceiveRelease(k) \/ \E op \in Operations : LoseCall(op, k)
  BY DEF GatewayNext
<1>2. /\ \A i \in Uploads : i # k => upload'[i] = upload[i] /\ binding'[i] = binding[i]
      /\ \/ upload'[k] = upload[k]
         \/ upload[k] = "none" /\ upload'[k] = "ready" /\ InFlight("upload", k)
         \/ /\ InCleanUp(k)
            /\ \/ upload[k] = "none" /\ upload'[k] = "cancelled"
               \/ upload[k] = "ready" /\ upload'[k] = "retired"
      /\ \/ binding'[k] = binding[k]
         \/ /\ binding[k] = "none" /\ binding'[k] = "active"
            /\ Stored(k) /\ InFlight("bind", k) /\ upload' = upload
         \/ binding'[k] = "released" /\ Stored(k) /\ InCleanUp(k) /\ upload' = upload
      /\ calls' \subseteq calls
  BY <1>0, <1>1 DEF ReceiveUpload, ReceiveBind, ReceiveRetire, ReceiveRelease, RetireUpload, Release,
                    LoseCall, GatewayTypeOK, InCleanUp
<1>3. GatewayTypeOK'
  BY <1>0, <1>1 DEF ReceiveUpload, ReceiveBind, ReceiveRetire, ReceiveRelease, RetireUpload, Release,
                    LoseCall, GatewayTypeOK
<1>4. TypeOK'
  BY <1>0, <1>3 DEF TypeOK, exportVars
<1>5. GatewaySound'
  BY <1>2 DEF ExportInv, GatewaySound, Stored, InFlight, exportVars
<1>6. GenerationsSound' /\ OneWorker'
  BY DEF ExportInv, GenerationsSound, OneWorker, Key, exportVars
<1>9. CleanUpSound'
  <2>1. \A i \in Uploads : InCleanUp(i)' => InCleanUp(i)
    BY <1>2 DEF InCleanUp, InFlight
  <2>2. \A v \in Workers : Key(v)' = Key(v) /\ (Holds(v)' <=> Holds(v)) /\ worker'[v] = worker[v]
    BY DEF Key, Holds, exportVars
  <2> QED
    BY <2>1, <2>2 DEF ExportInv, CleanUpSound, exportVars
<1>10. \A i \in Uploads : ~ InCleanUp(i) =>
         /\ upload[i] = "ready" => upload'[i] = "ready"
         /\ binding[i] = "active" => binding'[i] = "active"
  BY <1>2
<1>7. WorkersSound'
  <2> SUFFICES ASSUME NEW v \in Workers, worker[v] # Idle PROVE WorkerSound(v)'
    BY DEF WorkersSound, WorkerSound, exportVars
  <2>1. /\ WorkerSound(v) /\ Key(v) \in Uploads /\ Key(v)' = Key(v) /\ (Holds(v)' <=> Holds(v))
        /\ worker' = worker /\ job' = job /\ effect' = effect
    BY <1>0, Rows DEF ExportInv, WorkersSound, Key, Holds, exportVars
  <2>2. Holds(v) \/ worker[v].pc \in {"uploading", "binding"} => ~ InCleanUp(Key(v))
    BY <2>1 DEF ExportInv, CleanUpSound
  <2> QED
    BY <2>1, <2>2, <1>10 DEF WorkerSound
<1>8. PublishedFileKept'
  <2>1. \A j \in Jobs : job[j].file # 0 => <<j, job[j].file>> \in Uploads
    BY <1>0, Rows, ExportAssumption
  <2>2. \A j \in Jobs : job[j].file # 0 => ~ InCleanUp(<<j, job[j].file>>)
    BY <2>1 DEF ExportInv, PublishedFileKept, CleanUpSound
  <2> QED
    BY <2>1, <2>2, <1>10 DEF ExportInv, PublishedFileKept, exportVars
<1> QED
  BY <1>4, <1>5, <1>6, <1>7, <1>8, <1>9 DEF ExportInv

LEMMA ExportNext == ExportInv /\ [Next]_vars => ExportInv'
<1> SUFFICES ASSUME ExportInv, [Next]_vars PROVE ExportInv'
  OBVIOUS
<1>1. ASSUME NEW w \in Workers, Generate(w) PROVE ExportInv'
  <2>1. CASE FailBeforeUpload(w)
    <3>1. worker[w] # Idle
      BY <2>1 DEF FailBeforeUpload, At, Idle
    <3> QED
      BY <2>1, <3>1, JobStep DEF FailBeforeUpload
  <2>2. CASE GatewayFails(w)
    <3>1. worker[w] # Idle
      BY <2>2 DEF GatewayFails, At, Idle
    <3> QED
      BY <2>2, <3>1, JobStep, CallStep DEF GatewayFails
  <2> QED
    BY <1>1, <2>1, <2>2, JobStep, CallStep, PublishStep DEF Generate
<1>2. CASE UNCHANGED vars
  BY <1>2 DEF vars, exportVars, gatewayVars, ExportInv, TypeOK, GatewayTypeOK, GatewaySound,
     CleanUpSound, InCleanUp, GenerationsSound, OneWorker, WorkersSound, WorkerSound, Key, Holds, PublishedFileKept,
     Stored, InFlight
<1> QED
  BY <1>1, <1>2, JobStep, ClaimStep, ReconcileStep, GatewayStep DEF Next

-----------------------------------------------------------------------------
(* The results.                                                            *)

\* For any number of jobs, workers, generations and disruptions, the rows of
\* the jobs, the journal, the workers and the gateway keep their types.
THEOREM ExportTypeCorrect == Spec => []TypeOK
<1>1. ExportInv => TypeOK
  BY DEF ExportInv
<1> QED
  BY <1>1, ExportInit, ExportNext, PTL DEF Spec

\* A job that names a platform file has it stored and bound for ever: neither a
\* late call, nor a worker that lost its lease, nor the clean-up of another
\* generation, its own late calls included, takes it away.
THEOREM PublishedFilesKept == Spec => []PublishedFileKept
<1>1. ExportInv => PublishedFileKept
  BY DEF ExportInv
<1> QED
  BY <1>1, ExportInit, ExportNext, PTL DEF Spec

\* Everything at the gateway is accounted for by the journal: nothing is sent
\* before its INTENT was committed, a compensated generation leaves nothing
\* usable however late its calls arrive, a published one is its job's file.
THEOREM GatewayAlwaysAccounted == Spec => []GatewayAccounted
<1>1. ExportInv => GatewayAccounted
  <2> SUFFICES ASSUME ExportInv, NEW k \in Uploads PROVE GatewayAccounted!(k)
    BY DEF GatewayAccounted
  <2>1. GatewaySound!(k) /\ GenerationsSound!2!(k)
    BY DEF ExportInv, GatewaySound, GenerationsSound
  <2>2. upload[k] \in {"none", "ready", "cancelled", "retired"}
    BY DEF ExportInv, TypeOK, GatewayTypeOK
  <2> QED
    BY <2>1, <2>2 DEF Stored
<1> QED
  BY <1>1, ExportInit, ExportNext, PTL DEF Spec

\* A READY or FAILED job stays as it is, whatever workers of its earlier
\* generations do; only its bytes go, and only after they expired.
THEOREM FinishedJobsAreFinal == Spec => FinishedIsFinal
<1> DEFINE Kept(j) ==
             job[j].status \in {"READY", "FAILED"} =>
               /\ [job'[j] EXCEPT !.content = TRUE, !.expired = TRUE] =
                    [job[j] EXCEPT !.content = TRUE, !.expired = TRUE]
               /\ job[j].content /\ ~ job'[j].content => job[j].expired
<1>1. ASSUME ExportInv, [Next]_vars PROVE [\A j \in Jobs : Kept(j)]_vars
  <2>0. TypeOK
    BY <1>1 DEF ExportInv
  <2>1. ASSUME NEW w \in Workers, Generate(w) PROVE \A j \in Jobs : Kept(j)
    <3>1. \/ UNCHANGED job
          \/ /\ Holds(w) /\ job[worker[w].job].status = "PROCESSING"
             /\ \A j \in Jobs : j # worker[w].job => job'[j] = job[j]
      BY <2>0, <2>1
      DEF Generate, FailBeforeUpload, GenerateLocally, Prepare, Intend, SendUpload,
          UploadAnswered, SendBind, BindAnswered, GatewayFails, Publish, LeaseLost, Fail, Holds, TypeOK
    <3> QED
      BY <3>1
  <2>2. ASSUME NEW w \in Workers, NEW j \in Jobs, Claim(w, j) PROVE \A i \in Jobs : Kept(i)
    BY <2>0, <2>2 DEF Claim, Claimable, TypeOK
  <2>3. ASSUME NEW j \in Jobs, LeaseExpires(j) PROVE \A i \in Jobs : Kept(i)
    BY <2>0, <2>3 DEF LeaseExpires, TypeOK
  <2>4. ASSUME NEW j \in Jobs, NEW scoped \in BOOLEAN, CreateReportExport(j, scoped)
        PROVE  \A i \in Jobs : Kept(i)
    BY <2>0, <2>4 DEF CreateReportExport, TypeOK
  <2>5. ASSUME NEW j \in Jobs, Expire(j) PROVE \A i \in Jobs : Kept(i)
    <3>1. \A i \in Jobs : i # j => job'[i] = job[i]
      BY <2>0, <2>5 DEF Expire, TypeOK
    <3>2. job'[j] = [job[j] EXCEPT !.expired = TRUE] /\ job[j] \in JobRows
      BY <2>0, <2>5 DEF Expire, TypeOK
    <3>3. Kept(j)
      BY <3>2 DEF JobRows
    <3> QED
      BY <3>1, <3>3
  <2>6. ASSUME NEW w \in Workers, PurgeExpiredContent(w) PROVE \A i \in Jobs : Kept(i)
    <3> SUFFICES ASSUME NEW i \in Jobs PROVE Kept(i)
      OBVIOUS
    <3>1. CASE Purgeable(i)
      <4>1. job'[i] = [job[i] EXCEPT !.content = FALSE] /\ job[i] \in JobRows /\ job[i].expired
        BY <2>0, <2>6, <3>1 DEF PurgeExpiredContent, TypeOK, Purgeable
      <4> QED
        BY <4>1 DEF JobRows
    <3>2. CASE ~ Purgeable(i)
      BY <2>6, <3>2 DEF PurgeExpiredContent
    <3> QED
      BY <3>1, <3>2
  <2>7. ASSUME NEW w \in Workers, NEW k \in Uploads,
               Reconcile(w, k) \/ ReconcileFails(w, k)
        PROVE  \A i \in Jobs : Kept(i)
    BY <2>7 DEF Reconcile, ReconcileFails
  <2>8. ASSUME NEW w \in Workers, Stop(w) PROVE \A i \in Jobs : Kept(i)
    BY <2>8 DEF Stop
  <2>9. CASE GatewayNext /\ UNCHANGED exportVars
    BY <2>9 DEF exportVars
  <2> HIDE DEF Kept
  <2> QED
    BY <1>1, <2>1, <2>2, <2>3, <2>4, <2>5, <2>6, <2>7, <2>8, <2>9 DEF Next
<1> QED
  BY <1>1, ExportInit, ExportNext, PTL DEF Spec, FinishedIsFinal
=============================================================================
