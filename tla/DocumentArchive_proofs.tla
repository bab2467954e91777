----------------------- MODULE DocumentArchive_proofs -----------------------
(***************************************************************************)
(* Proofs about DocumentArchive for every value of its constants: the file *)
(* of an archived document is kept, every file at the gateway is accounted *)
(* for by a journal row, and answers are final.                            *)
(***************************************************************************)
EXTENDS DocumentArchive, TLAPS

-----------------------------------------------------------------------------
(* The inductive invariant.                                                *)

\* The gateway: only a stored file is ever bound, and nothing is known or on
\* its way under a key that has no journal row.
GatewaySound ==
    \A k \in Keys :
      /\ binding[k] # "none" => Stored(k)
      /\ effect[k].state = "NONE" =>
           /\ upload[k] = "none" /\ binding[k] = "none"
           /\ \A op \in Operations : ~ InFlight(op, k)

\* A release that arrives late was sent after the upload had been retired, so no
\* transaction that uploads under the key can have been answered since.
LateReleases ==
    \A k \in Keys : InFlight("release", k) =>
      /\ upload[k] = "retired"
      /\ \A s \in Sessions : session[s] # Idle /\ session[s].key = k =>
           session[s].pc \notin {"uploaded", "binding", "bound"}
      /\ \A d \in Documents : document[d] # k

\* What each state of a journal row says about the gateway and the document.
RowsSound ==
    \A k \in Keys :
      LET e == effect[k] IN
      /\ e.state = "PENDING" => e.file = None /\ document[e.doc] = None
      /\ e.state = "RETIRED" =>
           /\ upload[k] \in {"cancelled", "retired"}
           /\ upload[k] = "retired" => binding[k] = "released"
      /\ e.state = "ARCHIVED" =>
           e.file # None /\ e.file = document[e.doc] /\ e.app = effect[e.file].app

\* At most one key is about to archive a document.
OnePending ==
    \A j, k \in Keys :
      /\ effect[j].state = "PENDING" /\ effect[k].state = "PENDING"
      /\ effect[j].doc = effect[k].doc
      => j = k

\* A request works on its own journal row; inside the transaction, which holds
\* the row, the row is pending and what the gateway answered still stands.
RequestsSound ==
    \A s \in Sessions :
      LET r == session[s] IN
      r # Idle =>
        /\ effect[r.key].state # "NONE"
        /\ effect[r.key].doc = r.doc /\ effect[r.key].app = r.app
        /\ r.pc # "prepared" => effect[r.key].state = "PENDING"
        /\ r.pc \in {"uploaded", "binding", "bound"} => Stored(r.key)
        /\ r.pc = "bound" => binding[r.key] = "active"

\* The owner's row lock lets one transaction in.
OneTransaction ==
    \A s, t \in Sessions :
      InTransaction(s) /\ InTransaction(t) /\ session[s].doc = session[t].doc => s = t

ArchiveInv ==
    /\ TypeOK /\ GatewaySound /\ LateReleases /\ RowsSound /\ OnePending
    /\ RequestsSound /\ OneTransaction /\ DocumentFileKept

-----------------------------------------------------------------------------
(* The steps.                                                              *)

\* Rows and requests are records of their types or the empty ones.
LEMMA Rows ==
    ASSUME TypeOK
    PROVE  /\ \A k \in Keys : effect[k].state # "NONE" => effect[k] \in EffectRows
           /\ \A k \in Keys : effect[k].state = "NONE" <=> effect[k] = NoEffect
           /\ \A s \in Sessions : session[s] # Idle => session[s] \in Requests
           /\ \A s \in Sessions : session[s].pc = "idle" <=> session[s] = Idle
BY DEF TypeOK, EffectRows, Requests, NoEffect, Idle

\* Nothing is sent, written or known at the start.
LEMMA ArchiveInit == Init => ArchiveInv
<1> SUFFICES ASSUME Init PROVE ArchiveInv
  OBVIOUS
<1>1. TypeOK
  BY ArchiveAssumption DEF Init, TypeOK, GatewayInit, GatewayTypeOK, Keys
<1> QED
  BY <1>1 DEF Init, ArchiveInv, GatewayInit, GatewaySound, LateReleases, RowsSound, OnePending, RequestsSound,
     OneTransaction, InTransaction, DocumentFileKept, Keys, NoEffect, Stored, InFlight

\* prepareInvoiceArchive and prepareReceiptArchive: a new row is pending only if
\* nobody else archives the document, and archived only on a vouched-for file.
LEMMA PrepareStep ==
    ASSUME ArchiveInv, NEW s \in Sessions, NEW k \in Keys, NEW d \in Documents,
           PrepareArchive(s, k, d)
    PROVE  ArchiveInv'
<1> DEFINE r == [pc |-> "prepared", key |-> k, doc |-> d, app |-> app]
<1>0. TypeOK
  BY DEF ArchiveInv
<1>1. session' = [session EXCEPT ![s] = r] /\ r \in Requests /\ r # Idle
  BY <1>0 DEF PrepareArchive, TypeOK, Requests, Idle
<1>2. UNCHANGED <<document, app, redeploys, kind, gatewayVars>>
  BY DEF PrepareArchive
<1>3. \A t \in Sessions : InTransaction(t)' => t # s /\ InTransaction(t) /\ session'[t] = session[t]
  BY <1>0, <1>1 DEF InTransaction, At, TypeOK
<1>6. LateReleases'
  BY <1>0, <1>1, <1>2 DEF ArchiveInv, LateReleases, TypeOK, InFlight, gatewayVars
<1>4. CASE SameRequest(k, d) /\ UNCHANGED effect
  <2>1. TypeOK'
    BY <1>0, <1>1, <1>2, <1>4 DEF TypeOK, GatewayTypeOK, gatewayVars
  <2>2. RequestsSound'
    BY <1>0, <1>1, <1>2, <1>4, Rows DEF ArchiveInv, RequestsSound, TypeOK, SameRequest, Used, gatewayVars, Stored
  <2> QED
    BY <2>1, <2>2, <1>2, <1>3, <1>4, <1>6
    DEF ArchiveInv, GatewaySound, RowsSound, OnePending, OneTransaction, DocumentFileKept,
        Stored, InFlight, gatewayVars
<1>5. CASE /\ ~ Used(k) /\ effect' = [effect EXCEPT ![k] = NewEffect(d)]
           /\ Provenance(d) \/ NotReserved(d)
  <2> DEFINE e == NewEffect(d)
  <2>1. e \in EffectRows /\ e.doc = d /\ e.app = app /\ e.file = document[d] /\ effect'[k] = e
    BY <1>0, <1>5 DEF NewEffect, EffectRows, TypeOK
  <2>2. /\ effect[k].state = "NONE"
        /\ \A j \in Keys : j # k => effect'[j] = effect[j]
    BY <1>0, <1>5, Rows DEF Used, TypeOK
  <2>3. TypeOK'
    BY <1>0, <1>1, <1>2, <1>5, <2>1 DEF TypeOK, GatewayTypeOK, gatewayVars
  <2>4. document[d] # None => document[d] \in Keys /\ document[d] # k /\ effect[document[d]].app = app
    <3>1. document[d] # None => document[d] \in Keys /\ effect[document[d]].state = "ARCHIVED"
      BY <1>0 DEF ArchiveInv, DocumentFileKept, TypeOK
    <3>2. document[d] # None => Provenance(d)
      BY <1>5 DEF NotReserved
    <3> QED
      BY <3>1, <3>2, <2>2 DEF Provenance, ArchiveInv, RowsSound
  <2>5. e.state = "PENDING" => document[d] = None /\ NotReserved(d)
    BY <1>5 DEF NewEffect, Provenance
  <2>6. e.state = "ARCHIVED" => document[d] # None
    BY DEF NewEffect
  <2>7. e.state \in {"PENDING", "ARCHIVED"}
    BY DEF NewEffect
  <2>8. GatewaySound'
    BY <1>2, <2>1, <2>2, <2>7 DEF ArchiveInv, GatewaySound, Stored, InFlight, gatewayVars
  <2>9. RowsSound'
    <3> SUFFICES ASSUME NEW j \in Keys PROVE RowsSound!(j)'
      BY DEF RowsSound
    <3>1. CASE j = k
      BY <3>1, <2>1, <2>2, <2>4, <2>5, <2>6, <2>7, <1>2
    <3>2. CASE j # k
      <4>1. effect'[j] = effect[j]
        BY <3>2, <2>2
      <4>2. effect[j].state = "ARCHIVED" => effect[j].file \in Keys /\ effect[j].file # k
        <5>1. effect[j].state = "ARCHIVED" => effect[j].doc \in Documents
          BY <1>0, Rows DEF EffectRows
        <5> QED
          BY <5>1, <2>2, <1>0 DEF ArchiveInv, RowsSound, DocumentFileKept, TypeOK
      <4> QED
        BY <4>1, <4>2, <2>2, <1>2 DEF ArchiveInv, RowsSound, gatewayVars
    <3> QED
      BY <3>1, <3>2
  <2>10. OnePending'
    <3>1. \A j \in Keys : j # k /\ effect[j].state = "PENDING" /\ e.state = "PENDING" => effect[j].doc # d
      BY <2>5, Rows, <1>0 DEF NotReserved, Used, NoEffect
    <3> QED
      BY <3>1, <2>1, <2>2 DEF ArchiveInv, OnePending
  <2>11. RequestsSound'
    <3> SUFFICES ASSUME NEW t \in Sessions PROVE RequestsSound!(t)'
      BY DEF RequestsSound
    <3>1. CASE t = s
      BY <3>1, <1>1, <1>0, <2>1, <2>7 DEF TypeOK
    <3>2. CASE t # s
      <4>1. session'[t] = session[t]
        BY <3>2, <1>1, <1>0 DEF TypeOK
      <4>2. session[t] # Idle => session[t].key \in Keys /\ session[t].key # k
        BY <2>2, <1>0, Rows DEF ArchiveInv, RequestsSound, Requests
      <4> QED
        BY <4>1, <4>2, <2>2, <1>2 DEF ArchiveInv, RequestsSound, gatewayVars, Stored
    <3> QED
      BY <3>1, <3>2
  <2>12. OneTransaction'
    BY <1>3 DEF ArchiveInv, OneTransaction
  <2>13. DocumentFileKept'
    <3>1. \A c \in Documents : document[c] # None => document[c] \in Keys /\ document[c] # k
      BY <2>2, <1>0 DEF ArchiveInv, DocumentFileKept, TypeOK
    <3> QED
      BY <3>1, <2>2, <1>2 DEF ArchiveInv, DocumentFileKept, gatewayVars, Stored
  <2> QED
    BY <1>6, <2>3, <2>8, <2>9, <2>10, <2>11, <2>12, <2>13 DEF ArchiveInv
<1> QED
  BY <1>4, <1>5 DEF PrepareArchive

\* A step of one request that changes nothing but its own place, and keeps what
\* the invariant says of that place.
LEMMA RequestMoves ==
    ASSUME ArchiveInv, NEW s \in Sessions, NEW r \in Requests \cup {Idle},
           session' = [session EXCEPT ![s] = r],
           UNCHANGED <<effect, document, app, redeploys, kind, upload, binding>>,
           GatewayTypeOK',
           \A k \in Keys : effect[k].state = "NONE" =>
                             \A op \in Operations : ~ InFlight(op, k)',
           \A k \in Keys : InFlight("release", k)' => InFlight("release", k),
           r # Idle =>
             /\ session[s] # Idle /\ r.key = session[s].key
             /\ r.doc = session[s].doc /\ r.app = session[s].app
             /\ r.pc # "prepared" =>
                  /\ InTransaction(s) \/ ~ Locked(r.doc)
                  /\ effect[r.key].state = "PENDING"
             /\ r.pc \in {"uploaded", "binding", "bound"} =>
                  Stored(r.key) /\ ~ InFlight("release", r.key)
             /\ r.pc = "bound" => binding[r.key] = "active"
    PROVE  ArchiveInv'
<1>0. TypeOK
  BY DEF ArchiveInv
<1>1. session'[s] = r /\ \A t \in Sessions : t # s => session'[t] = session[t]
  BY <1>0 DEF TypeOK
<1>2. TypeOK'
  BY <1>0 DEF TypeOK
<1>3. GatewaySound' /\ RowsSound' /\ OnePending' /\ DocumentFileKept'
  BY DEF ArchiveInv, GatewaySound, RowsSound, OnePending, DocumentFileKept, Stored
<1>4. RequestsSound'
  <2> SUFFICES ASSUME NEW t \in Sessions PROVE RequestsSound!(t)'
    BY DEF RequestsSound
  <2> QED
    BY <1>1 DEF ArchiveInv, RequestsSound, Stored
<1>6. LateReleases'
  BY <1>1 DEF ArchiveInv, LateReleases
<1>5. OneTransaction'
  <2> SUFFICES ASSUME NEW t \in Sessions, NEW u \in Sessions,
                      InTransaction(t)', InTransaction(u)', session'[t].doc = session'[u].doc
               PROVE  t = u
    BY DEF OneTransaction
  <2>1. \A x \in Sessions : x # s /\ InTransaction(x)' => InTransaction(x)
    BY <1>1 DEF InTransaction, At
  <2>2. InTransaction(s)' => r # Idle /\ r.pc # "prepared"
    BY <1>1 DEF InTransaction, At
  <2>3. \A x \in Sessions : x # s /\ InTransaction(x)' /\ InTransaction(s)'
                               => session[x].doc # r.doc
    BY <1>1, <2>1, <2>2 DEF ArchiveInv, OneTransaction, Locked
  <2> QED
    BY <1>1, <2>1, <2>3 DEF ArchiveInv, OneTransaction
<1> QED
  BY <1>2, <1>3, <1>4, <1>5, <1>6 DEF ArchiveInv

\* Locking, calling and waiting, and giving up at any point.
LEMMA RequestStep ==
    ASSUME ArchiveInv, NEW s \in Sessions,
           \/ LockRows(s) \/ SendUpload(s) \/ UploadAnswered(s) \/ SendBind(s)
           \/ BindAnswered(s) \/ GiveUp(s)
    PROVE  ArchiveInv'
<1>0. TypeOK
  BY DEF ArchiveInv
<1>1. session[s] # Idle => session[s] \in Requests /\ session[s].key \in Keys
  BY <1>0, Rows DEF Requests
<1>2. \A x \in {"prepared", "locked", "uploading", "uploaded", "binding", "bound"} :
        At(s, x) => session[s] # Idle
  BY DEF At, Idle
<1>3. ASSUME session[s] # Idle,
             NEW x \in {"prepared", "locked", "uploading", "uploaded", "binding", "bound"}
      PROVE  LET q == [session[s] EXCEPT !.pc = x] IN
             /\ q \in Requests /\ q # Idle /\ q.pc = x /\ q.key = session[s].key
             /\ q.doc = session[s].doc /\ q.app = session[s].app
  BY <1>1, <1>3 DEF Requests, Idle
<1>4. \A k \in Keys : effect[k].state = "NONE" => \A op \in Operations : ~ InFlight(op, k)
  BY DEF ArchiveInv, GatewaySound
<1>5. GatewayTypeOK
  BY <1>0 DEF TypeOK
<1>6. session[s] # Idle /\ ~ At(s, "prepared") =>
        /\ effect[Key(s)].state = "PENDING" /\ InTransaction(s)
        /\ session[s].pc \in {"uploaded", "binding", "bound"} =>
             Stored(Key(s)) /\ ~ InFlight("release", Key(s))
  BY <1>1 DEF ArchiveInv, RequestsSound, LateReleases, At, Key, InTransaction
<1>7. CASE GiveUp(s)
  <2>1. session' = [session EXCEPT ![s] = Idle]
    BY <1>7 DEF GiveUp
  <2>2. UNCHANGED <<effect, document, app, redeploys, kind, upload, binding, calls>>
    BY <1>7 DEF GiveUp, gatewayVars
  <2>3. /\ GatewayTypeOK'
        /\ \A k \in Keys : effect[k].state = "NONE" =>
             \A op \in Operations : ~ InFlight(op, k)'
        /\ \A k \in Keys : InFlight("release", k)' => InFlight("release", k)
    BY <2>2, <1>4, <1>5 DEF InFlight, GatewayTypeOK
  <2> QED
    BY <2>1, <2>2, <2>3, RequestMoves
<1>8. CASE LockRows(s)
  <2> DEFINE q == [session[s] EXCEPT !.pc = "locked"]
  <2>1. CASE effect[Key(s)].state = "PENDING" /\ effect[Key(s)].app = session[s].app
    <3>1. session' = [session EXCEPT ![s] = q]
      BY <1>8, <2>1 DEF LockRows
    <3>2. session[s] # Idle /\ ~ Locked(session[s].doc)
      BY <1>8, <1>2 DEF LockRows
    <3>3. /\ q \in Requests /\ q # Idle /\ q.pc = "locked" /\ q.key = session[s].key
          /\ q.doc = session[s].doc /\ q.app = session[s].app
      BY <3>2, <1>3
    <3>4. UNCHANGED <<effect, document, app, redeploys, kind, upload, binding, calls>>
      BY <1>8 DEF LockRows, gatewayVars
    <3>5. /\ GatewayTypeOK'
          /\ \A k \in Keys : effect[k].state = "NONE" =>
               \A op \in Operations : ~ InFlight(op, k)'
          /\ \A k \in Keys : InFlight("release", k)' => InFlight("release", k)
      BY <3>4, <1>4, <1>5 DEF InFlight, GatewayTypeOK
    <3>6. effect[q.key].state = "PENDING" /\ ~ Locked(q.doc)
      BY <2>1, <3>2, <3>3 DEF Key
    <3> HIDE DEF q
    <3> QED
      BY <3>1, <3>2, <3>3, <3>4, <3>5, <3>6, RequestMoves
  <2>2. CASE ~ (effect[Key(s)].state = "PENDING" /\ effect[Key(s)].app = session[s].app)
    <3>1. session' = [session EXCEPT ![s] = Idle]
      BY <1>8, <2>2 DEF LockRows
    <3> QED
      BY <1>8, <3>1, <1>4, <1>5, RequestMoves DEF LockRows, gatewayVars, InFlight, GatewayTypeOK
  <2> QED
    BY <2>1, <2>2
<1>9. CASE SendUpload(s)
  <2> DEFINE q == [session[s] EXCEPT !.pc = "uploading"]
  <2>1. session' = [session EXCEPT ![s] = q]
    BY <1>9 DEF SendUpload, Step
  <2>2. session[s] # Idle /\ ~ At(s, "prepared")
    BY <1>9, <1>2 DEF SendUpload, At
  <2>3. /\ q \in Requests /\ q # Idle /\ q.pc = "uploading" /\ q.key = session[s].key
        /\ q.doc = session[s].doc /\ q.app = session[s].app
    BY <2>2, <1>3
  <2>4. /\ GatewayTypeOK'
        /\ \A k \in Keys : effect[k].state = "NONE" =>
             \A op \in Operations : ~ InFlight(op, k)'
        /\ \A k \in Keys : InFlight("release", k)' => InFlight("release", k)
    BY <1>9, <2>2, <1>1, <1>4, <1>5, <1>6
    DEF SendUpload, Send, InFlight, GatewayTypeOK, Key, Keys, Operations
  <2> HIDE DEF q
  <2> QED
    BY <1>9, <2>1, <2>2, <2>3, <2>4, <1>6, RequestMoves DEF SendUpload, Key
<1>10. CASE SendBind(s)
  <2> DEFINE q == [session[s] EXCEPT !.pc = "binding"]
  <2>1. session' = [session EXCEPT ![s] = q]
    BY <1>10 DEF SendBind, Step
  <2>2. session[s] # Idle /\ ~ At(s, "prepared") /\ session[s].pc = "uploaded"
    BY <1>10, <1>2 DEF SendBind, At
  <2>3. /\ q \in Requests /\ q # Idle /\ q.pc = "binding" /\ q.key = session[s].key
        /\ q.doc = session[s].doc /\ q.app = session[s].app
    BY <2>2, <1>3
  <2>4. /\ GatewayTypeOK'
        /\ \A k \in Keys : effect[k].state = "NONE" =>
             \A op \in Operations : ~ InFlight(op, k)'
        /\ \A k \in Keys : InFlight("release", k)' => InFlight("release", k)
    BY <1>10, <2>2, <1>1, <1>4, <1>5, <1>6
    DEF SendBind, Send, InFlight, GatewayTypeOK, Key, Keys, Operations
  <2> HIDE DEF q
  <2> QED
    BY <1>10, <2>1, <2>2, <2>3, <2>4, <1>6, RequestMoves DEF SendBind, Key
<1>11. CASE UploadAnswered(s)
  <2> DEFINE q == [session[s] EXCEPT !.pc = "uploaded"]
  <2>1. session' = [session EXCEPT ![s] = q]
    BY <1>11 DEF UploadAnswered, Step
  <2>2. session[s] # Idle /\ ~ At(s, "prepared")
    BY <1>11, <1>2 DEF UploadAnswered, At
  <2>3. /\ q \in Requests /\ q # Idle /\ q.pc = "uploaded" /\ q.key = session[s].key
        /\ q.doc = session[s].doc /\ q.app = session[s].app
    BY <2>2, <1>3
  <2>4. Stored(q.key) /\ ~ InFlight("release", q.key)
    BY <1>11, <2>2, <2>3, <1>1 DEF UploadAnswered, ArchiveInv, LateReleases, Stored, Key
  <2> HIDE DEF q
  <2> QED
    BY <1>11, <2>1, <2>2, <2>3, <2>4, <1>4, <1>5, <1>6, RequestMoves
    DEF UploadAnswered, Key, gatewayVars, InFlight, GatewayTypeOK
<1>12. CASE BindAnswered(s)
  <2> DEFINE q == [session[s] EXCEPT !.pc = "bound"]
  <2>1. session' = [session EXCEPT ![s] = q]
    BY <1>12 DEF BindAnswered, Step
  <2>2. session[s] # Idle /\ ~ At(s, "prepared") /\ session[s].pc = "binding"
    BY <1>12, <1>2 DEF BindAnswered, At
  <2>3. /\ q \in Requests /\ q # Idle /\ q.pc = "bound" /\ q.key = session[s].key
        /\ q.doc = session[s].doc /\ q.app = session[s].app
    BY <2>2, <1>3
  <2> HIDE DEF q
  <2> QED
    BY <1>12, <2>1, <2>2, <2>3, <1>4, <1>5, <1>6, RequestMoves
    DEF BindAnswered, Key, gatewayVars, InFlight, GatewayTypeOK
<1> QED
  BY <1>7, <1>8, <1>9, <1>10, <1>11, <1>12

\* The commit: the document gets the file of its one pending row.
LEMMA ArchiveStep ==
    ASSUME ArchiveInv, NEW s \in Sessions, Archive(s)
    PROVE  ArchiveInv'
<1> DEFINE k == session[s].key
           d == session[s].doc
<1>0. TypeOK
  BY DEF ArchiveInv
<1>1. session[s] # Idle /\ session[s].pc = "bound"
  BY DEF Archive, At, Idle
<1>2. session[s] \in Requests /\ k \in Keys /\ d \in Documents /\ k # None
  BY <1>0, <1>1, Rows, ArchiveAssumption DEF Requests, Keys, None
<1>3. /\ effect[k].state = "PENDING" /\ effect[k].doc = d /\ effect[k] \in EffectRows
      /\ Stored(k) /\ binding[k] = "active" /\ InTransaction(s) /\ ~ InFlight("release", k)
  BY <1>0, <1>1, <1>2, Rows DEF ArchiveInv, RequestsSound, LateReleases, InTransaction, At
<1>4. /\ effect'[k] = [effect[k] EXCEPT !.state = "ARCHIVED", !.file = k]
      /\ \A j \in Keys : j # k => effect'[j] = effect[j]
      /\ effect' = [effect EXCEPT ![k] = [effect[k] EXCEPT !.state = "ARCHIVED", !.file = k]]
  BY <1>0, <1>2, <1>3 DEF Archive, Key, TypeOK
<1>5. /\ effect'[k].state = "ARCHIVED" /\ effect'[k].file = k /\ effect'[k].doc = d
      /\ effect'[k].app = effect[k].app /\ effect'[k] \in EffectRows
  <2>1. \A e \in EffectRows : LET n == [e EXCEPT !.state = "ARCHIVED", !.file = k] IN
          /\ n.state = "ARCHIVED" /\ n.file = k /\ n.doc = e.doc /\ n.app = e.app
          /\ n \in EffectRows
    BY <1>2 DEF EffectRows
  <2>2. effect'[k] = [effect[k] EXCEPT !.state = "ARCHIVED", !.file = k]
    BY <1>4
  <2> QED
    BY <1>3, <2>1, <2>2
<1>6. document[d] = None /\ document' = [document EXCEPT ![d] = k]
  BY DEF Archive, Key
<1>7. document'[d] = k /\ \A c \in Documents : c # d => document'[c] = document[c]
  BY <1>0, <1>2, <1>6 DEF TypeOK
<1>8. session'[s] = Idle /\ \A t \in Sessions : t # s => session'[t] = session[t]
  BY <1>0 DEF Archive, TypeOK
<1>9. UNCHANGED <<app, redeploys, kind, gatewayVars>>
  BY DEF Archive
<1>10. \A j \in Keys : j # k /\ effect[j].state # "NONE" => effect[j].doc \in Documents
  BY <1>0, Rows DEF EffectRows
<1> HIDE DEF k, d
<1>11. TypeOK'
  <2>1. effect' \in [Keys -> EffectRows \cup {NoEffect}]
    BY <1>0, <1>2, <1>4, <1>5 DEF TypeOK
  <2>2. document' \in [Documents -> Keys \cup {None}]
    BY <1>0, <1>2, <1>6 DEF TypeOK
  <2>3. session' \in [Sessions -> Requests \cup {Idle}]
    BY <1>0 DEF TypeOK, Archive
  <2> QED
    BY <1>0, <1>9, <2>1, <2>2, <2>3 DEF TypeOK, GatewayTypeOK, gatewayVars
<1>12. GatewaySound'
  BY <1>3, <1>4, <1>5, <1>9 DEF ArchiveInv, GatewaySound, Stored, InFlight, gatewayVars
<1>18. LateReleases'
  BY <1>3, <1>7, <1>8, <1>9 DEF ArchiveInv, LateReleases, InFlight, gatewayVars
<1>13. RowsSound'
  <2> SUFFICES ASSUME NEW j \in Keys PROVE RowsSound!(j)'
    BY DEF RowsSound
  <2>1. CASE j = k
    BY <2>1, <1>2, <1>5, <1>7
  <2>2. CASE j # k
    <3>1. effect'[j] = effect[j] /\ RowsSound!(j)
      BY <2>2, <1>4 DEF ArchiveInv, RowsSound
    <3>2. effect[j].state = "PENDING" => effect[j].doc # d
      BY <2>2, <1>2, <1>3 DEF ArchiveInv, OnePending
    <3>3. effect[j].state = "ARCHIVED" =>
            effect[j].doc # d /\ effect[j].doc \in Documents /\ effect[j].file \in Keys /\ effect[j].file # k
      BY <3>1, <2>2, <1>0, <1>3, <1>6, <1>10 DEF ArchiveInv, DocumentFileKept, TypeOK
    <3>4. effect[j].state = "PENDING" => effect[j].doc \in Documents
      BY <1>10, <2>2
    <3> QED
      BY <3>1, <3>2, <3>3, <3>4, <1>4, <1>7, <1>9 DEF gatewayVars
  <2> QED
    BY <2>1, <2>2
<1>14. OnePending'
  BY <1>4, <1>5 DEF ArchiveInv, OnePending
<1>15. RequestsSound'
  <2> SUFFICES ASSUME NEW t \in Sessions PROVE RequestsSound!(t)'
    BY DEF RequestsSound
  <2>1. CASE t = s
    BY <2>1, <1>8
  <2>2. CASE t # s
    <3>1. session'[t] = session[t] /\ RequestsSound!(t)
      BY <2>2, <1>8 DEF ArchiveInv, RequestsSound
    <3>2. session[t] # Idle => session[t].key \in Keys
      BY <1>0, Rows DEF Requests
    <3>3. session[t] # Idle /\ session[t].key = k => session[t].pc = "prepared"
      BY <3>1, <1>3, <2>2 DEF ArchiveInv, OneTransaction, InTransaction, At, d
    <3> QED
      BY <3>1, <3>2, <3>3, <1>3, <1>4, <1>5, <1>9 DEF gatewayVars, Stored
  <2> QED
    BY <2>1, <2>2
<1>16. OneTransaction'
  BY <1>8 DEF ArchiveInv, OneTransaction, InTransaction, At
<1>17. DocumentFileKept'
  <2> SUFFICES ASSUME NEW c \in Documents, document'[c] # None
               PROVE  /\ Stored(document[c])' /\ binding'[document'[c]] = "active"
                      /\ effect'[document'[c]].state = "ARCHIVED"
    BY DEF DocumentFileKept
  <2>1. CASE c = d
    BY <2>1, <1>3, <1>5, <1>7, <1>9 DEF gatewayVars, Stored
  <2>2. CASE c # d
    <3>1. document[c] \in Keys /\ effect[document[c]].state = "ARCHIVED"
      BY <2>2, <1>0, <1>7 DEF ArchiveInv, DocumentFileKept, TypeOK
    <3> QED
      BY <3>1, <2>2, <1>3, <1>4, <1>7, <1>9 DEF ArchiveInv, DocumentFileKept, gatewayVars, Stored
  <2> QED
    BY <2>1, <2>2
<1> QED
  BY <1>11, <1>12, <1>13, <1>14, <1>15, <1>16, <1>17, <1>18 DEF ArchiveInv

\* The worker touches one pending row and the gateway under its key, and a row
\* whose transaction is under way only in available_at.
LEMMA RecoveryMoves ==
    ASSUME ArchiveInv, NEW k \in Keys, effect[k].state = "PENDING",
           NEW e \in EffectRows, e.doc = effect[k].doc, e.app = effect[k].app,
           NEW u \in {"none", "ready", "cancelled", "retired"},
           NEW b \in {"none", "active", "released"},
           effect' = [effect EXCEPT ![k] = e],
           upload' = [upload EXCEPT ![k] = u], binding' = [binding EXCEPT ![k] = b],
           UNCHANGED <<document, session, app, redeploys, kind>>,
           calls' \in SUBSET (calls \cup {<<"retire", k>>, <<"release", k>>}),
           upload[k] = "retired" => u = "retired",
           InFlight("release", k)' => u = "retired",
           b # "none" => u \in {"ready", "retired"},
           Locked(effect[k].doc) =>
             e.state = "PENDING" /\ u = upload[k] /\ b = binding[k] /\ calls' = calls,
           \/ e.state = "PENDING" /\ e.file = None
           \/ /\ e.state = "RETIRED" /\ u \in {"cancelled", "retired"}
              /\ u = "retired" => b = "released"
    PROVE  ArchiveInv'
<1>0. TypeOK
  BY DEF ArchiveInv
<1>1. /\ effect'[k] = e /\ \A j \in Keys : j # k => effect'[j] = effect[j]
      /\ upload'[k] = u /\ \A j \in Keys : j # k => upload'[j] = upload[j]
      /\ binding'[k] = b /\ \A j \in Keys : j # k => binding'[j] = binding[j]
  BY <1>0 DEF TypeOK, GatewayTypeOK, Keys
<1>2. TypeOK'
  BY <1>0 DEF TypeOK, GatewayTypeOK, Keys, Operations
<1>3. GatewaySound'
  BY <1>1 DEF ArchiveInv, GatewaySound, Stored, InFlight
<1>9. LateReleases'
  <2> SUFFICES ASSUME NEW j \in Keys, InFlight("release", j)' PROVE LateReleases!(j)!2'
    BY DEF LateReleases
  <2>1. CASE j # k
    <3>1. InFlight("release", j)
      BY <2>1 DEF InFlight
    <3> QED
      BY <2>1, <3>1, <1>1 DEF ArchiveInv, LateReleases
  <2>2. CASE j = k
    <3>1. \A d \in Documents : document[d] # k
      BY <1>0, ArchiveAssumption DEF ArchiveInv, DocumentFileKept, Keys, None
    <3>2. ASSUME NEW t \in Sessions, session[t] # Idle, session[t].key = k,
                 session[t].pc \in {"uploaded", "binding", "bound"}
          PROVE  FALSE
      <4>1. Locked(effect[k].doc)
        BY <3>2 DEF ArchiveInv, RequestsSound, Locked, InTransaction, At
      <4>2. InFlight("release", k)
        BY <4>1, <2>2 DEF InFlight
      <4> QED
        BY <3>2, <4>2 DEF ArchiveInv, LateReleases
    <3> QED
      BY <2>2, <3>1, <3>2, <1>1
  <2> QED
    BY <2>1, <2>2
<1>4. RowsSound'
  <2> SUFFICES ASSUME NEW j \in Keys PROVE RowsSound!(j)'
    BY DEF RowsSound
  <2>1. CASE j = k
    <3>1. document[e.doc] = None
      BY DEF ArchiveInv, RowsSound
    <3> QED
      BY <2>1, <3>1, <1>1
  <2>2. CASE j # k
    <3>1. effect[j].state = "ARCHIVED" => effect[j].file \in Keys /\ effect[j].file # k
      <4>1. effect[j].state = "ARCHIVED" => effect[j].doc \in Documents
        BY <1>0, Rows DEF EffectRows
      <4> QED
        BY <4>1, <1>0 DEF ArchiveInv, RowsSound, DocumentFileKept, TypeOK
    <3> QED
      BY <2>2, <3>1, <1>1 DEF ArchiveInv, RowsSound
  <2> QED
    BY <2>1, <2>2
<1>5. OnePending'
  BY <1>1 DEF ArchiveInv, OnePending
<1>6. RequestsSound'
  <2> SUFFICES ASSUME NEW t \in Sessions, session[t] # Idle PROVE RequestsSound!(t)'
    BY DEF RequestsSound
  <2>1. session[t].key \in Keys /\ session'[t] = session[t] /\ RequestsSound!(t)
    BY <1>0, Rows DEF Requests, ArchiveInv, RequestsSound
  <2>2. session[t].key = k /\ session[t].pc # "prepared" => Locked(effect[k].doc)
    BY <2>1 DEF Locked, InTransaction, At
  <2>3. CASE session[t].key = k
    BY <2>1, <2>2, <2>3, <1>1 DEF Stored
  <2>4. CASE session[t].key # k
    BY <2>1, <2>4, <1>1 DEF Stored
  <2> QED
    BY <2>3, <2>4
<1>7. OneTransaction'
  BY DEF ArchiveInv, OneTransaction, InTransaction, At
<1>8. DocumentFileKept'
  <2>1. \A d \in Documents : document[d] # None => document[d] \in Keys /\ document[d] # k
    BY <1>0 DEF ArchiveInv, DocumentFileKept, TypeOK
  <2> QED
    BY <2>1, <1>1 DEF ArchiveInv, DocumentFileKept, Stored
<1> QED
  BY <1>2, <1>3, <1>4, <1>5, <1>6, <1>7, <1>8, <1>9 DEF ArchiveInv

\* Time passes, a recovery succeeds, or it fails half way.
LEMMA RecoveryStep ==
    ASSUME ArchiveInv, NEW k \in Keys, Due(k) \/ RecoverOne(k) \/ RecoveryFails(k)
    PROVE  ArchiveInv'
<1>0. TypeOK
  BY DEF ArchiveInv
<1>1. effect[k].state = "PENDING"
  BY DEF Due, RecoverOne, RecoveryFails, Recoverable
<1>2. effect[k] \in EffectRows /\ effect[k].file = None
  BY <1>0, <1>1, Rows DEF ArchiveInv, RowsSound
<1>3. /\ upload[k] \in {"none", "ready", "cancelled", "retired"}
      /\ binding[k] \in {"none", "active", "released"}
      /\ upload = [upload EXCEPT ![k] = upload[k]]
      /\ binding = [binding EXCEPT ![k] = binding[k]]
      /\ binding[k] # "none" => upload[k] \in {"ready", "retired"}
  BY <1>0 DEF TypeOK, GatewayTypeOK, Keys, ArchiveInv, GatewaySound, Stored
<1> DEFINE u == CASE upload[k] = "none" -> "cancelled" [] upload[k] = "ready" -> "retired"
                  [] OTHER -> upload[k]
           b == IF Stored(k) THEN "released" ELSE binding[k]
<1>4. /\ RetireUpload(k) => upload' = [upload EXCEPT ![k] = u]
      /\ Release(k) => binding' = [binding EXCEPT ![k] = b]
  BY DEF RetireUpload, Release
<1>5. /\ u \in {"cancelled", "retired"}
      /\ u = "retired" <=> upload[k] \in {"ready", "retired"}
      /\ b \in {"none", "active", "released"}
      /\ u = "retired" => b = "released"
      /\ b # "none" => u = "retired"
      /\ binding[k] # "none" => u = "retired"
  BY <1>3 DEF Stored
<1>9. InFlight("release", k) => upload[k] = "retired"
  BY DEF ArchiveInv, LateReleases
<1> HIDE DEF u, b
<1>6. CASE Due(k)
  <2> DEFINE e == [effect[k] EXCEPT !.due = TRUE]
  <2>1. effect' = [effect EXCEPT ![k] = e]
    BY <1>6 DEF Due
  <2>2. /\ e \in EffectRows /\ e.doc = effect[k].doc /\ e.app = effect[k].app
        /\ e.state = "PENDING" /\ e.file = None
    BY <1>1, <1>2 DEF EffectRows
  <2>3. /\ upload' = [upload EXCEPT ![k] = upload[k]]
        /\ binding' = [binding EXCEPT ![k] = binding[k]]
        /\ UNCHANGED <<document, session, app, redeploys, kind, calls>>
    BY <1>6, <1>3 DEF Due, gatewayVars
  <2> HIDE DEF e
  <2> QED
    BY <1>1, <1>3, <1>9, <2>1, <2>2, <2>3, RecoveryMoves DEF InFlight
<1>7. CASE RecoverOne(k)
  <2> DEFINE f == IF Stored(k) THEN k ELSE None
             e == [effect[k] EXCEPT !.state = "RETIRED", !.file = f]
  <2>1. effect' = [effect EXCEPT ![k] = e]
    BY <1>7 DEF RecoverOne
  <2>2. /\ e \in EffectRows /\ e.doc = effect[k].doc /\ e.app = effect[k].app
        /\ e.state = "RETIRED"
    <3>1. f \in Keys \cup {None}
      OBVIOUS
    <3> HIDE DEF f
    <3> QED
      BY <3>1, <1>2 DEF EffectRows
  <2>3. /\ upload' = [upload EXCEPT ![k] = u] /\ binding' = [binding EXCEPT ![k] = b]
        /\ ~ Locked(effect[k].doc)
        /\ UNCHANGED <<document, session, app, redeploys, kind, calls>>
    BY <1>7, <1>4 DEF RecoverOne, Recoverable
  <2> HIDE DEF e, f
  <2> QED
    BY <1>1, <1>5, <1>9, <2>1, <2>2, <2>3, RecoveryMoves DEF InFlight
<1>8. CASE RecoveryFails(k)
  <2>1. PICK e \in {effect[k], [effect[k] EXCEPT !.due = FALSE]} :
          effect' = [effect EXCEPT ![k] = e] /\ ~ Locked(effect[k].doc)
    BY <1>0, <1>8 DEF RecoveryFails, Recoverable, TypeOK
  <2>2. /\ e \in EffectRows /\ e.doc = effect[k].doc /\ e.app = effect[k].app
        /\ e.state = "PENDING" /\ e.file = None
    BY <1>1, <1>2, <2>1 DEF EffectRows
  <2>3. UNCHANGED <<document, session, app, redeploys, kind>>
    BY <1>8 DEF RecoveryFails
  <2>4. CASE UNCHANGED gatewayVars
    BY <1>1, <1>3, <1>9, <2>1, <2>2, <2>3, <2>4, RecoveryMoves DEF gatewayVars, InFlight
  <2>5. CASE SendLate("retire", k) /\ UNCHANGED <<upload, binding>>
    BY <1>1, <1>3, <1>9, <2>1, <2>2, <2>3, <2>5, RecoveryMoves DEF SendLate, Send, InFlight
  <2>6. CASE Stored(k) /\ RetireUpload(k) /\ SendLate("release", k) /\ UNCHANGED binding
    <3>1. u = "retired"
      BY <2>6, <1>5 DEF Stored
    <3> QED
      BY <1>1, <1>3, <1>4, <3>1, <2>1, <2>2, <2>3, <2>6, RecoveryMoves DEF SendLate, Send
  <2> QED
    BY <1>8, <2>4, <2>5, <2>6 DEF RecoveryFails, RecoveryGivesUp
<1> QED
  BY <1>6, <1>7, <1>8

\* A call arrives late or not at all: tombstones stop it where its row is closed.
LEMMA GatewayStep ==
    ASSUME ArchiveInv, GatewayNext, UNCHANGED archiveVars
    PROVE  ArchiveInv'
<1>0. TypeOK /\ GatewayTypeOK
  BY DEF ArchiveInv, TypeOK
<1>1. PICK k \in Keys : \/ ReceiveUpload(k) \/ ReceiveBind(k) \/ ReceiveRetire(k)
                         \/ ReceiveRelease(k) \/ \E op \in Operations : LoseCall(op, k)
  BY DEF GatewayNext, Keys
<1>2. /\ \A j \in Keys : j # k => upload'[j] = upload[j] /\ binding'[j] = binding[j]
      /\ \/ upload'[k] = upload[k]
         \/ upload[k] = "none" /\ upload'[k] = "ready" /\ InFlight("upload", k)
         \/ /\ InFlight("retire", k)
            /\ \/ upload[k] = "none" /\ upload'[k] = "cancelled"
               \/ upload[k] = "ready" /\ upload'[k] = "retired"
      /\ \/ binding'[k] = binding[k]
         \/ /\ binding[k] = "none" /\ binding'[k] = "active"
            /\ Stored(k) /\ InFlight("bind", k) /\ upload' = upload
         \/ /\ binding'[k] = "released"
            /\ Stored(k) /\ InFlight("release", k) /\ upload' = upload
      /\ calls' \subseteq calls
  BY <1>0, <1>1 DEF ReceiveUpload, ReceiveBind, ReceiveRetire, ReceiveRelease, RetireUpload, Release,
                    LoseCall, GatewayTypeOK, Keys
<1>3. GatewayTypeOK'
  BY <1>0, <1>1 DEF ReceiveUpload, ReceiveBind, ReceiveRetire, ReceiveRelease, RetireUpload, Release,
                    LoseCall, GatewayTypeOK, Keys
<1>4. TypeOK'
  BY <1>0, <1>3 DEF TypeOK, archiveVars
<1>5. GatewaySound'
  BY <1>2 DEF ArchiveInv, GatewaySound, Stored, InFlight, archiveVars, Operations
<1>6. RowsSound'
  BY <1>2 DEF ArchiveInv, RowsSound, Stored, archiveVars
<1>10. \A j \in Keys : Stored(j) => Stored(j)'
  BY <1>2 DEF Stored
<1>11. \A j \in Keys : binding[j] = "active" /\ binding'[j] # "active" => InFlight("release", j)
  BY <1>2
<1>12. LateReleases'
  BY <1>2 DEF ArchiveInv, LateReleases, InFlight, archiveVars
<1>7. RequestsSound'
  <2>1. \A s \in Sessions : session[s] # Idle => session[s].key \in Keys
    BY <1>0, Rows DEF Requests
  <2> QED
    BY <2>1, <1>10, <1>11 DEF ArchiveInv, RequestsSound, LateReleases, archiveVars
<1>8. OnePending' /\ OneTransaction'
  BY DEF ArchiveInv, OnePending, OneTransaction, InTransaction, At, archiveVars
<1>9. DocumentFileKept'
  <2>1. \A d \in Documents : document[d] # None => document[d] \in Keys
    BY <1>0 DEF TypeOK
  <2>2. \A d \in Documents : document'[d] = document[d]
    BY DEF archiveVars
  <2>3. \A d \in Documents : document[d] # None => Stored(document[d])'
    BY <2>1, <2>2, <1>10 DEF ArchiveInv, DocumentFileKept, Stored
  <2>4. \A d \in Documents : document[d] # None => binding'[document[d]] = "active"
    BY <2>1, <1>11 DEF ArchiveInv, DocumentFileKept, LateReleases
  <2> QED
    BY <2>2, <2>3, <2>4 DEF ArchiveInv, DocumentFileKept, archiveVars
<1> QED
  BY <1>4, <1>5, <1>6, <1>7, <1>8, <1>9, <1>12 DEF ArchiveInv

\* Redeployment changes the identity that later steps compare rows with.
LEMMA RedeployStep ==
    ASSUME ArchiveInv, Redeploy
    PROVE  ArchiveInv'
<1>1. TypeOK'
  BY ArchiveAssumption DEF ArchiveInv, TypeOK, Redeploy, GatewayTypeOK, gatewayVars
<1> QED
  BY <1>1 DEF Redeploy, ArchiveInv, GatewaySound, LateReleases, RowsSound, OnePending, RequestsSound, OneTransaction,
     InTransaction, At, DocumentFileKept, Stored, InFlight, gatewayVars

LEMMA ArchiveNext == ArchiveInv /\ [Next]_vars => ArchiveInv'
<1> SUFFICES ASSUME ArchiveInv, [Next]_vars PROVE ArchiveInv'
  OBVIOUS
<1>1. ASSUME NEW s \in Sessions, UploadDocument(s) PROVE ArchiveInv'
  BY <1>1, RequestStep, ArchiveStep DEF UploadDocument
<1>2. CASE UNCHANGED vars
  BY <1>2 DEF vars, archiveVars, gatewayVars, ArchiveInv, TypeOK, GatewayTypeOK, GatewaySound,
     LateReleases, RowsSound, OnePending, RequestsSound, OneTransaction, InTransaction, At,
     DocumentFileKept, Stored, InFlight
<1> QED
  BY <1>1, <1>2, PrepareStep, RecoveryStep, RedeployStep, GatewayStep
  DEF Next, PrepareInvoiceArchive, PrepareReceiptArchive, UploadInvoiceDocument,
      UploadReceiptDocument, RecoverInvoiceArchive, RecoverReceiptArchive

-----------------------------------------------------------------------------
(* The results.                                                            *)

\* For any number of documents, keys, requests and redeployments, the rows of
\* the journal, the documents and the gateway keep their types.
THEOREM ArchiveTypeCorrect == Spec => []TypeOK
<1>1. ArchiveInv => TypeOK
  BY DEF ArchiveInv
<1> QED
  BY <1>1, ArchiveInit, ArchiveNext, PTL DEF Spec

\* The file of an archived document stays stored and bound: no recovery, retry
\* or late call, a recovery's own clean-up calls included, takes it away.
THEOREM DocumentFilesKept == Spec => []DocumentFileKept
<1>1. ArchiveInv => DocumentFileKept
  BY DEF ArchiveInv
<1> QED
  BY <1>1, ArchiveInit, ArchiveNext, PTL DEF Spec

\* Every file at the gateway is answered for by a journal row: a retired key
\* leaves nothing usable, an archived one names the document's file and the
\* deployment that uploaded it.
THEOREM FilesAlwaysAccounted == Spec => []FilesAccounted
<1>1. ArchiveInv => FilesAccounted
  BY DEF ArchiveInv, FilesAccounted, GatewaySound, RowsSound, Stored
<1> QED
  BY <1>1, ArchiveInit, ArchiveNext, PTL DEF Spec

\* A key that was archived or retired and a document that has its file never
\* change again, whoever retries or recovers.
THEOREM AnswersAreFinal == Spec => AnswerIsFinal
<1> DEFINE Final == /\ \A k \in Keys : effect[k].state \in {"ARCHIVED", "RETIRED"} => effect'[k] = effect[k]
                    /\ \A d \in Documents : document[d] # None => document'[d] = document[d]
<1>1. ASSUME ArchiveInv, [Next]_vars PROVE [Final]_vars
  <2>0. TypeOK
    BY <1>1 DEF ArchiveInv
  <2>1. ASSUME NEW s \in Sessions, NEW k \in Keys, NEW d \in Documents, PrepareArchive(s, k, d)
        PROVE  Final
    BY <2>0, <2>1, Rows DEF PrepareArchive, Used, NoEffect, TypeOK
  <2>2. ASSUME NEW s \in Sessions, UploadDocument(s) PROVE Final
    <3>1. CASE Archive(s)
      <4>1. session[s] # Idle /\ session[s].pc = "bound"
        BY <3>1 DEF Archive, At, Idle
      <4>2. session[s].key \in Keys /\ session[s].doc \in Documents
        BY <4>1, <2>0, Rows DEF Requests
      <4>3. effect[session[s].key].state = "PENDING"
        BY <4>1, <1>1 DEF ArchiveInv, RequestsSound
      <4> QED
        BY <3>1, <4>2, <4>3, <2>0 DEF Archive, Key, TypeOK
    <3> QED
      BY <2>2, <3>1 DEF UploadDocument, LockRows, SendUpload, UploadAnswered, SendBind, BindAnswered,
                        GiveUp
  <2>3. ASSUME NEW k \in Keys, Due(k) \/ RecoverOne(k) \/ RecoveryFails(k) PROVE Final
    BY <2>0, <2>3 DEF Due, RecoverOne, RecoveryFails, Recoverable, TypeOK
  <2>4. CASE Redeploy \/ (GatewayNext /\ UNCHANGED archiveVars)
    BY <2>4 DEF Redeploy, archiveVars
  <2> QED
    BY <1>1, <2>1, <2>2, <2>3, <2>4
    DEF Next, PrepareInvoiceArchive, PrepareReceiptArchive, UploadInvoiceDocument,
        UploadReceiptDocument, RecoverInvoiceArchive, RecoverReceiptArchive
<1> QED
  BY <1>1, ArchiveInit, ArchiveNext, PTL DEF Spec, AnswerIsFinal
=============================================================================
