--------------------------- MODULE PipelineProofs ---------------------------
(***************************************************************************)
(* Theorems about Pipeline, for any number of URLs, contents, indexes,     *)
(* request handlers, embed passes, fetches and faults.                     *)
(***************************************************************************)
EXTENDS Pipeline, FiniteSetTheorems, TLAPS

(***************************************************************************)
(* Types.  The size of a batch is a number because what a run has selected *)
(* is finite, which has to be carried along.                               *)
(***************************************************************************)
RunFinite ==
  /\ IsFiniteSet(attest.pending)
  /\ attest.batch \subseteq attest.pending

TypeInv == TypeOK /\ RunFinite

LEMMA JobStage ==
  ASSUME NEW job \in {Idle} \cup Fetched \cup Opened
  PROVE  /\ job.stage = "fetched" => job \in Fetched
         /\ job.stage = "opened" => job \in Opened
BY DEF Idle, Fetched, Opened

LEMMA NoDocumentType == NoDocument \in Document
BY ConstantsAssumption DEF NoDocument, Document, Time, Uid

LEMMA EmbeddedRowType ==
  ASSUME NEW row \in Document
  PROVE  [row EXCEPT !.embedded = TRUE] \in Document
BY DEF Document

LEMMA AttestedRowType ==
  ASSUME NEW row \in Document, NEW uid \in Uid
  PROVE  [row EXCEPT !.uid = uid] \in Document
BY DEF Document

LEMMA SavedRowType ==
  ASSUME NEW row \in Document, NEW job \in Opened, job.result \in Contents
  PROVE  SavedRow(row, job) \in Document
<1>1. /\ job.at \in Time
      /\ row.hash \in Contents \cup {None} /\ row.unindexed \in BOOLEAN
      /\ row.embedded \in BOOLEAN /\ row.uid \in Uid /\ None \in Uid
  BY DEF Opened, Document, Uid
<1>2. InsertedRow(job) \in Document
  BY <1>1 DEF InsertedRow, Document
<1>3. /\ Written(row.hash, job.loaded.hash, job.result) \in Contents \cup {None}
      /\ Written(row.unindexed, job.loaded.unindexed, FALSE) \in BOOLEAN
      /\ Written(row.embedded, job.loaded.embedded, FALSE) \in BOOLEAN
      /\ Written(row.uid, job.loaded.uid, None) \in Uid
  BY <1>1 DEF Written
<1>4. UpdatedRow(row, job) \in Document
  BY <1>1, <1>3 DEF UpdatedRow, Document
<1>5. QED
  BY <1>2, <1>4 DEF SavedRow

LEMMA LogType ==
  ASSUME fetchLog \in [Urls -> Seq(LogRow)],
         NEW u \in Urls, NEW kind \in {"content", Thin, Failed},
         NEW hash \in Contents \cup {None}, NEW changed \in BOOLEAN,
         NEW at \in Time, Log(u, kind, hash, changed, at)
  PROVE  fetchLog' \in [Urls -> Seq(LogRow)]
<1> DEFINE row == [kind |-> kind, hash |-> hash, changed |-> changed, at |-> at]
<1>1. row \in LogRow
  BY DEF LogRow
<1>2. fetchLog[u] \in Seq(LogRow)
  OBVIOUS
<1> HIDE DEF row
<1>3. Append(fetchLog[u], row) \in Seq(LogRow)
  BY <1>1, <1>2
<1>4. fetchLog' = [fetchLog EXCEPT ![u] = Append(fetchLog[u], row)]
  BY DEF Log, row
<1>5. QED
  BY <1>3, <1>4

LEMMA UnembeddedType ==
  ASSUME TypeOK, NEW s \in Indexes \cup {WholeStore}
  PROVE  Unembedded(s) \subseteq Reading
<1>1. Scope(s) \subseteq Urls
  BY DEF TypeOK, Scope
<1>2. QED
  BY <1>1 DEF TypeOK, Unembedded, Reading, Exists, Document

LEMMA UnattestedType ==
  ASSUME TypeOK, NEW s \in Indexes \cup {WholeStore}
  PROVE  Unattested(s) \subseteq Request /\ IsFiniteSet(Unattested(s))
<1> DEFINE Owed == {v \in Scope(s) : /\ Exists(v)
                                     /\ documents[v].uid = None
                                     /\ documents[v].embedded}
           Sel(u) == [url |-> u, hash |-> documents[u].hash,
                      at |-> documents[u].fetchedAt]
<1>1. Owed \subseteq Urls
  BY DEF TypeOK, Scope
<1>2. Unattested(s) = {Sel(u) : u \in Owed}
  BY DEF Unattested
<1>3. Unattested(s) \subseteq Request
  BY <1>1, <1>2 DEF TypeOK, Request, Exists, Document
<1>4. IsFiniteSet(Owed)
  BY <1>1, ConstantsAssumption, FS_Subset
<1>5. [u \in Owed |-> Sel(u)] \in Surjection(Owed, Unattested(s))
  BY <1>2 DEF Surjection
<1>6. IsFiniteSet(Unattested(s))
  BY <1>4, <1>5, FS_Surjection
<1>7. QED
  BY <1>3, <1>6

LEMMA BatchType ==
  ASSUME TypeInv, NEW b \in Batches
  PROVE  /\ b \subseteq attest.pending
         /\ b \in SUBSET Request
         /\ Cardinality(b) \in Nat
<1>1. b \subseteq attest.pending
  BY DEF Batches
<1>2. IsFiniteSet(b)
  BY <1>1, FS_Subset DEF TypeInv, RunFinite
<1>3. QED
  BY <1>1, <1>2, FS_CardinalityType DEF TypeInv, TypeOK

(***************************************************************************)
(* One lemma per action: a step of it keeps the types.                     *)
(***************************************************************************)
LEMMA CrawlType ==
  ASSUME TypeInv, NEW w \in Crawlers, Crawl(w)
  PROVE  TypeInv'
<1> USE ConstantsAssumption DEF TypeInv, TypeOK, RunFinite
<1>1. ASSUME NEW i \in Indexes, NEW u \in Urls, Fetch(w, i, u)
      PROVE  TypeInv'
  <2>1. fetching' \in [Crawlers -> {Idle} \cup Fetched \cup Opened]
    BY <1>1 DEF Fetch, Fetched, Time
  <2>2. clock' \in Time
    BY <1>1 DEF Fetch, Time
  <2>3. QED
    BY <1>1, <2>1, <2>2 DEF Fetch
<1>2. CASE OpenRecord(w)
  <2>1. fetching[w] \in Fetched
    BY <1>2, JobStage DEF OpenRecord
  <2>2. fetching' \in [Crawlers -> {Idle} \cup Fetched \cup Opened]
    BY <1>2, <2>1, NoDocumentType DEF OpenRecord, Fetched, Opened
  <2>3. QED
    BY <1>2, <2>2 DEF OpenRecord
<1>3. CASE RecordContent(w)
  <2>1. fetching[w] \in Opened
    BY <1>3, JobStage DEF RecordContent
  <2>2. fetching' \in [Crawlers -> {Idle} \cup Fetched \cup Opened]
    BY <1>3 DEF RecordContent
  <2>3. CASE UNCHANGED <<documents, fetchLog, members>>
    BY <1>3, <2>2, <2>3 DEF RecordContent
  <2>4. CASE /\ documents' = [documents EXCEPT ![fetching[w].url] =
                  SavedRow(@, fetching[w])]
             /\ Log(fetching[w].url, "content", fetching[w].result,
                    ContentChanged(fetching[w].existing, fetching[w].result),
                    fetching[w].at)
             /\ members' = [members EXCEPT ![fetching[w].index] =
                  @ \cup {fetching[w].url}]
    <3> DEFINE job == fetching[w]
    <3>1. /\ job.url \in Urls /\ job.index \in Indexes /\ job.at \in Time
          /\ job.existing \in Document /\ job.result \in Contents
      BY <1>3, <2>1 DEF RecordContent, Opened
    <3>2. documents' \in [Urls -> Document]
      BY <2>1, <2>4, <3>1, SavedRowType
    <3>3. ContentChanged(job.existing, job.result) \in BOOLEAN
      BY <3>1 DEF ContentChanged, Document
    <3>4. fetchLog' \in [Urls -> Seq(LogRow)]
      BY <2>4, <3>1, <3>3, LogType
    <3>5. members' \in [Indexes -> SUBSET Urls]
      BY <2>4, <3>1
    <3>6. QED
      BY <1>3, <2>2, <3>2, <3>4, <3>5 DEF RecordContent
  <2>5. QED
    BY <1>3, <2>3, <2>4 DEF RecordContent
<1>4. CASE RecordSkip(w)
  <2> DEFINE job == fetching[w]
  <2>1. job \in Opened
    BY <1>4, JobStage DEF RecordSkip
  <2>2. job.url \in Urls /\ job.at \in Time /\ job.existing \in Document
    BY <2>1 DEF Opened
  <2>3. documents' \in [Urls -> Document]
    BY <1>4, <2>2 DEF RecordSkip, Document
  <2>4. fetchLog' \in [Urls -> Seq(LogRow)]
    BY <1>4, <2>2, LogType DEF RecordSkip
  <2>5. chunks' \in [Urls -> Contents \cup {None}]
    BY <1>4, <2>2 DEF RecordSkip
  <2>6. fetching' \in [Crawlers -> {Idle} \cup Fetched \cup Opened]
    BY <1>4 DEF RecordSkip
  <2>7. QED
    BY <1>4, <2>3, <2>4, <2>5, <2>6 DEF RecordSkip
<1>5. CASE RecordFailure(w)
  <2> DEFINE job == fetching[w]
  <2>1. job \in Opened
    BY <1>5, JobStage DEF RecordFailure
  <2>2. job.url \in Urls /\ job.at \in Time
    BY <2>1 DEF Opened
  <2>3. fetchLog' \in [Urls -> Seq(LogRow)]
    BY <1>5, <2>2, LogType DEF RecordFailure
  <2>4. fetching' \in [Crawlers -> {Idle} \cup Fetched \cup Opened]
    BY <1>5 DEF RecordFailure
  <2>5. QED
    BY <1>5, <2>3, <2>4 DEF RecordFailure
<1>6. CASE LoseFetch(w)
  <2>1. fetching' \in [Crawlers -> {Idle} \cup Fetched \cup Opened]
    BY <1>6 DEF LoseFetch
  <2>2. faults' \in 0..MaxFaults
    BY <1>6 DEF LoseFetch, Fault
  <2>3. QED
    BY <1>6, <2>1, <2>2 DEF LoseFetch
<1>7. CASE LoadRow(w)
  <2>1. fetching[w] \in Opened
    BY <1>7, JobStage DEF LoadRow
  <2>2. [fetching[w] EXCEPT !.loaded = documents[fetching[w].url]] \in Opened
    BY <2>1 DEF Opened
  <2>3. fetching' \in [Crawlers -> {Idle} \cup Fetched \cup Opened]
    BY <1>7, <2>2 DEF LoadRow
  <2>4. QED
    BY <1>7, <2>3 DEF LoadRow
<1>8. QED
  BY <1>1, <1>2, <1>3, <1>4, <1>5, <1>6, <1>7 DEF Crawl

LEMMA EmbedType ==
  ASSUME TypeInv, NEW e \in Embedders, Embed(e)
  PROVE  TypeInv'
<1> USE DEF TypeInv, TypeOK, RunFinite
<1>1. ASSUME NEW s \in Indexes \cup {WholeStore}, EmbedSelect(e, s)
      PROVE  TypeInv'
  <2>1. embedding' \in [Embedders -> SUBSET Reading]
    BY <1>1, UnembeddedType DEF EmbedSelect
  <2>2. QED
    BY <1>1, <2>1 DEF EmbedSelect
<1>2. ASSUME NEW r \in embedding[e], EmbedDocument(e, r)
      PROVE  TypeInv'
  <2>1. r.url \in Urls /\ r.hash \in Contents
    BY DEF Reading
  <2>2. documents' \in [Urls -> Document]
    <3>1. [documents[r.url] EXCEPT !.embedded = TRUE] \in Document
      BY <2>1, EmbeddedRowType
    <3>2. documents' = [documents EXCEPT ![r.url] =
                          [documents[r.url] EXCEPT !.embedded = TRUE]]
      BY <1>2 DEF EmbedDocument
    <3>3. QED
      BY <2>1, <3>1, <3>2
  <2>3. chunks' \in [Urls -> Contents \cup {None}]
    BY <1>2, <2>1 DEF EmbedDocument
  <2>4. embedding' \in [Embedders -> SUBSET Reading]
    BY <1>2 DEF EmbedDocument
  <2>5. QED
    BY <1>2, <2>2, <2>3, <2>4 DEF EmbedDocument
<1>3. CASE LoseEmbed(e)
  <2>1. faults' \in 0..MaxFaults
    BY <1>3, ConstantsAssumption DEF LoseEmbed, Fault
  <2>2. embedding' \in [Embedders -> SUBSET Reading]
    BY <1>3 DEF LoseEmbed
  <2>3. QED
    BY <1>3, <2>1, <2>2 DEF LoseEmbed
<1>4. QED
  BY <1>1, <1>2, <1>3 DEF Embed

Run == [pc      : {"idle", "submit", "wait", "backfill"},
        pending : SUBSET Request,
        size    : Nat,
        batch   : SUBSET Request]

LEMMA NotRunningType ==
  /\ NotRunning \in Run
  /\ IsFiniteSet(NotRunning.pending)
  /\ NotRunning.batch \subseteq NotRunning.pending
BY ConstantsAssumption, FS_EmptySet DEF NotRunning, Run

\* What a failed submission leaves of the run.
LEMMA AfterFailureType ==
  ASSUME TypeInv, NEW n \in Nat
  PROVE  /\ AfterFailure(n) \in Run
         /\ IsFiniteSet(AfterFailure(n).pending)
         /\ AfterFailure(n).batch \subseteq AfterFailure(n).pending
<1>1. CASE n > 1
  <2>1. n \div 2 \in Nat
    OBVIOUS
  <2>2. AfterFailure(n) =
          [attest EXCEPT !.pc = "submit", !.size = n \div 2, !.batch = {}]
    BY <1>1 DEF AfterFailure
  <2>3. QED
    BY <2>1, <2>2 DEF TypeInv, TypeOK, RunFinite, Run
<1>2. CASE ~(n > 1)
  BY <1>2, NotRunningType DEF AfterFailure
<1>3. QED
  BY <1>1, <1>2

\* A fault of the attester that only changes its run.
LEMMA RunType ==
  ASSUME TypeInv,
         attest' \in Run, IsFiniteSet(attest'.pending),
         attest'.batch \subseteq attest'.pending,
         faults' \in 0..MaxFaults,
         UNCHANGED <<documents, chunks, fetchLog, members, fetching, embedding,
                     txs, clock>>
  PROVE  TypeInv'
BY DEF TypeInv, TypeOK, RunFinite, Run

LEMMA AttestType ==
  ASSUME TypeInv, Attest
  PROVE  TypeInv'
<1>1. ASSUME NEW s \in Indexes \cup {WholeStore}, AttestSelect(s)
      PROVE  TypeInv'
  <2>1. Unattested(s) \subseteq Request /\ IsFiniteSet(Unattested(s))
    BY UnattestedType DEF TypeInv
  <2>2. attest' \in Run /\ attest'.pending = Unattested(s) /\ attest'.batch = {}
    BY <1>1, <2>1, ConstantsAssumption DEF AttestSelect, Run
  <2>3. QED
    BY <1>1, <2>1, <2>2, RunType DEF AttestSelect, TypeInv, TypeOK
<1>2. CASE Submit
  <2>1. PICK b \in Batches :
          /\ attest' = [attest EXCEPT !.pc = "wait", !.batch = b]
          /\ txs' = Append(txs, [requests |-> b, landed |-> FALSE])
    BY <1>2 DEF Submit
  <2>2. b \subseteq attest.pending /\ b \in SUBSET Request
    BY BatchType
  <2>3. [requests |-> b, landed |-> FALSE] \in [requests : SUBSET Request, landed : BOOLEAN]
    BY <2>2
  <2>4. txs' \in Seq([requests : SUBSET Request, landed : BOOLEAN])
    <3> DEFINE T == [requests : SUBSET Request, landed : BOOLEAN]
               t == [requests |-> b, landed |-> FALSE]
    <3>1. t \in T /\ txs \in Seq(T) /\ txs' = Append(txs, t)
      BY <2>1, <2>3 DEF TypeInv, TypeOK
    <3> HIDE DEF T, t
    <3>2. txs' \in Seq(T)
      BY <3>1
    <3>3. QED
      BY <3>2 DEF T
  <2>5. QED
    BY <1>2, <2>1, <2>2, <2>4 DEF Submit, TypeInv, TypeOK, RunFinite
<1>3. CASE Refuse
  <2>1. PICK b \in Batches : attest' = AfterFailure(Cardinality(b))
    BY <1>3 DEF Refuse
  <2>2. Cardinality(b) \in Nat
    BY BatchType
  <2>3. faults' \in 0..MaxFaults
    BY <1>3, ConstantsAssumption DEF Refuse, Fault, TypeInv, TypeOK
  <2>4. QED
    BY <1>3, <2>1, <2>2, <2>3, AfterFailureType, RunType DEF Refuse
<1>4. CASE Timeout
  <2>1. IsFiniteSet(attest.batch)
    BY FS_Subset DEF TypeInv, RunFinite
  <2>2. Cardinality(attest.batch) \in Nat
    BY <2>1, FS_CardinalityType
  <2>3. faults' \in 0..MaxFaults
    BY <1>4, ConstantsAssumption DEF Timeout, Fault, TypeInv, TypeOK
  <2>4. QED
    BY <1>4, <2>2, <2>3, AfterFailureType, RunType DEF Timeout
<1>5. CASE Settle
  BY <1>5 DEF Settle, TypeInv, TypeOK, RunFinite
<1>6. ASSUME NEW r \in attest.batch, Backfill(r)
      PROVE  TypeInv'
  <2>1. r \in Request
    BY DEF TypeInv, TypeOK
  <2>2. r.url \in Urls /\ Len(txs) \in Nat
    BY <2>1 DEF Request, TypeInv, TypeOK
  <2>3. documents' \in [Urls -> Document]
    <3>1. <<Len(txs), r.url>> \in Uid
      BY <2>2 DEF Uid
    <3>2. [documents[r.url] EXCEPT !.uid = <<Len(txs), r.url>>] \in Document
      BY <2>2, <3>1, AttestedRowType DEF TypeInv, TypeOK
    <3>3. documents' = [documents EXCEPT ![r.url] =
                          [documents[r.url] EXCEPT !.uid = <<Len(txs), r.url>>]]
      BY <1>6 DEF Backfill
    <3>4. QED
      BY <2>2, <3>2, <3>3 DEF TypeInv, TypeOK
  <2>4. /\ attest' \in Run
        /\ IsFiniteSet(attest'.pending)
        /\ attest'.batch \subseteq attest'.pending
    <3>1. CASE attest.pending \ {r} = {}
      BY <1>6, <3>1, NotRunningType DEF Backfill
    <3>2. CASE attest.pending \ {r} # {}
      <4>1. attest' = [attest EXCEPT !.pending = attest.pending \ {r},
                         !.batch = attest.batch \ {r},
                         !.pc = IF attest.batch \ {r} = {} THEN "submit" ELSE @]
        BY <1>6, <3>2 DEF Backfill
      <4>2. IsFiniteSet(attest.pending \ {r})
        BY FS_Subset DEF TypeInv, RunFinite
      <4>3. QED
        BY <4>1, <4>2 DEF TypeInv, TypeOK, RunFinite, Run
    <3>3. QED
      BY <3>1, <3>2
  <2>5. QED
    BY <1>6, <2>3, <2>4 DEF Backfill, TypeInv, TypeOK, RunFinite, Run
<1>7. CASE CrashAttester
  <2>1. faults' \in 0..MaxFaults
    BY <1>7, ConstantsAssumption DEF CrashAttester, Fault, TypeInv, TypeOK
  <2>2. QED
    BY <1>7, <2>1, NotRunningType, RunType DEF CrashAttester
<1>8. QED
  BY <1>1, <1>2, <1>3, <1>4, <1>5, <1>6, <1>7 DEF Attest

LEMMA LandType ==
  ASSUME TypeInv, NEW i \in 1..Len(txs), Land(i)
  PROVE  TypeInv'
<1> DEFINE T == [requests : SUBSET Request, landed : BOOLEAN]
<1>1. txs \in Seq(T)
  BY DEF TypeInv, TypeOK
<1>2. txs[i] \in T
  <2> HIDE DEF T
  <2>1. QED
    BY <1>1
<1>3. [txs[i] EXCEPT !.landed = TRUE] \in T
  BY <1>2
<1>4. txs' \in Seq(T)
  <2> DEFINE t == [txs[i] EXCEPT !.landed = TRUE]
  <2>1. txs' = [txs EXCEPT ![i] = t]
    BY DEF Land
  <2> HIDE DEF T, t
  <2>2. t \in T
    BY <1>3 DEF t
  <2>3. QED
    BY <1>1, <2>1, <2>2
<1>5. QED
  BY <1>4 DEF Land, TypeInv, TypeOK, RunFinite

LEMMA InitType == Init => TypeInv
<1> SUFFICES ASSUME Init PROVE TypeInv
  OBVIOUS
<1>1. TypeOK
  BY NoDocumentType, NotRunningType, ConstantsAssumption
  DEF Init, TypeOK, Idle, Run, Time
<1>2. RunFinite
  BY NotRunningType DEF Init, RunFinite
<1>3. QED
  BY <1>1, <1>2 DEF TypeInv

LEMMA StepType == TypeInv /\ [Next]_vars => TypeInv'
<1> SUFFICES ASSUME TypeInv, [Next]_vars PROVE TypeInv'
  OBVIOUS
<1>1. ASSUME NEW w \in Crawlers, Crawl(w) PROVE TypeInv'
  BY <1>1, CrawlType
<1>2. ASSUME NEW e \in Embedders, Embed(e) PROVE TypeInv'
  BY <1>2, EmbedType
<1>3. CASE Attest
  BY <1>3, AttestType
<1>4. ASSUME NEW i \in 1..Len(txs), Land(i) PROVE TypeInv'
  BY <1>4, LandType
<1>5. CASE UNCHANGED vars
  BY <1>5 DEF vars, TypeInv, TypeOK, RunFinite
<1>6. QED
  BY <1>1, <1>2, <1>3, <1>4, <1>5 DEF Next

LEMMA TypeInvariant == Spec => []TypeInv
BY InitType, StepType, PTL DEF Spec

\* Every variable keeps its type: in particular a request of the attester and a
\* reading of an embed pass is always of a document that exists, and the size of
\* a batch is a number however often batches are halved.
THEOREM TypeCorrect == Spec => []TypeOK
<1>1. TypeInv => TypeOK
  BY DEF TypeInv
<1>2. QED
  BY <1>1, TypeInvariant, PTL

-----------------------------------------------------------------------------
(***************************************************************************)
(* What is signed, served and stored is explained by the trail.  The proof *)
(* carries the snapshots: the content and the time a row has, and those of *)
(* everything read from a row and not yet written back, are in fetch_log,  *)
(* which only grows.  They are of one fetch only while no two transactions *)
(* record one URL (RowProofs): save writes the columns that differ from    *)
(* what it read, so two of them may leave the content of the one with the  *)
(* time of the other.                                                      *)
(***************************************************************************)
SeenContent(u, hash) == \E at \in Time : Logged(u, hash, at)

SeenAt(u, at) == \E k \in DOMAIN fetchLog[u] : fetchLog[u][k].at = at

Traced(u, hash, at) == SeenContent(u, hash) /\ SeenAt(u, at)

Signed ==
  \A i \in 1..Len(txs) : \A r \in txs[i].requests : Traced(r.url, r.hash, r.at)

RowsLogged ==
  \A u \in Urls : Exists(u) => Traced(u, documents[u].hash, documents[u].fetchedAt)

ReadingsLogged ==
  \A e \in Embedders : \A r \in embedding[e] : SeenContent(r.url, r.hash)

PendingLogged ==
  \A r \in attest.pending : Traced(r.url, r.hash, r.at)

Explained ==
  RowsLogged /\ ReadingsLogged /\ PendingLogged /\ Signed /\ ChunksExplained

\* The attester backfills the requests of its last transaction, once it landed.
InFlight ==
  /\ attest.pc \in {"wait", "backfill"} =>
       /\ Len(txs) > 0
       /\ attest.batch \subseteq txs[Len(txs)].requests
  /\ attest.pc = "backfill" => txs[Len(txs)].landed

Backed(u) ==
  documents[u].uid # None =>
    \E i \in 1..Len(txs) :
      /\ documents[u].uid = <<i, u>>
      /\ txs[i].landed
      /\ \E r \in txs[i].requests : r.url = u

UidsBacked == \A u \in Urls : Backed(u)

\* A step leaves fetch_log as it is or appends one row for one URL.
Appended(u, row) == fetchLog' = [fetchLog EXCEPT ![u] = Append(@, row)]

LEMMA LogStep ==
  ASSUME TypeInv, [Next]_vars
  PROVE  \/ UNCHANGED fetchLog
         \/ \E u \in Urls : \E row \in LogRow : Appended(u, row)
<1> DEFINE Goal == \/ UNCHANGED fetchLog
                   \/ \E u \in Urls : \E row \in LogRow : Appended(u, row)
<1>1. ASSUME NEW w \in Crawlers, Crawl(w) PROVE Goal
  <2> DEFINE job == fetching[w]
  <2>1. CASE RecordContent(w) \/ RecordSkip(w) \/ RecordFailure(w)
    <3>1. job \in {Idle} \cup Fetched \cup Opened
      BY DEF TypeInv, TypeOK
    <3>2. job \in Opened
      BY <2>1, <3>1, JobStage DEF RecordContent, RecordSkip, RecordFailure
    <3>3. job.url \in Urls /\ job.at \in Time /\ job.existing \in Document
      BY <3>2 DEF Opened
    <3>4. \A hash : ContentChanged(job.existing, hash) \in BOOLEAN
      BY <3>3 DEF ContentChanged, Document
    <3>5. ASSUME NEW kind \in {"content", Thin, Failed},
                 NEW hash \in Contents \cup {None}, NEW changed \in BOOLEAN,
                 Log(job.url, kind, hash, changed, job.at)
          PROVE  Goal
      <4> DEFINE row == [kind |-> kind, hash |-> hash, changed |-> changed,
                         at |-> job.at]
      <4>1. row \in LogRow /\ Appended(job.url, row)
        BY <3>3, <3>5 DEF Log, LogRow, Appended
      <4>2. QED
        BY <3>3, <4>1
    <3>6. QED
      BY <2>1, <3>4, <3>5 DEF RecordContent, RecordSkip, RecordFailure
  <2>2. CASE \/ LoseFetch(w) \/ OpenRecord(w) \/ LoadRow(w)
             \/ \E i \in Indexes, u \in Urls : Fetch(w, i, u)
    BY <2>2 DEF LoseFetch, OpenRecord, LoadRow, Fetch
  <2>3. QED
    BY <1>1, <2>1, <2>2 DEF Crawl
<1>2. ASSUME NEW e \in Embedders, Embed(e) PROVE Goal
  BY <1>2 DEF Embed, EmbedSelect, EmbedDocument, LoseEmbed
<1>3. CASE Attest
  BY <1>3 DEF Attest, AttestSelect, Submit, Refuse, Timeout, Settle, Backfill,
              CrashAttester
<1>4. ASSUME NEW i \in 1..Len(txs), Land(i) PROVE Goal
  BY <1>4 DEF Land
<1>5. CASE UNCHANGED vars
  BY <1>5 DEF vars
<1>6. QED
  BY <1>1, <1>2, <1>3, <1>4, <1>5 DEF Next

LEMMA AppendedRows ==
  ASSUME TypeInv, NEW u \in Urls, NEW row \in LogRow, Appended(u, row)
  PROVE  /\ \A v \in Urls \ {u} : fetchLog'[v] = fetchLog[v]
         /\ DOMAIN fetchLog'[u] = 1..(Len(fetchLog[u]) + 1)
         /\ DOMAIN fetchLog[u] = 1..Len(fetchLog[u])
         /\ Len(fetchLog[u]) \in Nat
         /\ \A k \in 1..Len(fetchLog[u]) : fetchLog'[u][k] = fetchLog[u][k]
         /\ fetchLog'[u][Len(fetchLog[u]) + 1] = row
<1>1. fetchLog[u] \in Seq(LogRow)
  BY DEF TypeInv, TypeOK
<1>2. fetchLog'[u] = Append(fetchLog[u], row)
  BY DEF Appended, TypeInv, TypeOK
<1>3. \A v \in Urls \ {u} : fetchLog'[v] = fetchLog[v]
  BY DEF Appended, TypeInv, TypeOK
<1>4. QED
  BY <1>1, <1>2, <1>3

LEMMA LogGrows ==
  ASSUME TypeInv, [Next]_vars, NEW u \in Urls, NEW hash, NEW at,
         Logged(u, hash, at)
  PROVE  Logged(u, hash, at)'
<1>1. CASE UNCHANGED fetchLog
  BY <1>1 DEF Logged
<1>2. ASSUME NEW v \in Urls, NEW row \in LogRow, Appended(v, row)
      PROVE  Logged(u, hash, at)'
  BY <1>2, AppendedRows DEF Logged
<1>3. QED
  BY <1>1, <1>2, LogStep

LEMMA SeenGrows ==
  ASSUME TypeInv, [Next]_vars, NEW u \in Urls, NEW hash, NEW at
  PROVE  /\ SeenContent(u, hash) => SeenContent(u, hash)'
         /\ SeenAt(u, at) => SeenAt(u, at)'
         /\ Traced(u, hash, at) => Traced(u, hash, at)'
<1>1. ASSUME SeenContent(u, hash) PROVE SeenContent(u, hash)'
  <2>1. PICK t \in Time : Logged(u, hash, t)
    BY <1>1 DEF SeenContent
  <2>2. Logged(u, hash, t)'
    BY <2>1, LogGrows
  <2>3. QED
    BY <2>2 DEF SeenContent, Logged
<1>2. ASSUME SeenAt(u, at) PROVE SeenAt(u, at)'
  <2>1. PICK k \in DOMAIN fetchLog[u] : fetchLog[u][k].at = at
    BY <1>2 DEF SeenAt
  <2>2. Logged(u, fetchLog[u][k].hash, at)
    BY <2>1 DEF Logged
  <2> DEFINE h == fetchLog[u][k].hash
  <2>3. \E j \in DOMAIN fetchLog'[u] : fetchLog'[u][j].hash = h /\ fetchLog'[u][j].at = at
    BY <2>2, LogGrows DEF Logged
  <2>4. QED
    BY <2>3 DEF SeenAt
<1>3. QED
  BY <1>1, <1>2 DEF Traced

\* Handler w commits a content of u.
Recorded(w, u) ==
  LET job == fetching[w] IN
  /\ job \in Opened /\ job.url = u /\ job.result \in Contents
  /\ documents' = [documents EXCEPT ![u] =
                     SavedRow(documents[u], job)]
  /\ Log(u, "content", job.result, ContentChanged(job.existing, job.result), job.at)

SameContent(u) ==
  /\ documents'[u].hash = documents[u].hash
  /\ documents'[u].fetchedAt = documents[u].fetchedAt

\* Only a committed fetch changes what a row says was fetched.
LEMMA ContentStep ==
  ASSUME TypeInv, [Next]_vars, NEW u \in Urls
  PROVE  SameContent(u) \/ \E w \in Crawlers : Recorded(w, u)
<1> DEFINE Goal == SameContent(u) \/ \E w \in Crawlers : Recorded(w, u)
<1>0. documents \in [Urls -> Document]
  BY DEF TypeInv, TypeOK
<1>1. ASSUME NEW w \in Crawlers, Crawl(w) PROVE Goal
  <2> DEFINE job == fetching[w]
  <2>0. job \in {Idle} \cup Fetched \cup Opened
    BY DEF TypeInv, TypeOK
  <2>1. CASE RecordContent(w)
    <3>1. job \in Opened
      BY <2>0, <2>1, JobStage DEF RecordContent
    <3>2. job.url \in Urls
      BY <3>1 DEF Opened
    <3>3. CASE UNCHANGED documents
      BY <3>3 DEF SameContent
    <3>4. CASE Recorded(w, job.url)
      <4>1. CASE u = job.url
        BY <3>4, <4>1
      <4>2. CASE u # job.url
        BY <1>0, <3>4, <4>2 DEF Recorded, SameContent
      <4>3. QED
        BY <4>1, <4>2
    <3>5. QED
      BY <2>1, <3>1, <3>3, <3>4 DEF RecordContent, Recorded
  <2>2. CASE RecordSkip(w)
    BY <1>0, <2>2 DEF RecordSkip, SameContent, Document
  <2>3. CASE RecordFailure(w) \/ LoseFetch(w) \/ OpenRecord(w) \/ LoadRow(w)
               \/ \E i \in Indexes, v \in Urls : Fetch(w, i, v)
    BY <2>3 DEF RecordFailure, LoseFetch, OpenRecord, LoadRow, Fetch, SameContent
  <2>4. QED
    BY <1>1, <2>1, <2>2, <2>3 DEF Crawl
<1>2. ASSUME NEW e \in Embedders, Embed(e) PROVE Goal
  <2>1. CASE UNCHANGED documents
    BY <2>1 DEF SameContent
  <2>2. ASSUME NEW r \in embedding[e], EmbedDocument(e, r) PROVE Goal
    BY <1>0, <2>2 DEF EmbedDocument, SameContent, Document
  <2>3. QED
    BY <1>2, <2>1, <2>2 DEF Embed, EmbedSelect, LoseEmbed
<1>3. CASE Attest
  <2>1. CASE UNCHANGED documents
    BY <2>1 DEF SameContent
  <2>2. ASSUME NEW r \in attest.batch, Backfill(r) PROVE Goal
    BY <1>0, <2>2 DEF Backfill, SameContent, Document
  <2>3. QED
    BY <1>3, <2>1, <2>2 DEF Attest, AttestSelect, Submit, Refuse, Timeout, Settle,
                            CrashAttester
<1>4. ASSUME NEW i \in 1..Len(txs), Land(i) PROVE Goal
  BY <1>4 DEF Land, SameContent
<1>5. CASE UNCHANGED vars
  BY <1>5 DEF vars, SameContent
<1>6. QED
  BY <1>1, <1>2, <1>3, <1>4, <1>5 DEF Next

LEMMA RowsStep ==
  ASSUME TypeInv, RowsLogged, [Next]_vars
  PROVE  RowsLogged'
<1> SUFFICES ASSUME NEW u \in Urls, documents'[u].hash # None
             PROVE  Traced(u, documents[u].hash, documents[u].fetchedAt)'
  BY DEF RowsLogged, Exists
<1>0. documents[u].hash # None =>
        SeenContent(u, documents[u].hash) /\ SeenAt(u, documents[u].fetchedAt)
  BY DEF RowsLogged, Exists, Traced
<1>1. ASSUME NEW h, NEW t, SeenContent(u, h)', SeenAt(u, t)',
             documents'[u].hash = h, documents'[u].fetchedAt = t
      PROVE  Traced(u, documents[u].hash, documents[u].fetchedAt)'
  BY <1>1 DEF Traced, SeenContent, SeenAt, Logged
<1>2. CASE SameContent(u)
  <2>1. ASSUME NEW h, NEW t, SeenContent(u, h), SeenAt(u, t),
               documents'[u].hash = h, documents'[u].fetchedAt = t
        PROVE  Traced(u, documents[u].hash, documents[u].fetchedAt)'
    BY <1>1, <2>1, SeenGrows
  <2>2. QED
    BY <1>0, <1>2, <2>1 DEF SameContent
<1>3. ASSUME NEW w \in Crawlers, Recorded(w, u)
      PROVE  Traced(u, documents[u].hash, documents[u].fetchedAt)'
  <2> DEFINE job == fetching[w]
             row == [kind |-> "content", hash |-> job.result,
                     changed |-> ContentChanged(job.existing, job.result),
                     at |-> job.at]
  <2>1. /\ job.at \in Time /\ job.existing \in Document /\ job.result \in Contents
        /\ job.url = u
    BY <1>3 DEF Recorded, Opened
  <2>2. ContentChanged(job.existing, job.result) \in BOOLEAN
    BY <2>1 DEF ContentChanged, Document
  <2>3. row \in LogRow /\ Appended(u, row)
    BY <1>3, <2>1, <2>2 DEF Recorded, LogRow, Log, Appended
  <2>4. fetchLog'[u][Len(fetchLog[u]) + 1] = row
        /\ Len(fetchLog[u]) + 1 \in DOMAIN fetchLog'[u]
    BY <2>3, AppendedRows
  <2>5. documents'[u] = SavedRow(documents[u], job)
    BY <1>3 DEF Recorded, TypeInv, TypeOK
  <2>6. /\ documents'[u].fetchedAt = job.at
        /\ documents'[u].hash \in {job.result, documents[u].hash}
    BY <2>5 DEF SavedRow, InsertedRow, UpdatedRow, Written
  <2>7. ASSUME NEW t, t = job.at PROVE SeenAt(u, t)'
    BY <2>4, <2>7 DEF SeenAt
  <2>8. CASE documents'[u].hash = job.result
    <3>1. ASSUME NEW h, h = job.result PROVE SeenContent(u, h)'
      BY <2>1, <2>4, <3>1 DEF SeenContent, Logged
    <3>2. QED
      BY <1>1, <2>6, <2>7, <2>8, <3>1
  <2>9. CASE documents'[u].hash = documents[u].hash
    <3>1. ASSUME NEW h, h = documents[u].hash PROVE SeenContent(u, h)'
      BY <1>0, <2>9, <3>1, SeenGrows
    <3>2. QED
      BY <1>1, <2>6, <2>7, <2>9, <3>1
  <2>10. QED
    BY <2>6, <2>8, <2>9
<1>4. QED
  BY <1>2, <1>3, ContentStep

LEMMA ReadingsStep ==
  ASSUME TypeInv, RowsLogged, ReadingsLogged, [Next]_vars
  PROVE  ReadingsLogged'
<1> SUFFICES ASSUME NEW e \in Embedders, NEW r \in embedding'[e]
             PROVE  SeenContent(r.url, r.hash)'
  BY DEF ReadingsLogged
<1>1. CASE r \in embedding[e]
  <2>1. SeenContent(r.url, r.hash)
    BY <1>1 DEF ReadingsLogged
  <2>2. r.url \in Urls
    BY <1>1 DEF TypeInv, TypeOK, Reading
  <2>3. QED
    BY <2>1, <2>2, SeenGrows
<1>2. ASSUME NEW s \in Indexes \cup {WholeStore}, EmbedSelect(e, s)
      PROVE  SeenContent(r.url, r.hash)'
  <2>1. r \in Unembedded(s)
    BY <1>2 DEF EmbedSelect, TypeInv, TypeOK
  <2>2. PICK u \in Urls : Exists(u) /\ r.url = u /\ r.hash = documents[u].hash
    BY <2>1 DEF Unembedded, Scope, TypeInv, TypeOK
  <2>3. SeenContent(r.url, r.hash)
    BY <2>2 DEF RowsLogged, Traced
  <2>4. QED
    BY <2>2, <2>3, SeenGrows
<1>3. embedding'[e] \subseteq embedding[e]
      \/ \E s \in Indexes \cup {WholeStore} : EmbedSelect(e, s)
  <2> DEFINE Goal == embedding'[e] \subseteq embedding[e]
                     \/ \E s \in Indexes \cup {WholeStore} : EmbedSelect(e, s)
  <2>1. ASSUME NEW d \in Embedders, Embed(d) PROVE Goal
    <3>0. embedding \in [Embedders -> SUBSET Reading]
      BY DEF TypeInv, TypeOK
    <3>1. ASSUME NEW s \in Indexes \cup {WholeStore}, EmbedSelect(d, s) PROVE Goal
      BY <3>0, <3>1 DEF EmbedSelect
    <3>2. ASSUME NEW q \in embedding[d], EmbedDocument(d, q) PROVE Goal
      BY <3>0, <3>2 DEF EmbedDocument
    <3>3. CASE LoseEmbed(d)
      BY <3>0, <3>3 DEF LoseEmbed
    <3>4. QED
      BY <2>1, <3>1, <3>2, <3>3 DEF Embed
  <2>2. CASE UNCHANGED embedding
    BY <2>2
  <2>3. QED
    BY <2>1, <2>2 DEF Next, vars, Crawl, Fetch, OpenRecord, LoadRow, RecordContent, RecordSkip,
       RecordFailure, LoseFetch, Attest, AttestSelect, Submit, Refuse, Timeout,
       Settle, Backfill, CrashAttester, Land
<1>4. QED
  BY <1>1, <1>2, <1>3

\* The run only ever drops requests, except that it selects new ones from the rows.
LEMMA PendingSource ==
  ASSUME TypeInv, [Next]_vars, NEW r \in attest'.pending
  PROVE  \/ r \in attest.pending /\ r.url \in Urls
         \/ \E u \in Urls : /\ Exists(u) /\ r.url = u /\ r.hash = documents[u].hash
                            /\ r.at = documents[u].fetchedAt
<1>1. CASE r \in attest.pending
  BY <1>1 DEF TypeInv, TypeOK, Request
<1>2. ASSUME NEW s \in Indexes \cup {WholeStore}, AttestSelect(s)
      PROVE  \E u \in Urls : /\ Exists(u) /\ r.url = u /\ r.hash = documents[u].hash
                             /\ r.at = documents[u].fetchedAt
  <2>1. r \in Unattested(s)
    BY <1>2 DEF AttestSelect
  <2>2. QED
    BY <2>1 DEF Unattested, Scope, TypeInv, TypeOK
<1>3. attest'.pending \subseteq attest.pending
      \/ \E s \in Indexes \cup {WholeStore} : AttestSelect(s)
  <2> DEFINE Goal == attest'.pending \subseteq attest.pending
                     \/ \E s \in Indexes \cup {WholeStore} : AttestSelect(s)
  <2>0. attest \in Run /\ NotRunning.pending = {}
    BY DEF TypeInv, TypeOK, Run, NotRunning
  <2>1. CASE Attest
    <3>1. CASE Submit \/ Settle
      BY <2>0, <3>1 DEF Submit, Settle, Run
    <3>2. ASSUME NEW n, attest' = AfterFailure(n) PROVE Goal
      BY <2>0, <3>2 DEF AfterFailure, Run
    <3>3. CASE CrashAttester
      BY <2>0, <3>3 DEF CrashAttester
    <3>4. ASSUME NEW q \in attest.batch, Backfill(q) PROVE Goal
      BY <2>0, <3>4 DEF Backfill, Run
    <3>5. QED
      BY <2>1, <3>1, <3>2, <3>3, <3>4 DEF Attest, Refuse, Timeout
  <2>2. CASE UNCHANGED attest
    BY <2>2
  <2>3. QED
    BY <2>1, <2>2 DEF Next, vars, Crawl, Fetch, OpenRecord, LoadRow, RecordContent,
       RecordSkip, RecordFailure, LoseFetch, Embed, EmbedSelect, EmbedDocument, LoseEmbed,
       Land
<1>4. QED
  BY <1>1, <1>2, <1>3

LEMMA PendingStep ==
  ASSUME TypeInv, RowsLogged, PendingLogged, [Next]_vars
  PROVE  PendingLogged'
<1> SUFFICES ASSUME NEW r \in attest'.pending
             PROVE  Traced(r.url, r.hash, r.at)'
  BY DEF PendingLogged
<1>1. r.url \in Urls /\ Traced(r.url, r.hash, r.at)
  BY PendingSource DEF PendingLogged, RowsLogged
<1>2. QED
  BY <1>1, SeenGrows

\* What a step does to the transactions.
LEMMA TxsStep ==
  ASSUME TypeInv, [Next]_vars
  PROVE  \/ UNCHANGED txs
         \/ Submit
         \/ \E i \in 1..Len(txs) : Land(i)
BY DEF Next, vars, Crawl, Fetch, OpenRecord, LoadRow, RecordContent, RecordSkip,
   RecordFailure, LoseFetch, Embed, EmbedSelect, EmbedDocument, LoseEmbed,
   Attest, AttestSelect, Refuse, Timeout, Settle, Backfill, CrashAttester

\* Submit appends the transaction of a batch, landing marks one: what was sent
\* stays sent, and what landed stays landed.
LEMMA TxsKept ==
  ASSUME TypeInv, [Next]_vars
  PROVE  /\ Len(txs') \in Nat /\ Len(txs) \in Nat
         /\ Len(txs') >= Len(txs)
         /\ \A i \in 1..Len(txs) : /\ txs'[i].requests = txs[i].requests
                                   /\ txs[i].landed => txs'[i].landed
         /\ \A i \in 1..Len(txs') : i \notin 1..Len(txs) =>
              /\ Submit /\ i = Len(txs) + 1
              /\ txs'[i].requests \subseteq attest.pending
              /\ txs'[i].requests = attest'.batch
<1> DEFINE T == [requests : SUBSET Request, landed : BOOLEAN]
<1>1. txs \in Seq(T)
  BY DEF TypeInv, TypeOK
<1>2. CASE UNCHANGED txs
  BY <1>1, <1>2
<1>3. CASE Submit
  <2>1. PICK b \in Batches :
          /\ attest' = [attest EXCEPT !.pc = "wait", !.batch = b]
          /\ txs' = Append(txs, [requests |-> b, landed |-> FALSE])
    BY <1>3 DEF Submit
  <2>2. b \subseteq attest.pending
    BY BatchType
  <2>3. attest'.batch = b
    BY <2>1 DEF TypeInv, TypeOK
  <2> DEFINE t == [requests |-> b, landed |-> FALSE]
  <2>4. t.requests = b
    OBVIOUS
  <2> HIDE DEF T, t
  <2>5. txs' = Append(txs, t)
    BY <2>1 DEF t
  <2>6. /\ Len(txs') = Len(txs) + 1 /\ Len(txs) \in Nat
        /\ \A i \in 1..Len(txs) : txs'[i] = txs[i]
        /\ txs'[Len(txs) + 1] = t
    BY <1>1, <2>5
  <2>7. QED
    BY <1>3, <2>2, <2>3, <2>4, <2>6
<1>4. ASSUME NEW j \in 1..Len(txs), Land(j)
      PROVE  /\ Len(txs') = Len(txs) /\ Len(txs) \in Nat
             /\ \A i \in 1..Len(txs) : /\ txs'[i].requests = txs[i].requests
                                       /\ txs[i].landed => txs'[i].landed
  <2>1. \A i \in 1..Len(txs) : txs[i] \in T
    <3> HIDE DEF T
    <3>1. QED
      BY <1>1
  <2>2. txs' = [txs EXCEPT ![j].landed = TRUE]
    BY <1>4 DEF Land
  <2>3. Len(txs') = Len(txs) /\ Len(txs) \in Nat
    <3> DEFINE t == [txs[j] EXCEPT !.landed = TRUE]
    <3>1. txs' = [txs EXCEPT ![j] = t]
      BY <2>2
    <3>2. t \in T
      BY <2>1
    <3> HIDE DEF T, t
    <3>3. QED
      BY <1>1, <3>1, <3>2
  <2>4. \A i \in 1..Len(txs) : /\ txs'[i].requests = txs[i].requests
                               /\ txs[i].landed => txs'[i].landed
    BY <1>1, <2>1, <2>2
  <2>5. QED
    BY <2>3, <2>4
<1>5. QED
  BY <1>2, <1>3, <1>4, TxsStep

\* What is signed was signed before, or was waiting in the run.
LEMMA SignedSource ==
  ASSUME TypeInv, [Next]_vars, NEW i \in 1..Len(txs'), NEW r \in txs'[i].requests
  PROVE  /\ r.url \in Urls
         /\ (i \in 1..Len(txs) /\ r \in txs[i].requests) \/ r \in attest.pending
<1>1. CASE i \in 1..Len(txs)
  <2>1. r \in txs[i].requests
    BY <1>1, TxsKept
  <2>2. txs[i].requests \subseteq Request
    <3> DEFINE T == [requests : SUBSET Request, landed : BOOLEAN]
    <3>1. txs \in Seq(T)
      BY DEF TypeInv, TypeOK
    <3>2. txs[i] \in T
      <4> HIDE DEF T
      <4>1. QED
        BY <1>1, <3>1
    <3>3. QED
      BY <3>2
  <2>3. QED
    BY <1>1, <2>1, <2>2 DEF Request
<1>2. CASE i \notin 1..Len(txs)
  <2>1. r \in attest.pending
    BY <1>2, TxsKept
  <2>2. QED
    BY <2>1 DEF TypeInv, TypeOK, Request
<1>3. QED
  BY <1>1, <1>2

LEMMA SignedStep ==
  ASSUME TypeInv, PendingLogged, Signed, [Next]_vars
  PROVE  Signed'
<1> SUFFICES ASSUME NEW i \in 1..Len(txs'), NEW r \in txs'[i].requests
             PROVE  Traced(r.url, r.hash, r.at)'
  BY DEF Signed
<1>1. r.url \in Urls /\ Traced(r.url, r.hash, r.at)
  BY SignedSource DEF Signed, PendingLogged
<1>2. QED
  BY <1>1, SeenGrows

LEMMA ChunksStep ==
  ASSUME TypeInv, ReadingsLogged, ChunksExplained, [Next]_vars
  PROVE  ChunksExplained'
<1> DEFINE Then(u, hash) ==
      \E at \in Time : \E k \in DOMAIN fetchLog'[u] :
        fetchLog'[u][k].hash = hash /\ fetchLog'[u][k].at = at
<1> SUFFICES ASSUME NEW u \in Urls, chunks'[u] # None
             PROVE  Then(u, chunks'[u])
  BY DEF ChunksExplained, Logged
<1>0. ASSUME NEW hash, \E at \in Time : Logged(u, hash, at)
      PROVE  Then(u, hash)
  <2>1. PICK at \in Time : Logged(u, hash, at)
    BY <1>0
  <2>2. Logged(u, hash, at)'
    BY <2>1, LogGrows
  <2>3. QED
    BY <2>2 DEF Logged
<1>1. CASE chunks'[u] = chunks[u]
  <2>1. \E at \in Time : Logged(u, chunks[u], at)
    BY <1>1 DEF ChunksExplained
  <2> HIDE DEF Then
  <2>2. Then(u, chunks[u])
    BY <1>0, <2>1
  <2>3. QED
    BY <1>1, <2>2
<1>2. ASSUME NEW e \in Embedders, NEW r \in embedding[e],
             r.url = u, chunks'[u] = r.hash
      PROVE  Then(u, chunks'[u])
  <2>1. \E at \in Time : Logged(u, r.hash, at)
    BY <1>2 DEF ReadingsLogged, SeenContent
  <2> HIDE DEF Then
  <2>2. Then(u, r.hash)
    BY <1>0, <2>1
  <2>3. QED
    BY <1>2, <2>2
<1>3. \/ chunks'[u] = chunks[u]
      \/ chunks'[u] = None
      \/ \E e \in Embedders : \E r \in embedding[e] : r.url = u /\ chunks'[u] = r.hash
  <2> DEFINE Goal == \/ chunks'[u] = chunks[u]
                     \/ chunks'[u] = None
                     \/ \E e \in Embedders : \E r \in embedding[e] :
                          r.url = u /\ chunks'[u] = r.hash
  <2>0. chunks \in [Urls -> Contents \cup {None}]
    BY DEF TypeInv, TypeOK
  <2>1. ASSUME NEW w \in Crawlers, RecordSkip(w) PROVE Goal
    BY <2>0, <2>1 DEF RecordSkip
  <2>2. ASSUME NEW e \in Embedders, NEW r \in embedding[e], EmbedDocument(e, r)
        PROVE  Goal
    BY <2>0, <2>2 DEF EmbedDocument
  <2>3. CASE UNCHANGED chunks
    BY <2>3
  <2>4. QED
    BY <2>1, <2>2, <2>3 DEF Next, vars, Crawl, Fetch, OpenRecord, LoadRow, RecordContent,
       RecordFailure, LoseFetch, Embed, EmbedSelect, LoseEmbed, Attest, AttestSelect,
       Submit, Refuse, Timeout, Settle, Backfill, CrashAttester, Land
<1>4. QED
  BY <1>1, <1>2, <1>3

LEMMA InFlightStep ==
  ASSUME TypeInv, InFlight, [Next]_vars
  PROVE  InFlight'
<1>0. attest \in Run /\ NotRunning.pc = "idle"
  BY DEF TypeInv, TypeOK, Run, NotRunning
<1>1. CASE Submit
  <2>1. attest'.pc = "wait"
    BY <1>0, <1>1 DEF Submit, Run
  <2>2. Len(txs') = Len(txs) + 1 /\ Len(txs) \in Nat
    BY <1>1 DEF Submit, TypeInv, TypeOK
  <2>3. txs'[Len(txs')].requests = attest'.batch
    BY <2>2, TxsKept
  <2>4. QED
    BY <2>1, <2>2, <2>3 DEF InFlight
<1>2. CASE UNCHANGED txs /\ Attest
  <2>1. CASE Settle
    BY <1>0, <2>1 DEF Settle, InFlight, Run
  <2>2. ASSUME NEW n, UNCHANGED txs, attest' = AfterFailure(n) PROVE InFlight'
    BY <1>0, <2>2 DEF AfterFailure, InFlight, Run
  <2>3. CASE CrashAttester
    BY <1>0, <2>3 DEF CrashAttester, InFlight
  <2>4. ASSUME NEW r \in attest.batch, Backfill(r) PROVE InFlight'
    <3>1. CASE attest' = NotRunning
      BY <1>0, <3>1 DEF InFlight
    <3>2. CASE /\ attest'.batch = attest.batch \ {r}
               /\ attest'.pc \in {"submit", "backfill"}
      BY <2>4, <3>2 DEF Backfill, InFlight
    <3>3. QED
      BY <1>0, <2>4, <3>1, <3>2 DEF Backfill, Run
  <2>5. ASSUME NEW s \in Indexes \cup {WholeStore}, AttestSelect(s) PROVE InFlight'
    BY <2>5 DEF AttestSelect, InFlight
  <2>6. QED
    BY <1>1, <1>2, <2>1, <2>2, <2>3, <2>4, <2>5 DEF Attest, Refuse, Timeout
<1>3. CASE UNCHANGED attest
  <2>1. CASE Submit
    BY <1>1, <2>1
  <2>2. CASE Len(txs) > 0 /\ ~Submit
    <3>1. Len(txs') = Len(txs) /\ Len(txs) \in 1..Len(txs)
      BY <2>2, TxsKept
    <3>2. /\ txs'[Len(txs)].requests = txs[Len(txs)].requests
          /\ txs[Len(txs)].landed => txs'[Len(txs)].landed
      BY <3>1, TxsKept
    <3>3. QED
      BY <1>3, <2>2, <3>1, <3>2 DEF InFlight
  <2>3. CASE ~(Len(txs) > 0) /\ ~Submit
    BY <1>3, <2>3 DEF InFlight
  <2>4. QED
    BY <2>1, <2>2, <2>3
<1>4. QED
  BY <1>1, <1>2, <1>3 DEF Next, vars, Crawl, Fetch, OpenRecord, LoadRow, RecordContent,
     RecordSkip, RecordFailure, LoseFetch, Embed, EmbedSelect, EmbedDocument,
     LoseEmbed, Attest, AttestSelect, Refuse, Timeout, Settle, Backfill,
     CrashAttester, Land

\* A UID is kept, cleared, or that of the transaction being backfilled.
LEMMA UidStep ==
  ASSUME TypeInv, [Next]_vars, NEW u \in Urls
  PROVE  \/ documents'[u].uid \in {documents[u].uid, None}
         \/ \E r \in attest.batch : Backfill(r) /\ r.url = u
<1> DEFINE Goal == \/ documents'[u].uid \in {documents[u].uid, None}
                   \/ \E r \in attest.batch : Backfill(r) /\ r.url = u
<1>0. documents \in [Urls -> Document]
  BY DEF TypeInv, TypeOK
<1>1. ASSUME NEW w \in Crawlers, RecordContent(w) PROVE Goal
  <2>1. CASE UNCHANGED documents
    BY <2>1
  <2>2. CASE documents' = [documents EXCEPT ![fetching[w].url] =
               SavedRow(@, fetching[w])]
    BY <1>0, <2>2 DEF SavedRow, InsertedRow, UpdatedRow, Written
  <2>3. QED
    BY <1>1, <2>1, <2>2 DEF RecordContent
<1>2. ASSUME NEW w \in Crawlers, RecordSkip(w) PROVE Goal
  BY <1>0, <1>2 DEF RecordSkip, Document
<1>3. ASSUME NEW e \in Embedders, NEW r \in embedding[e], EmbedDocument(e, r)
      PROVE  Goal
  BY <1>0, <1>3 DEF EmbedDocument, Document
<1>4. ASSUME NEW r \in attest.batch, Backfill(r) PROVE Goal
  <2>1. CASE r.url = u
    BY <1>4, <2>1
  <2>2. CASE r.url # u
    BY <1>0, <1>4, <2>2 DEF Backfill
  <2>3. QED
    BY <2>1, <2>2
<1>5. CASE UNCHANGED documents
  BY <1>5
<1>6. QED
  BY <1>1, <1>2, <1>3, <1>4, <1>5 DEF Next, vars, Crawl, Fetch, OpenRecord, LoadRow,
     RecordFailure, LoseFetch, Embed, EmbedSelect, LoseEmbed, Attest, AttestSelect,
     Submit, Refuse, Timeout, Settle, CrashAttester, Land

LEMMA UidsStep ==
  ASSUME TypeInv, InFlight, UidsBacked, [Next]_vars
  PROVE  UidsBacked'
<1> SUFFICES ASSUME NEW u \in Urls, documents'[u].uid # None
             PROVE  \E i \in 1..Len(txs') :
                      /\ documents'[u].uid = <<i, u>>
                      /\ txs'[i].landed
                      /\ \E r \in txs'[i].requests : r.url = u
  BY DEF UidsBacked, Backed
<1>1. CASE documents'[u].uid = documents[u].uid
  <2>1. PICK i \in 1..Len(txs) : /\ documents[u].uid = <<i, u>>
                                 /\ txs[i].landed
                                 /\ \E r \in txs[i].requests : r.url = u
    BY <1>1 DEF UidsBacked, Backed
  <2>2. i \in 1..Len(txs') /\ txs'[i].requests = txs[i].requests /\ txs'[i].landed
    BY <2>1, TxsKept
  <2>3. QED
    BY <1>1, <2>1, <2>2
<1>2. ASSUME NEW r \in attest.batch, Backfill(r), r.url = u
      PROVE  /\ documents'[u].uid = <<Len(txs), u>>
             /\ txs' = txs
             /\ Len(txs) \in 1..Len(txs)
             /\ txs[Len(txs)].landed
             /\ r \in txs[Len(txs)].requests
  <2>1. documents'[u].uid = <<Len(txs), u>> /\ txs' = txs
    BY <1>2 DEF Backfill, TypeInv, TypeOK, Document
  <2>2. Len(txs) > 0 /\ txs[Len(txs)].landed /\ r \in txs[Len(txs)].requests
    BY <1>2 DEF Backfill, InFlight
  <2>3. Len(txs) \in 1..Len(txs)
    BY <2>2, TxsKept
  <2>4. QED
    BY <2>1, <2>2, <2>3
<1>3. QED
  BY <1>1, <1>2, UidStep

TrailInv == TypeInv /\ Explained /\ InFlight /\ UidsBacked

LEMMA InitTrail == Init => TrailInv
<1> SUFFICES ASSUME Init PROVE TrailInv
  OBVIOUS
<1>1. TypeInv
  BY InitType
<1>2. Len(txs) = 0
  BY DEF Init
<1>3. Explained
  BY <1>2 DEF Init, Explained, RowsLogged, ReadingsLogged, PendingLogged, Signed,
              ChunksExplained, Exists, NoDocument, NotRunning
<1>4. InFlight /\ UidsBacked
  BY DEF Init, InFlight, UidsBacked, Backed, NotRunning, NoDocument
<1>5. QED
  BY <1>1, <1>3, <1>4 DEF TrailInv

LEMMA StepTrail == TrailInv /\ [Next]_vars => TrailInv'
<1> SUFFICES ASSUME TrailInv, [Next]_vars PROVE TrailInv'
  OBVIOUS
<1>1. TypeInv'
  BY StepType DEF TrailInv
<1>2. Explained'
  BY RowsStep, ReadingsStep, PendingStep, SignedStep, ChunksStep
     DEF TrailInv, Explained
<1>3. InFlight' /\ UidsBacked'
  BY InFlightStep, UidsStep DEF TrailInv
<1>4. QED
  BY <1>1, <1>2, <1>3 DEF TrailInv

LEMMA TrailInvariant == Spec => []TrailInv
BY InitTrail, StepTrail, PTL DEF Spec

\* However late an embed pass writes, what search reads of a page was cut from
\* a content the trail says was fetched from it (embed.ts, the transaction that
\* replaces the chunks).
THEOREM SearchedTrail == Spec => []ChunksExplained
<1>1. TrailInv => ChunksExplained
  BY DEF TrailInv, Explained
<1>2. QED
  BY <1>1, TrailInvariant, PTL
=============================================================================
