------------------------------ MODULE RowProofs ------------------------------
(***************************************************************************)
(* What a document's row says of its URL: theorems about Pipeline, for any *)
(* number of URLs, contents, handlers, embed passes, fetches and faults.   *)
(* Most are about behaviours in which no two transactions record the same  *)
(* URL at once: each decides from the row it read, which no lock keeps     *)
(* (provenance.ts, findOne and the SELECT of save), and two of them break  *)
(* every one of these.  What the embed passes and the attester write in    *)
(* between is another matter: the theorems that need the stages to take    *)
(* turns say so.                                                           *)
(***************************************************************************)
EXTENDS PipelineProofs

\* No two transactions of recordFetch or recordFailedFetch are open at one URL.
Exclusive ==
  \A v, w \in Crawlers :
    /\ fetching[v].stage = "opened" /\ fetching[w].stage = "opened"
    /\ fetching[v].url = fetching[w].url
    => v = w

\* It is so whenever there is one handler, whatever it does.
LEMMA OneHandlerIsExclusive ==
  ASSUME \A v, w \in Crawlers : v = w
  PROVE  Spec => []Exclusive
<1>1. Exclusive
  BY DEF Exclusive
<1>2. QED
  BY <1>1, PTL

-----------------------------------------------------------------------------
(* What a step does to the row, the chunks and the trail of one URL.       *)

SameRow(u) ==
  /\ documents'[u] = documents[u]
  /\ chunks'[u] = chunks[u]
  /\ fetchLog'[u] = fetchLog[u]

\* Handler w is done with the page of u it held.
Handled(w, u) ==
  /\ fetching[w] \in Opened
  /\ fetching[w].url = u
  /\ fetching'[w] = Idle

Evicts(w) == fetching[w].existing.hash # None /\ ~fetching[w].existing.unindexed

ContentSaved(w, u) ==
  LET job == fetching[w] IN
  /\ Handled(w, u)
  /\ job.result \in Contents
  /\ job.existing.hash = None \/ job.loaded.hash # None
  /\ documents'[u] = SavedRow(documents[u], job)
  /\ chunks'[u] = chunks[u]
  /\ fetchLog'[u] = Append(fetchLog[u],
       [kind |-> "content", hash |-> job.result,
        changed |-> ContentChanged(job.existing, job.result), at |-> job.at])

PageSkipped(w, u) ==
  /\ Handled(w, u)
  /\ documents'[u] = [documents[u] EXCEPT !.unindexed = Evicts(w) \/ @]
  /\ chunks'[u] = IF Evicts(w) THEN None ELSE chunks[u]
  /\ fetchLog'[u] = Append(fetchLog[u], [kind |-> Thin, hash |-> None,
                                         changed |-> FALSE, at |-> fetching[w].at])

FailureNoted(w, u) ==
  /\ Handled(w, u)
  /\ documents'[u] = documents[u]
  /\ chunks'[u] = chunks[u]
  /\ fetchLog'[u] = Append(fetchLog[u], [kind |-> Failed, hash |-> None,
                                         changed |-> FALSE, at |-> fetching[w].at])

RowEmbedded(r, u) ==
  /\ r.url = u
  /\ documents'[u] = [documents[u] EXCEPT !.embedded = TRUE]
  /\ chunks'[u] = IF r.hash \in HeadingsOnly THEN chunks[u] ELSE r.hash
  /\ fetchLog'[u] = fetchLog[u]

RowBackfilled(r, u) ==
  /\ attest.pc = "backfill"
  /\ r.url = u
  /\ documents'[u] = [documents[u] EXCEPT !.uid = <<Len(txs), u>>]
  /\ chunks'[u] = chunks[u]
  /\ fetchLog'[u] = fetchLog[u]

LEMMA CrawlRow ==
  ASSUME TypeInv, NEW w \in Crawlers, Crawl(w), NEW u \in Urls
  PROVE  \/ SameRow(u)
         \/ ContentSaved(w, u) \/ PageSkipped(w, u) \/ FailureNoted(w, u)
<1> DEFINE job == fetching[w]
<1>0. /\ documents \in [Urls -> Document] /\ chunks \in [Urls -> Contents \cup {None}]
      /\ fetchLog \in [Urls -> Seq(LogRow)]
      /\ fetching \in [Crawlers -> {Idle} \cup Fetched \cup Opened]
  BY DEF TypeInv, TypeOK
<1>1. CASE RecordContent(w)
  <2>1. job \in Opened
    BY <1>0, <1>1, JobStage DEF RecordContent
  <2>2. job.url \in Urls /\ fetching'[w] = Idle /\ chunks' = chunks
    BY <1>0, <1>1, <2>1 DEF RecordContent, Opened
  <2>3. CASE UNCHANGED <<documents, fetchLog, members>>
    BY <2>2, <2>3 DEF SameRow
  <2>4. CASE /\ documents' = [documents EXCEPT ![job.url] = SavedRow(@, job)]
             /\ Log(job.url, "content", job.result,
                    ContentChanged(job.existing, job.result), job.at)
    <3>1. CASE u = job.url
      BY <1>0, <1>1, <2>1, <2>2, <2>4, <3>1
         DEF ContentSaved, Handled, Log, RecordContent
    <3>2. CASE u # job.url
      BY <1>0, <2>2, <2>4, <3>2 DEF SameRow, Log
    <3>3. QED
      BY <3>1, <3>2
  <2>5. QED
    BY <1>1, <2>3, <2>4 DEF RecordContent
<1>2. CASE RecordSkip(w)
  <2>1. job \in Opened
    BY <1>0, <1>2, JobStage DEF RecordSkip
  <2>2. /\ job.url \in Urls /\ fetching'[w] = Idle
        /\ documents' = [documents EXCEPT ![job.url] =
             [documents[job.url] EXCEPT !.unindexed = Evicts(w) \/ @]]
        /\ chunks' = [chunks EXCEPT ![job.url] = IF Evicts(w) THEN None ELSE @]
        /\ Log(job.url, Thin, None, FALSE, job.at)
    BY <1>0, <1>2, <2>1 DEF RecordSkip, Opened, Evicts
  <2>3. CASE u = job.url
    BY <1>0, <2>1, <2>2, <2>3 DEF PageSkipped, Handled, Log
  <2>4. CASE u # job.url
    BY <1>0, <2>2, <2>4 DEF SameRow, Log
  <2>5. QED
    BY <2>3, <2>4
<1>3. CASE RecordFailure(w)
  <2>1. job \in Opened
    BY <1>0, <1>3, JobStage DEF RecordFailure
  <2>2. /\ job.url \in Urls /\ fetching'[w] = Idle
        /\ UNCHANGED <<documents, chunks>>
        /\ Log(job.url, Failed, None, FALSE, job.at)
    BY <1>0, <1>3, <2>1 DEF RecordFailure, Opened
  <2>3. CASE u = job.url
    BY <1>0, <2>1, <2>2, <2>3 DEF FailureNoted, Handled, Log
  <2>4. CASE u # job.url
    BY <1>0, <2>2, <2>4 DEF SameRow, Log
  <2>5. QED
    BY <2>3, <2>4
<1>4. CASE \/ LoseFetch(w) \/ OpenRecord(w) \/ LoadRow(w)
           \/ \E i \in Indexes, v \in Urls : Fetch(w, i, v)
  BY <1>4 DEF LoseFetch, OpenRecord, LoadRow, Fetch, SameRow
<1>5. QED
  BY <1>1, <1>2, <1>3, <1>4 DEF Crawl

LEMMA EmbedRow ==
  ASSUME TypeInv, NEW e \in Embedders, Embed(e), NEW u \in Urls
  PROVE  SameRow(u) \/ \E r \in embedding[e] : RowEmbedded(r, u)
<1>0. documents \in [Urls -> Document] /\ chunks \in [Urls -> Contents \cup {None}]
  BY DEF TypeInv, TypeOK
<1>1. ASSUME NEW r \in embedding[e], EmbedDocument(e, r)
      PROVE  SameRow(u) \/ RowEmbedded(r, u)
  <2>1. CASE r.url = u
    BY <1>0, <1>1, <2>1 DEF EmbedDocument, RowEmbedded
  <2>2. CASE r.url # u
    BY <1>0, <1>1, <2>2 DEF EmbedDocument, SameRow
  <2>3. QED
    BY <2>1, <2>2
<1>2. CASE LoseEmbed(e) \/ \E s \in Indexes \cup {WholeStore} : EmbedSelect(e, s)
  BY <1>2 DEF LoseEmbed, EmbedSelect, SameRow
<1>3. QED
  BY <1>1, <1>2 DEF Embed

LEMMA AttestRow ==
  ASSUME TypeInv, Attest, NEW u \in Urls
  PROVE  SameRow(u) \/ \E r \in attest.batch : RowBackfilled(r, u)
<1>0. documents \in [Urls -> Document]
  BY DEF TypeInv, TypeOK
<1>1. ASSUME NEW r \in attest.batch, Backfill(r)
      PROVE  SameRow(u) \/ RowBackfilled(r, u)
  <2>1. CASE r.url = u
    BY <1>0, <1>1, <2>1 DEF Backfill, RowBackfilled
  <2>2. CASE r.url # u
    BY <1>0, <1>1, <2>2 DEF Backfill, SameRow
  <2>3. QED
    BY <2>1, <2>2
<1>2. CASE UNCHANGED <<documents, chunks, fetchLog>>
  BY <1>2 DEF SameRow
<1>3. QED
  BY <1>1, <1>2 DEF Attest, AttestSelect, Submit, Refuse, Timeout, Settle, CrashAttester

LEMMA RowStep ==
  ASSUME TypeInv, [Next]_vars, NEW u \in Urls
  PROVE  \/ SameRow(u)
         \/ \E w \in Crawlers : ContentSaved(w, u) \/ PageSkipped(w, u) \/ FailureNoted(w, u)
         \/ \E e \in Embedders : \E r \in embedding[e] : RowEmbedded(r, u)
         \/ \E r \in attest.batch : RowBackfilled(r, u)
<1>1. CASE UNCHANGED <<documents, chunks, fetchLog>>
  BY <1>1 DEF SameRow
<1>2. QED
  BY <1>1, CrawlRow, EmbedRow, AttestRow DEF Next, vars, Land

-----------------------------------------------------------------------------
(* One handler: what it read is what the row still says when it commits.   *)

ExistingCurrent ==
  \A w \in Crawlers : fetching[w].stage = "opened" =>
    LET job == fetching[w] IN
    /\ job.existing.hash = documents[job.url].hash
    /\ job.existing.unindexed = documents[job.url].unindexed
    /\ job.loaded.hash # None =>
         /\ job.loaded.hash = documents[job.url].hash
         /\ job.loaded.unindexed = documents[job.url].unindexed

\* How a handler comes to hold an open record.
LEMMA OpenStep ==
  ASSUME TypeInv, [Next]_vars, NEW w \in Crawlers, fetching'[w].stage = "opened"
  PROVE  fetching'[w] = fetching[w] \/ OpenRecord(w) \/ LoadRow(w)
<1>1. Idle.stage # "opened"
  BY DEF Idle
<1>2. ASSUME NEW v \in Crawlers, Crawl(v)
      PROVE  fetching'[w] = fetching[w] \/ OpenRecord(w) \/ LoadRow(w)
  <2>1. CASE v # w
    BY <1>2, <2>1 DEF Crawl, Fetch, OpenRecord, LoadRow, RecordContent, RecordSkip, RecordFailure,
                      LoseFetch, TypeInv, TypeOK
  <2>2. ASSUME v = w, NEW i \in Indexes, NEW u \in Urls, Fetch(w, i, u) PROVE FALSE
    <3>1. fetching'[w].stage = "fetched"
      BY <2>2 DEF Fetch, TypeInv, TypeOK
    <3>2. QED
      BY <3>1
  <2>3. CASE v = w
    BY <1>1, <1>2, <2>2, <2>3 DEF Crawl, RecordContent, RecordSkip, RecordFailure,
                                  LoseFetch, TypeInv, TypeOK
  <2>4. QED
    BY <2>1, <2>3
<1>3. CASE UNCHANGED fetching
  BY <1>3
<1>4. QED
  BY <1>2, <1>3 DEF Next, vars, Embed, EmbedSelect, EmbedDocument, LoseEmbed, Attest,
     AttestSelect, Submit, Refuse, Timeout, Settle, Backfill, CrashAttester, Land

\* What OpenRecord and LoadRow leave of the record.
LEMMA ReadStep ==
  ASSUME TypeInv, NEW w \in Crawlers
  PROVE  /\ OpenRecord(w) =>
              /\ documents' = documents /\ chunks' = chunks /\ fetchLog' = fetchLog
              /\ fetching'[w].url = fetching[w].url
              /\ fetching'[w].existing = documents[fetching[w].url]
              /\ fetching'[w].loaded.hash = None
         /\ LoadRow(w) =>
              /\ documents' = documents /\ chunks' = chunks /\ fetchLog' = fetchLog
              /\ fetching[w] \in Opened
              /\ fetching'[w].url = fetching[w].url
              /\ fetching'[w].existing = fetching[w].existing
              /\ fetching'[w].loaded = documents[fetching[w].url]
<1>1. fetching \in [Crawlers -> {Idle} \cup Fetched \cup Opened]
  BY DEF TypeInv, TypeOK
<1>2. ASSUME OpenRecord(w)
      PROVE  /\ fetching'[w].url = fetching[w].url
             /\ fetching'[w].existing = documents[fetching[w].url]
             /\ fetching'[w].loaded.hash = None
  BY <1>1, <1>2 DEF OpenRecord, NoDocument
<1>3. ASSUME LoadRow(w)
      PROVE  /\ fetching[w] \in Opened
             /\ fetching'[w].url = fetching[w].url
             /\ fetching'[w].existing = fetching[w].existing
             /\ fetching'[w].loaded = documents[fetching[w].url]
  <2>1. fetching[w] \in Opened
    BY <1>1, <1>3, JobStage DEF LoadRow
  <2>2. fetching'[w] = [fetching[w] EXCEPT !.loaded = documents[fetching[w].url]]
    BY <1>1, <1>3 DEF LoadRow
  <2>3. QED
    BY <2>1, <2>2 DEF Opened
<1>4. QED
  BY <1>2, <1>3 DEF OpenRecord, LoadRow

LEMMA ExistingStep ==
  ASSUME Exclusive, TypeInv, ExistingCurrent, [Next]_vars
  PROVE  ExistingCurrent'
<1> DEFINE Reads(read, row) == read.hash = row.hash /\ read.unindexed = row.unindexed
<1> SUFFICES ASSUME NEW w \in Crawlers, fetching'[w].stage = "opened"
             PROVE  /\ Reads(fetching'[w].existing, documents'[fetching'[w].url])
                    /\ fetching'[w].loaded.hash # None =>
                         Reads(fetching'[w].loaded, documents'[fetching'[w].url])
  BY DEF ExistingCurrent
<1> DEFINE job == fetching[w]
<1>1. CASE OpenRecord(w)
  BY <1>1, ReadStep
<1>2. CASE LoadRow(w)
  <2>1. job.stage = "opened"
    BY <1>2 DEF LoadRow
  <2>2. QED
    BY <1>2, <2>1, ReadStep DEF ExistingCurrent
<1>3. CASE fetching'[w] = fetching[w]
  <2>1. job \in Opened
    BY <1>3, JobStage DEF TypeInv, TypeOK
  <2>2. job.url \in Urls /\ documents[job.url] \in Document
    BY <2>1 DEF Opened, TypeInv, TypeOK
  <2>3. Idle.stage # "opened"
    BY DEF Idle
  <2>4. \A v \in Crawlers : ~Handled(v, job.url)
    BY <1>3, <2>1, <2>3 DEF Exclusive, Handled, Opened
  <2>5. /\ documents'[job.url].hash = documents[job.url].hash
        /\ documents'[job.url].unindexed = documents[job.url].unindexed
    <3>1. \A r : RowEmbedded(r, job.url) \/ RowBackfilled(r, job.url) =>
            /\ documents'[job.url].hash = documents[job.url].hash
            /\ documents'[job.url].unindexed = documents[job.url].unindexed
      BY <2>2 DEF RowEmbedded, RowBackfilled, Document
    <3>2. QED
      BY <2>2, <2>4, <3>1, RowStep DEF SameRow, ContentSaved, PageSkipped, FailureNoted
  <2>6. QED
    BY <1>3, <2>5 DEF ExistingCurrent
<1>4. QED
  BY <1>1, <1>2, <1>3, OpenStep

\* What the handler that commits has read of the row.
LEMMA HandledCurrent ==
  ASSUME TypeInv, ExistingCurrent, NEW w \in Crawlers, NEW u \in Urls, Handled(w, u)
  PROVE  /\ fetching[w] \in Opened
         /\ fetching[w].existing \in Document /\ fetching[w].loaded \in Document
         /\ documents[u] \in Document
         /\ fetching[w].existing.hash = documents[u].hash
         /\ fetching[w].existing.unindexed = documents[u].unindexed
         /\ fetching[w].loaded.hash # None =>
              /\ fetching[w].loaded.hash = documents[u].hash
              /\ fetching[w].loaded.unindexed = documents[u].unindexed
         /\ fetching[w].at \in Time
<1>1. fetching[w].stage = "opened"
  BY DEF Handled, Opened
<1>2. QED
  BY <1>1 DEF Handled, ExistingCurrent, Opened, TypeInv, TypeOK

\* What is left of a row that is saved.
Unchanged(existing, hash) ==
  existing.hash # None /\ existing.hash = hash /\ ~existing.unindexed

LEMMA SavedStamps ==
  ASSUME NEW row \in Document, NEW job \in Opened
  PROVE  LET saved == SavedRow(row, job) IN
         /\ saved.fetchedAt = job.at
         /\ \/ saved.hash = job.result
            \/ job.loaded.hash = job.result /\ saved.hash = row.hash
         /\ saved.embedded =>
              /\ row.embedded
              /\ job.existing.hash # None
              /\ Unchanged(job.existing, job.result) \/ ~job.loaded.embedded
         /\ saved.uid # None =>
              /\ saved.uid = row.uid
              /\ job.existing.hash # None
              /\ Unchanged(job.existing, job.result) \/ job.loaded.uid = None
<1> DEFINE saved == SavedRow(row, job)
           changed == ContentChanged(job.existing, job.result)
<1>0. /\ row.embedded \in BOOLEAN /\ job.loaded.embedded \in BOOLEAN
      /\ job.existing.hash # None => (~changed <=> Unchanged(job.existing, job.result))
  BY DEF Document, Opened, ContentChanged, Unchanged
<1>1. CASE job.existing.hash = None
  <2>1. /\ saved.fetchedAt = job.at /\ saved.hash = job.result
        /\ saved.embedded = FALSE /\ saved.uid = None
    BY <1>1 DEF SavedRow, InsertedRow
  <2>2. QED
    BY <2>1
<1>2. CASE job.existing.hash # None
  <2> HIDE DEF changed
  <2>1. /\ saved.fetchedAt = job.at
        /\ saved.hash = Written(row.hash, job.loaded.hash, job.result)
        /\ saved.embedded = IF changed THEN Written(row.embedded, job.loaded.embedded, FALSE)
                            ELSE row.embedded
        /\ saved.uid = IF changed THEN Written(row.uid, job.loaded.uid, None) ELSE row.uid
    BY <1>2 DEF SavedRow, UpdatedRow, changed
  <2>2. saved.hash = job.result \/ (job.loaded.hash = job.result /\ saved.hash = row.hash)
    BY <2>1 DEF Written
  <2>3. saved.uid # None =>
          saved.uid = row.uid /\ (~changed \/ job.loaded.uid = None)
    BY <2>1 DEF Written
  <2>4. saved.embedded => row.embedded /\ (~changed \/ ~job.loaded.embedded)
    <3>1. CASE ~changed
      BY <2>1, <3>1, Zenon
    <3>2. CASE changed /\ job.loaded.embedded
      <4>1. saved.embedded = FALSE
        BY <2>1, <3>2 DEF Written
      <4>2. QED
        BY <4>1
    <3>3. CASE changed /\ ~job.loaded.embedded
      <4>1. job.loaded.embedded = FALSE
        BY <1>0, <3>3
      <4>2. saved.embedded = row.embedded
        BY <2>1, <3>3, <4>1 DEF Written
      <4>3. QED
        BY <3>3, <4>2
    <3>4. QED
      BY <3>1, <3>2, <3>3
  <2>5. QED
    BY <1>0, <1>2, <2>1, <2>2, <2>3, <2>4
<1>3. QED
  BY <1>1, <1>2

\* While the two readings of the row are what it says, so is the row that is saved.
LEMMA SavedFields ==
  ASSUME TypeInv, ExistingCurrent, NEW w \in Crawlers, NEW u \in Urls, ContentSaved(w, u)
  PROVE  /\ documents'[u].hash = fetching[w].result
         /\ documents'[u].fetchedAt = fetching[w].at
         /\ ~documents'[u].unindexed
<1> DEFINE job == fetching[w]
<1>1. /\ Handled(w, u) /\ documents'[u] = SavedRow(documents[u], job)
      /\ job.existing.hash = None \/ job.loaded.hash # None
  BY DEF ContentSaved
<1>2. /\ job \in Opened /\ documents[u] \in Document
      /\ job.loaded.hash # None =>
           /\ job.loaded.hash = documents[u].hash
           /\ job.loaded.unindexed = documents[u].unindexed
  BY <1>1, HandledCurrent
<1>3. documents'[u].fetchedAt = job.at /\ documents'[u].hash = job.result
  <2>1. CASE job.existing.hash = None
    BY <1>1, <2>1 DEF SavedRow, InsertedRow
  <2>2. CASE job.existing.hash # None
    BY <1>1, <1>2, <2>2, SavedStamps
  <2>3. QED
    BY <2>1, <2>2
<1>4. ~documents'[u].unindexed
  <2>1. CASE job.existing.hash = None
    BY <1>1, <2>1 DEF SavedRow, InsertedRow
  <2>2. CASE job.existing.hash # None
    <3>1. documents'[u].unindexed = Written(documents[u].unindexed, job.loaded.unindexed, FALSE)
      BY <1>1, <2>2 DEF SavedRow, UpdatedRow
    <3>2. job.loaded.unindexed = documents[u].unindexed
      BY <1>1, <1>2, <2>2
    <3>3. documents'[u].unindexed = FALSE
      BY <3>1, <3>2 DEF Written
    <3>4. QED
      BY <3>3
  <2>3. QED
    BY <2>1, <2>2
<1>5. QED
  BY <1>3, <1>4

HandlerInv == TrailInv /\ ExistingCurrent

LEMMA HandlerInvariant == Spec /\ []Exclusive => []HandlerInv
<1>1. Init => ExistingCurrent
  BY DEF Init, ExistingCurrent, Idle
<1>2. Exclusive /\ TypeInv /\ ExistingCurrent /\ [Next]_vars => ExistingCurrent'
  BY ExistingStep
<1>3. TrailInv => TypeInv
  BY DEF TrailInv
<1>4. HandlerInv <=> TrailInv /\ ExistingCurrent
  BY DEF HandlerInv
<1>5. QED
  BY <1>1, <1>2, <1>3, <1>4, TrailInvariant, PTL DEF Spec

-----------------------------------------------------------------------------
(* Search.                                                                 *)

\* A pass that embedded the row between the two readings of it left chunks.
LoadedFound ==
  \A w \in Crawlers : fetching[w].stage = "opened" =>
    LET job == fetching[w] IN
    (/\ job.loaded.hash # None
     /\ ~job.loaded.embedded
     /\ documents[job.url].embedded
     /\ ~HadHeadingsOnly(job.url)) => chunks[job.url] # None

\* What a pass that embeds a row leaves of its chunks.
LEMMA EmbeddedFound ==
  ASSUME TrailInv, NEW e \in Embedders, NEW r \in embedding[e], NEW u \in Urls,
         RowEmbedded(r, u), ~HadHeadingsOnly(u)
  PROVE  chunks'[u] # None
<1>1. r.hash \in Contents /\ SeenContent(u, r.hash)
  BY DEF TrailInv, TypeInv, TypeOK, Reading, Explained, ReadingsLogged, RowEmbedded
<1>2. r.hash \notin HeadingsOnly
  BY <1>1 DEF SeenContent, Logged, HadHeadingsOnly
<1>3. QED
  BY <1>1, <1>2, ConstantsAssumption DEF RowEmbedded

LEMMA LoadedFoundStep ==
  ASSUME Exclusive, TrailInv, LoadedFound, [Next]_vars
  PROVE  LoadedFound'
<1> SUFFICES ASSUME NEW w \in Crawlers, fetching'[w].stage = "opened",
                    fetching'[w].loaded.hash # None,
                    ~fetching'[w].loaded.embedded,
                    documents'[fetching'[w].url].embedded,
                    \A k \in DOMAIN fetchLog'[fetching'[w].url] :
                      fetchLog'[fetching'[w].url][k].hash \notin HeadingsOnly
             PROVE  chunks'[fetching'[w].url] # None
  BY DEF LoadedFound, HadHeadingsOnly
<1> DEFINE job == fetching[w]
<1>0. TypeInv
  BY DEF TrailInv
<1>1. CASE OpenRecord(w) \/ LoadRow(w)
  BY <1>0, <1>1, ReadStep
<1>2. CASE fetching'[w] = fetching[w]
  <2>1. job \in Opened
    BY <1>0, <1>2, JobStage DEF TypeInv, TypeOK
  <2>2. job.url \in Urls /\ documents[job.url] \in Document
    BY <1>0, <2>1 DEF Opened, TypeInv, TypeOK
  <2>3. Idle.stage # "opened"
    BY DEF Idle
  <2>4. \A v \in Crawlers : ~Handled(v, job.url)
    BY <1>2, <2>1, <2>3 DEF Exclusive, Handled, Opened
  <2>5. documents[job.url].embedded /\ ~HadHeadingsOnly(job.url) => chunks[job.url] # None
    BY <1>2 DEF LoadedFound
  <2>6. CASE SameRow(job.url)
    BY <1>2, <2>5, <2>6 DEF SameRow, HadHeadingsOnly
  <2>7. ASSUME NEW e \in Embedders, NEW r \in embedding[e], RowEmbedded(r, job.url)
        PROVE  chunks'[job.url] # None
    <3>1. ~HadHeadingsOnly(job.url)
      BY <1>2, <2>7 DEF RowEmbedded, HadHeadingsOnly
    <3>2. QED
      BY <2>2, <2>7, <3>1, EmbeddedFound
  <2>8. ASSUME NEW r \in attest.batch, RowBackfilled(r, job.url) PROVE chunks'[job.url] # None
    <3>1. documents[job.url].embedded /\ ~HadHeadingsOnly(job.url)
      BY <1>2, <2>2, <2>8 DEF RowBackfilled, HadHeadingsOnly, Document
    <3>2. QED
      BY <2>5, <2>8, <3>1 DEF RowBackfilled
  <2>9. QED
    BY <1>0, <1>2, <2>2, <2>4, <2>6, <2>7, <2>8, RowStep
       DEF ContentSaved, PageSkipped, FailureNoted
<1>3. QED
  BY <1>0, <1>1, <1>2, OpenStep

\* The trail keeps its rows: a URL that had no content without a passage had none.
LEMMA HeadingsKept ==
  ASSUME TypeInv, [Next]_vars, NEW u \in Urls, HadHeadingsOnly(u)
  PROVE  HadHeadingsOnly(u)'
<1>1. PICK k \in DOMAIN fetchLog[u] : fetchLog[u][k].hash \in HeadingsOnly
  BY DEF HadHeadingsOnly
<1> DEFINE h == fetchLog[u][k].hash
           t == fetchLog[u][k].at
<1>2. Logged(u, h, t)
  BY <1>1 DEF Logged
<1>3. \E j \in DOMAIN fetchLog'[u] : fetchLog'[u][j].hash = h /\ fetchLog'[u][j].at = t
  BY <1>2, LogGrows DEF Logged
<1>4. QED
  BY <1>1, <1>3 DEF HadHeadingsOnly

LEMMA SearchableStep ==
  ASSUME HandlerInv, LoadedFound, Searchable, [Next]_vars
  PROVE  Searchable'
<1> SUFFICES ASSUME NEW u \in Urls, documents'[u].embedded, ~documents'[u].unindexed,
                    ~HadHeadingsOnly(u)'
             PROVE  chunks'[u] # None
  BY DEF Searchable, InSearch, HadHeadingsOnly
<1>0. TrailInv /\ TypeInv /\ ExistingCurrent /\ documents[u] \in Document
  BY DEF HandlerInv, TrailInv, TypeInv, TypeOK
<1>1. /\ ~HadHeadingsOnly(u)
      /\ documents[u].embedded /\ ~documents[u].unindexed => chunks[u] # None
  BY <1>0, HeadingsKept DEF Searchable, InSearch
<1>2. CASE SameRow(u)
  BY <1>1, <1>2 DEF SameRow
<1>3. ASSUME NEW w \in Crawlers, ContentSaved(w, u) PROVE chunks'[u] # None
  <2> DEFINE job == fetching[w]
  <2>1. /\ job \in Opened /\ job.stage = "opened" /\ job.url = u
        /\ documents'[u] = SavedRow(documents[u], job)
        /\ job.existing.hash = None \/ job.loaded.hash # None
        /\ chunks'[u] = chunks[u]
    BY <1>3 DEF ContentSaved, Handled, Opened
  <2>2. /\ documents[u].embedded /\ job.existing.hash # None
        /\ Unchanged(job.existing, job.result) \/ ~job.loaded.embedded
    BY <1>0, <2>1, SavedStamps
  <2>3. CASE Unchanged(job.existing, job.result)
    <3>1. ~documents[u].unindexed
      BY <1>0, <1>3, <2>3, HandledCurrent DEF ContentSaved, Unchanged
    <3>2. QED
      BY <1>1, <2>1, <2>2, <3>1
  <2>4. CASE ~job.loaded.embedded
    BY <1>1, <2>1, <2>2, <2>4 DEF LoadedFound
  <2>5. QED
    BY <2>2, <2>3, <2>4
<1>4. ASSUME NEW w \in Crawlers, PageSkipped(w, u) PROVE chunks'[u] # None
  BY <1>0, <1>1, <1>4 DEF PageSkipped, Document
<1>5. ASSUME NEW w \in Crawlers, FailureNoted(w, u) PROVE chunks'[u] # None
  BY <1>1, <1>5 DEF FailureNoted
<1>6. ASSUME NEW e \in Embedders, NEW r \in embedding[e], RowEmbedded(r, u)
      PROVE  chunks'[u] # None
  BY <1>0, <1>1, <1>6, EmbeddedFound
<1>7. ASSUME NEW r \in attest.batch, RowBackfilled(r, u) PROVE chunks'[u] # None
  BY <1>0, <1>1, <1>7 DEF RowBackfilled, Document
<1>8. QED
  BY <1>0, <1>2, <1>3, <1>4, <1>5, <1>6, <1>7, RowStep

\* While no two transactions record one URL, a document marked as embedded that is not
\* out of search has chunks, whatever passes commit between the two readings of its row
\* and in whatever order it is evicted and comes back, unless the URL once had a content
\* without a passage: only the early continue of such a content (embed.ts) can mark a
\* page whose chunks are not there.
THEOREM EmbeddedIsFound == Spec /\ []Exclusive => []Searchable
<1>1. Init => LoadedFound /\ Searchable
  BY DEF Init, LoadedFound, Idle, Searchable, InSearch, NoDocument
<1>2. Exclusive /\ TrailInv /\ LoadedFound /\ [Next]_vars => LoadedFound'
  BY LoadedFoundStep
<1>3. HandlerInv /\ LoadedFound /\ Searchable /\ [Next]_vars => Searchable'
  BY SearchableStep
<1>4. HandlerInv => TrailInv
  BY DEF HandlerInv
<1>5. QED
  BY <1>1, <1>2, <1>3, <1>4, HandlerInvariant, PTL DEF Spec

-----------------------------------------------------------------------------
(* The trail.  fetch_log is replayed one row at a time.                    *)

NoContent(log) == \A k \in DOMAIN log : ~IndexedRow(log[k])

\* Row k is the last one with content.
LastContent(log, k) ==
  /\ k \in DOMAIN log
  /\ IndexedRow(log[k])
  /\ \A j \in DOMAIN log : IndexedRow(log[j]) => j <= k

SkippedAfter(log, k) == \E j \in DOMAIN log : j > k /\ SkippedRow(log[j])

\* The row u has is what its trail, replayed, leaves.
Replayed(u) ==
  LET log == fetchLog[u] IN
  IF NoContent(log)
  THEN documents[u] = NoDocument
  ELSE \E k \in DOMAIN log :
         /\ LastContent(log, k)
         /\ documents[u].hash = log[k].hash
         /\ documents[u].fetchedAt = log[k].at
         /\ documents[u].unindexed <=> SkippedAfter(log, k)

LEMMA ReplayedIs == DocumentIsReplay <=> \A u \in Urls : Replayed(u)
BY DEF DocumentIsReplay, Replayed, NoContent, LastContent, SkippedAfter

\* A row of the trail has a content hash if it is of a page with content.
HashesLogged ==
  \A u \in Urls : \A k \in DOMAIN fetchLog[u] :
    IndexedRow(fetchLog[u][k]) <=> fetchLog[u][k].hash \in Contents

LEMMA AppendedLog ==
  ASSUME NEW log \in Seq(LogRow), NEW row \in LogRow
  PROVE  /\ Len(log) \in Nat
         /\ DOMAIN log = 1..Len(log)
         /\ DOMAIN Append(log, row) = 1..(Len(log) + 1)
         /\ \A k \in 1..Len(log) : Append(log, row)[k] = log[k]
         /\ Append(log, row)[Len(log) + 1] = row
OBVIOUS

\* What a handler appends.
LEMMA HandledRow ==
  ASSUME TypeInv, NEW w \in Crawlers, NEW u \in Urls,
         ContentSaved(w, u) \/ PageSkipped(w, u) \/ FailureNoted(w, u)
  PROVE  \E row \in LogRow :
           /\ fetchLog'[u] = Append(fetchLog[u], row)
           /\ IndexedRow(row) <=> row.hash \in Contents
           /\ IndexedRow(row) <=> ContentSaved(w, u)
           /\ row.at = fetching[w].at
           /\ ContentSaved(w, u) =>
                /\ row.hash = fetching[w].result
                /\ row.changed =
                     ContentChanged(fetching[w].existing, fetching[w].result)
           /\ SkippedRow(row) <=> PageSkipped(w, u)
<1> DEFINE job == fetching[w]
<1>1. job.at \in Time /\ job.existing \in Document
  BY DEF ContentSaved, PageSkipped, FailureNoted, Handled, Opened
<1>2. \A hash : ContentChanged(job.existing, hash) \in BOOLEAN
  BY <1>1 DEF ContentChanged, Document
<1>3. fetchLog[u] \in Seq(LogRow)
  BY DEF TypeInv, TypeOK
<1>4. Failed # Thin /\ Failed # "content" /\ Thin # "content"
  BY DEF Failed, Thin
<1> DEFINE Row(kind, hash, changed) ==
             [kind |-> kind, hash |-> hash, changed |-> changed, at |-> job.at]
<1>5. /\ \A r, s \in LogRow : Append(fetchLog[u], r) = Append(fetchLog[u], s) => r = s
  BY <1>3
<1>6. CASE ContentSaved(w, u)
  <2> DEFINE row == Row("content", job.result, ContentChanged(job.existing, job.result))
  <2>1. row \in LogRow /\ fetchLog'[u] = Append(fetchLog[u], row) /\ job.result \in Contents
    BY <1>1, <1>2, <1>6 DEF ContentSaved, LogRow
  <2>2. ~PageSkipped(w, u)
    <3>1. SUFFICES ASSUME PageSkipped(w, u) PROVE FALSE
      OBVIOUS
    <3>2. Row(Thin, None, FALSE) \in LogRow
          /\ fetchLog'[u] = Append(fetchLog[u], Row(Thin, None, FALSE))
      BY <1>1, <3>1 DEF PageSkipped, LogRow
    <3>3. row = Row(Thin, None, FALSE)
      BY <1>5, <2>1, <3>2
    <3>4. QED
      BY <1>4, <3>3
  <2>3. /\ row.kind = "content" /\ row.hash = job.result /\ row.at = job.at
        /\ row.changed = ContentChanged(job.existing, job.result)
    OBVIOUS
  <2> HIDE DEF row
  <2>4. QED
    BY <1>4, <1>6, <2>1, <2>2, <2>3 DEF IndexedRow, SkippedRow
<1>7. ASSUME NEW kind \in {Thin, Failed}, ~ContentSaved(w, u),
             fetchLog'[u] = Append(fetchLog[u], Row(kind, None, FALSE)),
             kind = Thin <=> PageSkipped(w, u)
      PROVE  \E row \in LogRow :
               /\ fetchLog'[u] = Append(fetchLog[u], row)
               /\ IndexedRow(row) <=> row.hash \in Contents
               /\ ~IndexedRow(row)
               /\ row.at = job.at
               /\ SkippedRow(row) <=> PageSkipped(w, u)
  <2> DEFINE row == Row(kind, None, FALSE)
  <2>1. row \in LogRow /\ row.kind = kind /\ row.hash = None /\ row.at = job.at
    BY <1>1 DEF LogRow
  <2> HIDE DEF row
  <2>2. fetchLog'[u] = Append(fetchLog[u], row)
    BY <1>7 DEF row
  <2>3. QED
    BY <1>4, <1>7, <2>1, <2>2, ConstantsAssumption DEF IndexedRow, SkippedRow
<1>8. CASE PageSkipped(w, u) /\ ~ContentSaved(w, u)
  <2>1. fetchLog'[u] = Append(fetchLog[u], Row(Thin, None, FALSE))
    BY <1>8 DEF PageSkipped
  <2>2. QED
    BY <1>7, <1>8, <2>1
<1>9. CASE FailureNoted(w, u) /\ ~ContentSaved(w, u) /\ ~PageSkipped(w, u)
  <2>1. fetchLog'[u] = Append(fetchLog[u], Row(Failed, None, FALSE))
    BY <1>9 DEF FailureNoted
  <2>2. QED
    BY <1>4, <1>7, <1>9, <2>1
<1>10. QED
  BY <1>6, <1>8, <1>9

LEMMA HashesStep ==
  ASSUME TypeInv, HashesLogged, [Next]_vars
  PROVE  HashesLogged'
<1> SUFFICES ASSUME NEW u \in Urls, NEW k \in DOMAIN fetchLog'[u]
             PROVE  IndexedRow(fetchLog'[u][k]) <=> fetchLog'[u][k].hash \in Contents
  BY DEF HashesLogged, IndexedRow
<1>1. CASE fetchLog'[u] = fetchLog[u]
  BY <1>1 DEF HashesLogged
<1>2. ASSUME NEW row \in LogRow, fetchLog'[u] = Append(fetchLog[u], row),
             IndexedRow(row) <=> row.hash \in Contents
      PROVE  IndexedRow(fetchLog'[u][k]) <=> fetchLog'[u][k].hash \in Contents
  <2>1. fetchLog[u] \in Seq(LogRow)
    BY DEF TypeInv, TypeOK
  <2>2. \/ k \in DOMAIN fetchLog[u] /\ fetchLog'[u][k] = fetchLog[u][k]
        \/ fetchLog'[u][k] = row
    BY <1>2, <2>1, AppendedLog
  <2>3. QED
    BY <1>2, <2>2 DEF HashesLogged
<1>3. QED
  BY <1>1, <1>2, RowStep, HandledRow DEF SameRow, RowEmbedded, RowBackfilled

\* Replaying a row without content.
LEMMA OtherAppended ==
  ASSUME NEW log \in Seq(LogRow), NEW row \in LogRow, ~IndexedRow(row)
  PROVE  LET grown == Append(log, row) IN
         /\ NoContent(grown) <=> NoContent(log)
         /\ \A k \in DOMAIN log :
              /\ k \in DOMAIN grown /\ grown[k] = log[k]
              /\ LastContent(log, k) => LastContent(grown, k)
              /\ SkippedAfter(grown, k) <=> SkippedAfter(log, k) \/ SkippedRow(row)
<1> DEFINE grown == Append(log, row)
<1>1. /\ Len(log) \in Nat /\ DOMAIN log = 1..Len(log) /\ DOMAIN grown = 1..(Len(log) + 1)
      /\ \A k \in 1..Len(log) : grown[k] = log[k]
      /\ grown[Len(log) + 1] = row
  BY AppendedLog
<1> HIDE DEF grown
<1>2. NoContent(grown) <=> NoContent(log)
  BY <1>1 DEF NoContent
<1>3. ASSUME NEW k \in DOMAIN log, LastContent(log, k) PROVE LastContent(grown, k)
  <2>1. k \in DOMAIN grown /\ IndexedRow(grown[k])
    BY <1>1, <1>3 DEF LastContent
  <2>2. ASSUME NEW j \in DOMAIN grown, IndexedRow(grown[j]) PROVE j <= k
    <3>1. j \in DOMAIN log /\ grown[j] = log[j]
      BY <1>1, <2>2
    <3>2. QED
      BY <1>3, <2>2, <3>1 DEF LastContent
  <2>3. QED
    BY <2>1, <2>2 DEF LastContent
<1>4. ASSUME NEW k \in DOMAIN log
      PROVE  SkippedAfter(grown, k) <=> SkippedAfter(log, k) \/ SkippedRow(row)
  BY <1>1 DEF SkippedAfter
<1>5. QED
  BY <1>1, <1>2, <1>3, <1>4 DEF grown

\* A page whose trail has a content has a row.
LEMMA RowThere ==
  ASSUME TypeInv, HashesLogged, NEW u \in Urls, Replayed(u),
         NEW hash \in Contents, NEW at, Logged(u, hash, at)
  PROVE  ~NoContent(fetchLog[u])
BY DEF HashesLogged, Logged, NoContent

\* A write that leaves what was fetched, of a row that is there.
LEMMA SameReplay ==
  ASSUME NEW u \in Urls, Replayed(u), ~NoContent(fetchLog[u]),
         fetchLog'[u] = fetchLog[u],
         documents'[u].hash = documents[u].hash,
         documents'[u].fetchedAt = documents[u].fetchedAt,
         documents'[u].unindexed = documents[u].unindexed
  PROVE  Replayed(u)'
<1>1. PICK k \in DOMAIN fetchLog[u] :
        /\ LastContent(fetchLog[u], k)
        /\ documents[u].hash = fetchLog[u][k].hash
        /\ documents[u].fetchedAt = fetchLog[u][k].at
        /\ documents[u].unindexed <=> SkippedAfter(fetchLog[u], k)
  BY DEF Replayed
<1>2. /\ NoContent(fetchLog'[u]) <=> NoContent(fetchLog[u])
      /\ LastContent(fetchLog'[u], k)
      /\ SkippedAfter(fetchLog'[u], k) <=> SkippedAfter(fetchLog[u], k)
  BY <1>1
<1>3. QED
  BY <1>1, <1>2 DEF Replayed

LEMMA ContentReplay ==
  ASSUME TypeInv, ExistingCurrent, NEW u \in Urls, NEW w \in Crawlers, ContentSaved(w, u)
  PROVE  Replayed(u)'
<1> DEFINE log == fetchLog[u]
           n == Len(log) + 1
<1>1. PICK row \in LogRow :
        /\ fetchLog'[u] = Append(log, row) /\ IndexedRow(row)
        /\ row.hash = fetching[w].result /\ row.at = fetching[w].at
  BY HandledRow
<1>2. log \in Seq(LogRow)
  BY DEF TypeInv, TypeOK
<1>3. /\ Len(log) \in Nat /\ DOMAIN fetchLog'[u] = 1..n /\ fetchLog'[u][n] = row
  BY <1>1, <1>2, AppendedLog
<1>4. LastContent(fetchLog'[u], n) /\ ~SkippedAfter(fetchLog'[u], n)
  BY <1>1, <1>3 DEF LastContent, SkippedAfter
<1>5. ~NoContent(fetchLog'[u])
  BY <1>4 DEF LastContent, NoContent
<1>6. /\ documents'[u].hash = row.hash /\ documents'[u].fetchedAt = row.at
      /\ ~documents'[u].unindexed
  BY <1>1, SavedFields
<1>7. n \in DOMAIN fetchLog'[u]
  BY <1>3
<1> HIDE DEF n
<1>8. QED
  BY <1>3, <1>4, <1>5, <1>6, <1>7 DEF Replayed

LEMMA OtherReplay ==
  ASSUME TypeInv, ExistingCurrent, HashesLogged, NEW u \in Urls, Replayed(u),
         NEW w \in Crawlers, ~ContentSaved(w, u), PageSkipped(w, u) \/ FailureNoted(w, u)
  PROVE  Replayed(u)'
<1> DEFINE log == fetchLog[u]
<1>1. PICK row \in LogRow :
        /\ fetchLog'[u] = Append(log, row) /\ ~IndexedRow(row)
        /\ SkippedRow(row) <=> PageSkipped(w, u)
  BY HandledRow
<1>2. log \in Seq(LogRow)
  BY DEF TypeInv, TypeOK
<1>3. /\ documents[u] \in Document
      /\ fetching[w].existing.hash = documents[u].hash
      /\ fetching[w].existing.unindexed = documents[u].unindexed
  BY HandledCurrent DEF PageSkipped, FailureNoted
<1>4. CASE NoContent(log)
  <2>1. documents[u] = NoDocument
    BY <1>4 DEF Replayed
  <2>2. documents'[u] = NoDocument
    <3>1. fetching[w].existing.hash = None /\ documents[u].unindexed = FALSE
      BY <1>3, <2>1 DEF NoDocument
    <3>2. ~Evicts(w)
      BY <3>1 DEF Evicts
    <3>3. (Evicts(w) \/ documents[u].unindexed) = FALSE
      BY <3>1, <3>2
    <3>4. [documents[u] EXCEPT !.unindexed = FALSE] = documents[u]
      BY <1>3, <3>1 DEF Document
    <3>5. PageSkipped(w, u) =>
            documents'[u] = [documents[u] EXCEPT !.unindexed = FALSE]
      BY <3>3 DEF PageSkipped
    <3>6. QED
      BY <2>1, <3>4, <3>5 DEF FailureNoted
  <2>3. NoContent(fetchLog'[u])
    BY <1>1, <1>2, <1>4, OtherAppended
  <2>4. QED
    BY <2>2, <2>3 DEF Replayed
<1>5. CASE ~NoContent(log)
  <2>1. PICK k \in DOMAIN log :
          /\ LastContent(log, k)
          /\ documents[u].hash = log[k].hash
          /\ documents[u].fetchedAt = log[k].at
          /\ documents[u].unindexed <=> SkippedAfter(log, k)
    BY <1>5 DEF Replayed
  <2>2. /\ ~NoContent(fetchLog'[u])
        /\ k \in DOMAIN fetchLog'[u] /\ fetchLog'[u][k] = log[k]
        /\ LastContent(fetchLog'[u], k)
        /\ SkippedAfter(fetchLog'[u], k) <=> SkippedAfter(log, k) \/ PageSkipped(w, u)
    BY <1>1, <1>2, <1>5, <2>1, OtherAppended
  <2>3. /\ documents'[u].hash = documents[u].hash
        /\ documents'[u].fetchedAt = documents[u].fetchedAt
    BY <1>3 DEF PageSkipped, FailureNoted, Document
  <2>4. documents'[u].unindexed <=> documents[u].unindexed \/ PageSkipped(w, u)
    <3>1. CASE PageSkipped(w, u)
      <4>1. documents[u].hash # None
        BY <2>1, ConstantsAssumption DEF HashesLogged, LastContent
      <4>2. documents'[u].unindexed = (Evicts(w) \/ documents[u].unindexed)
        BY <1>3, <3>1 DEF PageSkipped, Document
      <4>3. Evicts(w) \/ documents[u].unindexed
        BY <1>3, <4>1 DEF Evicts
      <4>4. QED
        BY <3>1, <4>2, <4>3
    <3>2. CASE ~PageSkipped(w, u)
      BY <3>2 DEF FailureNoted
    <3>3. QED
      BY <3>1, <3>2
  <2>5. QED
    BY <2>1, <2>2, <2>3, <2>4 DEF Replayed
<1>6. QED
  BY <1>4, <1>5

LEMMA ReplayStep ==
  ASSUME HandlerInv, HashesLogged, DocumentIsReplay, [Next]_vars
  PROVE  DocumentIsReplay'
<1>0. TypeInv /\ ExistingCurrent /\ \A u \in Urls : Replayed(u)
  BY ReplayedIs DEF HandlerInv, TrailInv
<1>1. ASSUME NEW u \in Urls PROVE Replayed(u)'
  <2>0. documents[u] \in Document
    BY <1>0 DEF TypeInv, TypeOK
  <2>1. CASE SameRow(u)
    <3>1. Replayed(u) /\ documents'[u] = documents[u] /\ fetchLog'[u] = fetchLog[u]
      BY <1>0, <2>1 DEF SameRow
    <3>2. QED
      BY <3>1 DEF Replayed
  <2>2. ASSUME NEW w \in Crawlers, ContentSaved(w, u) PROVE Replayed(u)'
    BY <1>0, <2>2, ContentReplay
  <2>3. ASSUME NEW w \in Crawlers, ~ContentSaved(w, u), PageSkipped(w, u) \/ FailureNoted(w, u)
        PROVE  Replayed(u)'
    BY <1>0, <2>3, OtherReplay
  <2>4. ASSUME NEW e \in Embedders, NEW r \in embedding[e], RowEmbedded(r, u)
        PROVE  Replayed(u)'
    <3>1. r.hash \in Contents /\ r.url = u
      BY <1>0, <2>4 DEF RowEmbedded, TypeInv, TypeOK, Reading
    <3>2. SeenContent(u, r.hash)
      BY <2>4, <3>1 DEF HandlerInv, TrailInv, Explained, ReadingsLogged
    <3>3. ~NoContent(fetchLog[u])
      BY <1>0, <3>1, <3>2, RowThere DEF SeenContent
    <3>4. QED
      BY <1>0, <2>0, <2>4, <3>3, SameReplay DEF RowEmbedded, Document
  <2>5. ASSUME NEW r \in attest.batch, RowBackfilled(r, u) PROVE Replayed(u)'
    <3>1. r \in attest.pending /\ r.hash \in Contents /\ r.url = u
      BY <1>0, <2>5 DEF RowBackfilled, TypeInv, TypeOK, RunFinite, Request
    <3>2. SeenContent(u, r.hash)
      BY <3>1 DEF HandlerInv, TrailInv, Explained, PendingLogged, Traced
    <3>3. ~NoContent(fetchLog[u])
      BY <1>0, <3>1, <3>2, RowThere DEF SeenContent
    <3>4. QED
      BY <1>0, <2>0, <2>5, <3>3, SameReplay DEF RowBackfilled, Document
  <2>6. QED
    BY <1>0, <2>1, <2>2, <2>3, <2>4, <2>5, RowStep
<1>2. (\A u \in Urls : Replayed(u))'
  BY <1>1
<1>3. QED
  BY <1>2 DEF DocumentIsReplay, Replayed, NoContent, LastContent, SkippedAfter

LEMMA InitReplay == Init => HashesLogged /\ DocumentIsReplay
BY DEF Init, HashesLogged, DocumentIsReplay

ReplayInv == HandlerInv /\ HashesLogged /\ DocumentIsReplay

LEMMA ReplayInvariant == Spec /\ []Exclusive => []ReplayInv
<1>1. HandlerInv /\ HashesLogged /\ [Next]_vars => HashesLogged'
  BY HashesStep DEF HandlerInv, TrailInv
<1>2. HandlerInv /\ HashesLogged /\ DocumentIsReplay /\ [Next]_vars => DocumentIsReplay'
  BY ReplayStep
<1>3. ReplayInv <=> HandlerInv /\ HashesLogged /\ DocumentIsReplay
  BY DEF ReplayInv
<1>4. QED
  BY <1>1, <1>2, <1>3, InitReplay, HandlerInvariant, PTL DEF Spec

\* While no two transactions record one URL, its row is what its fetch_log, replayed,
\* leaves: the last content, when it was fetched, and out of search exactly when the page was
\* skipped since, whatever was lost, embedded or attested meanwhile (provenance.ts,
\* recordFetch and recordFailedFetch).
THEOREM RowIsReplay == Spec /\ []Exclusive => []DocumentIsReplay
<1>1. ReplayInv => DocumentIsReplay
  BY DEF ReplayInv
<1>2. QED
  BY <1>1, ReplayInvariant, PTL

\* What is selected of a row, and so what is signed, is of one fetch.
PendingExact == \A r \in attest.pending : Logged(r.url, r.hash, r.at)

SignedExact ==
  \A i \in 1..Len(txs) : \A r \in txs[i].requests : Logged(r.url, r.hash, r.at)

LEMMA RowsExact ==
  ASSUME DocumentIsReplay, NEW u \in Urls, Exists(u)
  PROVE  Logged(u, documents[u].hash, documents[u].fetchedAt)
BY DEF DocumentIsReplay, Exists, NoDocument, Logged

LEMMA ExactStep ==
  ASSUME ReplayInv, PendingExact, SignedExact, [Next]_vars
  PROVE  PendingExact' /\ SignedExact'
<1>0. TypeInv /\ DocumentIsReplay
  BY DEF ReplayInv, HandlerInv, TrailInv
<1>1. ASSUME NEW r \in attest'.pending PROVE Logged(r.url, r.hash, r.at)'
  <2>1. r.url \in Urls /\ Logged(r.url, r.hash, r.at)
    BY <1>0, PendingSource, RowsExact DEF PendingExact
  <2>2. QED
    BY <1>0, <2>1, LogGrows
<1>2. ASSUME NEW i \in 1..Len(txs'), NEW r \in txs'[i].requests
      PROVE  Logged(r.url, r.hash, r.at)'
  <2>1. r.url \in Urls /\ Logged(r.url, r.hash, r.at)
    BY <1>0, SignedSource DEF PendingExact, SignedExact
  <2>2. QED
    BY <1>0, <2>1, LogGrows
<1>3. QED
  BY <1>1, <1>2 DEF PendingExact, SignedExact

\* While no two transactions record one URL, every request signed is of one fetch of the
\* trail, and every receipt stored is of a landed attestation of that very URL, for any
\* number of URLs, handlers and passes and any batch size (attestor.ts, attestPending and
\* attestBatch).  Two transactions on one URL may leave the content of one fetch with the
\* time of the other, and the attester signs what it reads.
THEOREM AttestedTrail == Spec /\ []Exclusive => []ReceiptsBacked
<1>1. Init => PendingExact /\ SignedExact
  BY DEF Init, PendingExact, SignedExact, NotRunning
<1>2. ReplayInv /\ PendingExact /\ SignedExact /\ [Next]_vars => PendingExact' /\ SignedExact'
  BY ExactStep
<1>3. ReplayInv /\ SignedExact => ReceiptsBacked
  BY DEF ReplayInv, HandlerInv, TrailInv, SignedExact, UidsBacked, Backed, ReceiptsBacked
<1>4. QED
  BY <1>1, <1>2, <1>3, ReplayInvariant, PTL DEF Spec

-----------------------------------------------------------------------------
(* content_changed.                                                        *)

\* Row n differs from the content before it, or follows an eviction.
Differs(log, n) ==
  \E k \in 1..(n - 1) :
    /\ IndexedRow(log[k])
    /\ \A j \in (k + 1)..(n - 1) : ~IndexedRow(log[j])
    /\ \/ log[k].hash # log[n].hash
       \/ \E j \in (k + 1)..(n - 1) : SkippedRow(log[j])

TellsChanges(log) ==
  \A n \in DOMAIN log : IndexedRow(log[n]) => (log[n].changed <=> Differs(log, n))

LEMMA TellsIs == TrailTellsChanges <=> \A u \in Urls : TellsChanges(fetchLog[u])
BY DEF TrailTellsChanges, TellsChanges, Differs

LEMMA TellsAppended ==
  ASSUME NEW log \in Seq(LogRow), NEW row \in LogRow, TellsChanges(log),
         LET grown == Append(log, row) IN
         IndexedRow(row) => (row.changed <=> Differs(grown, Len(log) + 1))
  PROVE  TellsChanges(Append(log, row))
<1> DEFINE grown == Append(log, row)
<1>1. /\ Len(log) \in Nat /\ DOMAIN log = 1..Len(log) /\ DOMAIN grown = 1..(Len(log) + 1)
      /\ \A k \in 1..Len(log) : grown[k] = log[k]
      /\ grown[Len(log) + 1] = row
  BY AppendedLog
<1>2. IndexedRow(row) => (row.changed <=> Differs(grown, Len(log) + 1))
  OBVIOUS
<1> HIDE DEF grown
<1>3. ASSUME NEW n \in 1..Len(log) PROVE Differs(grown, n) <=> Differs(log, n)
  <2>1. \A k \in 1..n : grown[k] = log[k]
    BY <1>1
  <2>2. QED
    BY <1>1, <2>1 DEF Differs
<1>4. ASSUME NEW n \in DOMAIN grown, IndexedRow(grown[n])
      PROVE  grown[n].changed <=> Differs(grown, n)
  <2>1. CASE n \in 1..Len(log)
    BY <1>1, <1>3, <1>4, <2>1 DEF TellsChanges
  <2>2. CASE n = Len(log) + 1
    BY <1>1, <1>2, <1>4, <2>2
  <2>3. QED
    BY <1>1, <2>1, <2>2
<1>5. TellsChanges(grown)
  BY <1>4 DEF TellsChanges
<1>6. QED
  BY <1>5 DEF grown

\* The row of a page agrees with the trail, so that what a handler concludes from the
\* one is what the other says.
LEMMA ContentTells ==
  ASSUME TypeInv, ExistingCurrent, HashesLogged, NEW u \in Urls, Replayed(u),
         NEW w \in Crawlers, ContentSaved(w, u),
         NEW row \in LogRow,
         row.hash = fetching[w].result,
         row.changed = ContentChanged(fetching[w].existing, fetching[w].result)
  PROVE  row.changed <=> Differs(Append(fetchLog[u], row), Len(fetchLog[u]) + 1)
<1> DEFINE log == fetchLog[u]
           grown == Append(log, row)
           n == Len(log) + 1
           doc == documents[u]
<1>1. log \in Seq(LogRow)
  BY DEF TypeInv, TypeOK
<1>2. /\ n \in Int /\ DOMAIN log = 1..(n - 1)
      /\ \A k \in 1..(n - 1) : k \in DOMAIN log /\ grown[k] = log[k]
      /\ grown[n] = row
  BY <1>1, AppendedLog
<1>3. row.changed <=> /\ doc.hash # None
                      /\ doc.hash # row.hash \/ doc.unindexed
  <2>1. /\ fetching[w].existing.hash = doc.hash
        /\ fetching[w].existing.unindexed = doc.unindexed
    BY HandledCurrent DEF ContentSaved
  <2>2. QED
    BY <2>1 DEF ContentChanged
<1> HIDE DEF grown, n, log
<1>4. CASE NoContent(log)
  <2>1. doc.hash = None
    BY <1>4 DEF Replayed, NoDocument, log
  <2>2. ~Differs(grown, n)
    BY <1>2, <1>4 DEF Differs, NoContent
  <2>3. QED
    BY <1>3, <2>1, <2>2 DEF grown, n, log
<1>5. CASE ~NoContent(log)
  <2>1. PICK k \in DOMAIN log :
          /\ LastContent(log, k)
          /\ doc.hash = log[k].hash
          /\ doc.unindexed <=> SkippedAfter(log, k)
    BY <1>5 DEF Replayed, log
  <2>2. IndexedRow(log[k]) /\ \A j \in DOMAIN log : IndexedRow(log[j]) => j <= k
    BY <2>1 DEF LastContent
  <2>3. doc.hash # None
    BY <2>1, <2>2, ConstantsAssumption DEF HashesLogged, log
  <2>4. Differs(grown, n) <=> log[k].hash # row.hash \/ SkippedAfter(log, k)
    <3>1. /\ k \in 1..(n - 1) /\ IndexedRow(grown[k])
          /\ \A j \in (k + 1)..(n - 1) : ~IndexedRow(grown[j])
      BY <1>2, <2>2
    <3>2. ASSUME NEW l \in 1..(n - 1), IndexedRow(grown[l]),
                 \A j \in (l + 1)..(n - 1) : ~IndexedRow(grown[j])
          PROVE  l = k
      <4>0. l \in Int /\ k \in Int /\ n \in Int
        BY <1>2
      <4>1. l <= k
        <5>1. l \in DOMAIN log /\ IndexedRow(log[l])
          BY <1>2, <3>2
        <5>2. QED
          BY <2>2, <5>1
      <4>2. ~(l < k)
        <5>1. SUFFICES ASSUME l < k PROVE k \in (l + 1)..(n - 1)
          BY <3>1, <3>2
        <5>2. QED
          BY <3>1, <4>0, <5>1
      <4>3. QED
        BY <4>0, <4>1, <4>2
    <3>3. SkippedAfter(log, k) <=> \E j \in (k + 1)..(n - 1) : SkippedRow(grown[j])
      BY <1>2 DEF SkippedAfter
    <3>4. grown[n] = row /\ grown[k] = log[k]
      BY <1>2, <3>1
    <3>5. QED
      BY <3>1, <3>2, <3>3, <3>4 DEF Differs
  <2>5. QED
    BY <1>3, <2>1, <2>3, <2>4 DEF grown, n, log
<1>6. QED
  BY <1>4, <1>5

LEMMA TellsStep ==
  ASSUME ReplayInv, TrailTellsChanges, [Next]_vars
  PROVE  TrailTellsChanges'
<1>0. /\ TypeInv /\ ExistingCurrent /\ HashesLogged
      /\ \A u \in Urls : Replayed(u) /\ TellsChanges(fetchLog[u])
  BY ReplayedIs, TellsIs DEF ReplayInv, HandlerInv, TrailInv
<1>1. ASSUME NEW u \in Urls PROVE TellsChanges(fetchLog'[u])
  <2>1. fetchLog[u] \in Seq(LogRow)
    BY <1>0 DEF TypeInv, TypeOK
  <2>2. ASSUME NEW w \in Crawlers,
               ContentSaved(w, u) \/ PageSkipped(w, u) \/ FailureNoted(w, u)
        PROVE  TellsChanges(fetchLog'[u])
    <3>1. PICK row \in LogRow :
            /\ fetchLog'[u] = Append(fetchLog[u], row)
            /\ IndexedRow(row) <=> ContentSaved(w, u)
            /\ ContentSaved(w, u) =>
                 /\ row.hash = fetching[w].result
                 /\ row.changed =
                      ContentChanged(fetching[w].existing, fetching[w].result)
      BY <1>0, <2>2, HandledRow
    <3>2. IndexedRow(row) =>
            (row.changed <=> Differs(Append(fetchLog[u], row), Len(fetchLog[u]) + 1))
      BY <1>0, <3>1, ContentTells
    <3>3. QED
      BY <1>0, <2>1, <3>1, <3>2, TellsAppended
  <2>3. CASE fetchLog'[u] = fetchLog[u]
    BY <1>0, <2>3
  <2>4. QED
    BY <1>0, <2>2, <2>3, RowStep DEF SameRow, RowEmbedded, RowBackfilled
<1>2. QED
  BY <1>1 DEF TrailTellsChanges, TellsChanges, Differs

\* While no two transactions record one URL, content_changed is true of exactly the
\* rows of the trail whose content differs from the one before it or that follow an
\* eviction (provenance.ts, contentChanged, which recordFetch works out from the row and
\* not from the trail).
THEOREM ChangesAreTold == Spec /\ []Exclusive => []TrailTellsChanges
<1>1. Init => TrailTellsChanges
  BY DEF Init, TrailTellsChanges
<1>2. ReplayInv /\ TrailTellsChanges /\ [Next]_vars => TrailTellsChanges'
  BY TellsStep
<1>3. QED
  BY <1>1, <1>2, ReplayInvariant, PTL DEF Spec

(***************************************************************************)
(* Stages that take turns: while one of the passes holds a snapshot, the   *)
(* rows it was taken of do not change.                                     *)
(***************************************************************************)
InTurn ==
  /\ CrawlIdle \/ (EmbedIdle /\ AttestIdle)
  /\ EmbedIdle \/ AttestIdle

LEMMA TurnStep ==
  ASSUME StagesOverlap = FALSE, InTurn
  PROVE  /\ \A w \in Crawlers : Crawl(w) => EmbedIdle /\ AttestIdle
         /\ \A e \in Embedders : Embed(e) => CrawlIdle /\ AttestIdle
         /\ Attest => CrawlIdle /\ EmbedIdle
<1>1. Idle.stage = "idle"
  BY DEF Idle
<1>2. ASSUME NEW w \in Crawlers, Crawl(w) PROVE EmbedIdle /\ AttestIdle
  <2>1. (\E i \in Indexes, u \in Urls : Fetch(w, i, u)) \/ fetching[w] # Idle
    BY <1>1, <1>2 DEF Crawl, OpenRecord, LoadRow, RecordContent, RecordSkip, RecordFailure, LoseFetch
  <2>2. QED
    BY <2>1 DEF InTurn, Fetch, CrawlIdle
<1>3. ASSUME NEW e \in Embedders, Embed(e) PROVE CrawlIdle /\ AttestIdle
  <2>1. (\E s \in Indexes \cup {WholeStore} : EmbedSelect(e, s)) \/ embedding[e] # {}
    BY <1>3 DEF Embed, EmbedDocument, LoseEmbed
  <2>2. QED
    BY <2>1 DEF InTurn, EmbedSelect, EmbedIdle
<1>4. ASSUME Attest PROVE CrawlIdle /\ EmbedIdle
  <2>1. (\E s \in Indexes \cup {WholeStore} : AttestSelect(s)) \/ ~AttestIdle
    BY <1>4 DEF Attest, Submit, Refuse, Timeout, Settle, Backfill, CrashAttester, AttestIdle
  <2>2. QED
    BY <2>1 DEF InTurn, AttestSelect
<1>5. QED
  BY <1>2, <1>3, <1>4

\* Each pass leaves what the others hold in memory.
LEMMA PassesApart ==
  /\ \A w \in Crawlers : Crawl(w) => UNCHANGED <<embedding, attest, txs>>
  /\ \A e \in Embedders : Embed(e) => UNCHANGED <<fetching, attest, txs>>
  /\ Attest => UNCHANGED <<fetching, embedding>>
  /\ \A i \in 1..Len(txs) : Land(i) => UNCHANGED <<documents, fetching, embedding, attest>>
BY DEF Crawl, Fetch, OpenRecord, LoadRow, RecordContent, RecordSkip, RecordFailure, LoseFetch,
       Embed, EmbedSelect, EmbedDocument, LoseEmbed, Attest, AttestSelect, Submit, Refuse,
       Timeout, Settle, Backfill, CrashAttester, Land

LEMMA InTurnStep ==
  ASSUME StagesOverlap = FALSE, InTurn, [Next]_vars
  PROVE  InTurn'
<1>1. ASSUME NEW w \in Crawlers, Crawl(w) PROVE InTurn'
  BY <1>1, TurnStep, PassesApart DEF InTurn, EmbedIdle, AttestIdle
<1>2. ASSUME NEW e \in Embedders, Embed(e) PROVE InTurn'
  BY <1>2, TurnStep, PassesApart DEF InTurn, CrawlIdle, AttestIdle
<1>3. CASE Attest
  BY <1>3, TurnStep, PassesApart DEF InTurn, CrawlIdle, EmbedIdle
<1>4. CASE UNCHANGED <<fetching, embedding, attest>>
  BY <1>4 DEF InTurn, CrawlIdle, EmbedIdle, AttestIdle
<1>5. QED
  <2>1. CASE UNCHANGED vars
    BY <1>4, <2>1 DEF vars
  <2>2. ASSUME NEW i \in 1..Len(txs), Land(i) PROVE InTurn'
    BY <1>4, <2>2, PassesApart
  <2>3. QED
    BY <1>1, <1>2, <1>3, <2>1, <2>2 DEF Next

\* What the passes have read is what the rows say.
ReadingsCurrent ==
  \A e \in Embedders : \A r \in embedding[e] : r.hash = documents[r.url].hash

PendingCurrent ==
  attest.pc # "idle" => \A r \in attest.pending : r.hash = documents[r.url].hash

\* A handler that has its reading of a row has read what is derived from it: a row
\* that still carries a receipt has the content its handlers read, and what is set in
\* the row was set when they read it.
OpenStamps ==
  \A w \in Crawlers : fetching[w].stage = "opened" =>
    LET job == fetching[w] IN
    /\ documents[job.url].uid # None => job.existing.hash = documents[job.url].hash
    /\ job.loaded.hash # None =>
         /\ documents[job.url].uid # None =>
              job.loaded.uid # None /\ job.loaded.hash = documents[job.url].hash
         /\ documents[job.url].embedded => job.loaded.embedded

SnapshotsCurrent == ReadingsCurrent /\ PendingCurrent

\* Where the requests of a run come from.
LEMMA PendingFrom ==
  ASSUME TypeInv, Attest
  PROVE  attest'.pc # "idle" =>
           \/ attest.pc # "idle" /\ attest'.pending \subseteq attest.pending
           \/ \E s \in Indexes \cup {WholeStore} : attest'.pending = Unattested(s)
<1> DEFINE Goal == attest'.pc # "idle" =>
             \/ attest.pc # "idle" /\ attest'.pending \subseteq attest.pending
             \/ \E s \in Indexes \cup {WholeStore} : attest'.pending = Unattested(s)
<1>0. attest \in Run /\ NotRunning.pc = "idle"
  BY DEF TypeInv, TypeOK, Run, NotRunning
<1>1. ASSUME NEW s \in Indexes \cup {WholeStore}, AttestSelect(s) PROVE Goal
  BY <1>1 DEF AttestSelect
<1>2. CASE Submit \/ Settle
  BY <1>0, <1>2 DEF Submit, Settle, Run
<1>3. ASSUME NEW n, attest.pc # "idle", attest' = AfterFailure(n) PROVE Goal
  BY <1>0, <1>3 DEF AfterFailure, Run
<1>4. ASSUME NEW r \in attest.batch, Backfill(r) PROVE Goal
  BY <1>0, <1>4 DEF Backfill, Run
<1>5. CASE CrashAttester
  BY <1>0, <1>5 DEF CrashAttester
<1>6. QED
  BY <1>1, <1>2, <1>3, <1>4, <1>5 DEF Attest, Refuse, Timeout

\* Only a handler that commits changes the content of a row.
LEMMA ContentKept ==
  ASSUME TypeInv, [Next]_vars, CrawlIdle, NEW u \in Urls
  PROVE  documents'[u].hash = documents[u].hash
<1>1. \A w \in Crawlers : ~Recorded(w, u)
  BY DEF CrawlIdle, Recorded, Opened, Idle
<1>2. QED
  BY <1>1, ContentStep DEF SameContent

LEMMA SnapshotsStep ==
  ASSUME StagesOverlap = FALSE, TypeInv, InTurn, SnapshotsCurrent, [Next]_vars
  PROVE  SnapshotsCurrent'
<1>1. ASSUME NEW w \in Crawlers, Crawl(w) PROVE SnapshotsCurrent'
  BY <1>1, TurnStep, PassesApart
     DEF SnapshotsCurrent, ReadingsCurrent, PendingCurrent, EmbedIdle, AttestIdle
<1>2. ASSUME CrawlIdle,
             \A e \in Embedders : \A r \in embedding'[e] :
               r \in embedding[e] \/ \E s \in Indexes \cup {WholeStore} : r \in Unembedded(s),
             attest'.pc # "idle" => \A r \in attest'.pending :
               \/ attest.pc # "idle" /\ r \in attest.pending
               \/ \E s \in Indexes \cup {WholeStore} : r \in Unattested(s)
      PROVE  SnapshotsCurrent'
  <2>1. \A u \in Urls : documents'[u].hash = documents[u].hash
    BY <1>2, ContentKept
  <2>2. ASSUME NEW s \in Indexes \cup {WholeStore}
        PROVE  /\ \A r \in Unembedded(s) : r.url \in Urls /\ r.hash = documents[r.url].hash
               /\ \A r \in Unattested(s) : r.url \in Urls /\ r.hash = documents[r.url].hash
    BY DEF Unembedded, Unattested, Scope, TypeInv, TypeOK
  <2>3. ReadingsCurrent'
    BY <1>2, <2>1, <2>2 DEF SnapshotsCurrent, ReadingsCurrent, TypeInv, TypeOK, Reading
  <2>4. PendingCurrent'
    BY <1>2, <2>1, <2>2 DEF SnapshotsCurrent, PendingCurrent, TypeInv, TypeOK, Request
  <2>5. QED
    BY <2>3, <2>4 DEF SnapshotsCurrent
<1>3. ASSUME NEW e \in Embedders, Embed(e) PROVE SnapshotsCurrent'
  <2>1. \A f \in Embedders : \A r \in embedding'[f] :
          r \in embedding[f] \/ \E s \in Indexes \cup {WholeStore} : r \in Unembedded(s)
    <3>0. embedding \in [Embedders -> SUBSET Reading]
      BY DEF TypeInv, TypeOK
    <3>1. ASSUME NEW s \in Indexes \cup {WholeStore}, EmbedSelect(e, s)
          PROVE  \A f \in Embedders : embedding'[f] \in {embedding[f], Unembedded(s)}
      BY <3>0, <3>1 DEF EmbedSelect
    <3>2. CASE LoseEmbed(e) \/ \E r \in embedding[e] : EmbedDocument(e, r)
      BY <3>0, <3>2 DEF LoseEmbed, EmbedDocument
    <3>3. QED
      BY <1>3, <3>1, <3>2 DEF Embed
  <2>2. QED
    BY <1>2, <1>3, <2>1, TurnStep, PassesApart
<1>4. CASE Attest
  <2>1. attest'.pc # "idle" => \A r \in attest'.pending :
          \/ attest.pc # "idle" /\ r \in attest.pending
          \/ \E s \in Indexes \cup {WholeStore} : r \in Unattested(s)
    BY <1>4, PendingFrom
  <2>2. QED
    BY <1>2, <1>4, <2>1, TurnStep, PassesApart
<1>5. CASE UNCHANGED <<documents, embedding, attest>>
  BY <1>5 DEF SnapshotsCurrent, ReadingsCurrent, PendingCurrent
<1>6. QED
  BY <1>1, <1>3, <1>4, <1>5, PassesApart DEF Next, vars

TurnInv == TrailInv /\ InTurn /\ SnapshotsCurrent

LEMMA TurnInvariant ==
  ASSUME StagesOverlap = FALSE
  PROVE  Spec => []TurnInv
<1>1. Init => InTurn /\ SnapshotsCurrent
  BY DEF Init, InTurn, CrawlIdle, EmbedIdle, AttestIdle, NotRunning, SnapshotsCurrent,
         ReadingsCurrent, PendingCurrent
<1>2. InTurn /\ [Next]_vars => InTurn'
  BY InTurnStep
<1>3. TypeInv /\ InTurn /\ SnapshotsCurrent /\ [Next]_vars => SnapshotsCurrent'
  BY SnapshotsStep
<1>4. TrailInv => TypeInv
  BY DEF TrailInv
<1>5. TurnInv <=> TrailInv /\ InTurn /\ SnapshotsCurrent
  BY DEF TurnInv
<1>6. QED
  BY <1>1, <1>2, <1>3, <1>4, <1>5, TrailInvariant, PTL DEF Spec

\* What the handler that commits a content leaves of what was derived from the row.
LEMMA StampsLeft ==
  ASSUME TypeInv, OpenStamps, NEW w \in Crawlers, NEW u \in Urls, ContentSaved(w, u)
  PROVE  /\ documents'[u].uid # None =>
              /\ documents'[u].uid = documents[u].uid
              /\ documents'[u].hash = documents[u].hash
              /\ Unchanged(fetching[w].existing, fetching[w].result)
         /\ documents'[u].embedded =>
              /\ documents[u].embedded
              /\ Unchanged(fetching[w].existing, fetching[w].result)
<1> DEFINE job == fetching[w]
<1>1. /\ job \in Opened /\ job.stage = "opened" /\ job.url = u
      /\ documents'[u] = SavedRow(documents[u], job)
      /\ job.existing.hash = None \/ job.loaded.hash # None
      /\ documents[u] \in Document
  BY DEF ContentSaved, Handled, Opened, TypeInv, TypeOK
<1>2. /\ \/ documents'[u].hash = job.result
         \/ job.loaded.hash = job.result /\ documents'[u].hash = documents[u].hash
      /\ documents'[u].embedded =>
           /\ documents[u].embedded /\ job.existing.hash # None
           /\ Unchanged(job.existing, job.result) \/ ~job.loaded.embedded
      /\ documents'[u].uid # None =>
           /\ documents'[u].uid = documents[u].uid /\ job.existing.hash # None
           /\ Unchanged(job.existing, job.result) \/ job.loaded.uid = None
  BY <1>1, SavedStamps
<1>3. /\ documents[u].uid # None => job.existing.hash = documents[u].hash
      /\ job.loaded.hash # None =>
           /\ documents[u].uid # None => job.loaded.uid # None
           /\ documents[u].embedded => job.loaded.embedded
  BY <1>1 DEF OpenStamps
<1>4. QED
  BY <1>1, <1>2, <1>3 DEF Unchanged

\* The row a step leaves with a receipt has the content and the receipt it had, or
\* has just been backfilled.
LEMMA ReceiptKept ==
  ASSUME TypeInv, OpenStamps, [Next]_vars, NEW u \in Urls, documents'[u].uid # None
  PROVE  \/ /\ documents'[u].uid = documents[u].uid
            /\ documents'[u].hash = documents[u].hash
         \/ \E r \in attest.batch : RowBackfilled(r, u)
<1>0. documents[u] \in Document
  BY DEF TypeInv, TypeOK
<1>1. QED
  BY <1>0, StampsLeft, RowStep DEF SameRow, PageSkipped, FailureNoted, RowEmbedded, Document

\* The row a step leaves embedded was embedded, or has just been.
LEMMA EmbeddedKept ==
  ASSUME TypeInv, OpenStamps, [Next]_vars, NEW u \in Urls, documents'[u].embedded
  PROVE  documents[u].embedded \/ \E e \in Embedders : \E r \in embedding[e] : RowEmbedded(r, u)
<1>0. documents[u] \in Document
  BY DEF TypeInv, TypeOK
<1>1. QED
  BY <1>0, StampsLeft, RowStep DEF SameRow, PageSkipped, FailureNoted, RowBackfilled, Document

LEMMA OpenStampsStep ==
  ASSUME TypeInv, InTurn, OpenStamps, [Next]_vars
  PROVE  OpenStamps'
<1> DEFINE Kept(job, row) ==
             /\ row.uid # None => job.existing.hash = row.hash
             /\ job.loaded.hash # None =>
                  /\ row.uid # None => job.loaded.uid # None /\ job.loaded.hash = row.hash
                  /\ row.embedded => job.loaded.embedded
<1> SUFFICES ASSUME NEW w \in Crawlers, fetching'[w].stage = "opened"
             PROVE  Kept(fetching'[w], documents'[fetching'[w].url])
  BY DEF OpenStamps
<1> DEFINE job == fetching[w]
<1>1. CASE OpenRecord(w)
  BY <1>1, ReadStep
<1>2. CASE LoadRow(w)
  <2>1. job.stage = "opened"
    BY <1>2 DEF LoadRow
  <2>2. documents[job.url].uid # None => job.existing.hash = documents[job.url].hash
    BY <2>1 DEF OpenStamps
  <2>3. QED
    BY <1>2, <2>2, ReadStep
<1>3. CASE fetching'[w] = fetching[w]
  <2>1. job \in Opened
    BY <1>3, JobStage DEF TypeInv, TypeOK
  <2>2. job.url \in Urls /\ Idle.stage # "opened"
    BY <2>1 DEF Opened, Idle
  <2>3. AttestIdle /\ EmbedIdle
    BY <1>3, <2>2 DEF InTurn, CrawlIdle
  <2>4. Kept(job, documents[job.url])
    BY <1>3 DEF OpenStamps
  <2>5. documents'[job.url].uid # None =>
          /\ documents'[job.url].uid = documents[job.url].uid
          /\ documents'[job.url].hash = documents[job.url].hash
    BY <2>2, <2>3, ReceiptKept DEF RowBackfilled, AttestIdle
  <2>6. documents'[job.url].embedded => documents[job.url].embedded
    BY <2>2, <2>3, EmbeddedKept DEF EmbedIdle
  <2>7. QED
    BY <1>3, <2>4, <2>5, <2>6
<1>4. QED
  BY <1>1, <1>2, <1>3, OpenStep

LEMMA OpenStampsInvariant ==
  ASSUME StagesOverlap = FALSE
  PROVE  Spec => []OpenStamps
<1>1. Init => OpenStamps
  BY DEF Init, OpenStamps, Idle
<1>2. TypeInv /\ InTurn /\ OpenStamps /\ [Next]_vars => OpenStamps'
  BY OpenStampsStep
<1>3. TurnInv => TypeInv /\ InTurn
  BY DEF TurnInv, TrailInv
<1>4. QED
  BY <1>1, <1>2, <1>3, TurnInvariant, PTL DEF Spec

LEMMA ReceiptStep ==
  ASSUME TurnInv, OpenStamps, ReceiptCurrent, [Next]_vars
  PROVE  ReceiptCurrent'
<1> SUFFICES ASSUME NEW u \in Urls, documents'[u].uid # None
             PROVE  \E r \in txs'[documents'[u].uid[1]].requests :
                      r.url = u /\ r.hash = documents'[u].hash
  BY DEF ReceiptCurrent
<1>0. TypeInv /\ InFlight /\ UidsBacked /\ PendingCurrent
  BY DEF TurnInv, TrailInv, SnapshotsCurrent
<1>1. CASE /\ documents'[u].uid = documents[u].uid
           /\ documents'[u].hash = documents[u].hash
  <2>1. PICK i \in 1..Len(txs) : documents[u].uid = <<i, u>>
    BY <1>0, <1>1 DEF UidsBacked, Backed
  <2>2. txs'[i].requests = txs[i].requests
    BY <1>0, <2>1, TxsKept
  <2>3. documents[u].uid[1] = i
    BY <2>1
  <2>4. \E r \in txs[i].requests : r.url = u /\ r.hash = documents[u].hash
    BY <1>1, <2>3 DEF ReceiptCurrent
  <2>5. QED
    BY <1>1, <2>2, <2>3, <2>4
<1>2. ASSUME NEW r \in attest.batch, RowBackfilled(r, u)
      PROVE  \E q \in txs'[documents'[u].uid[1]].requests :
               q.url = u /\ q.hash = documents'[u].hash
  <2>1. documents[u] \in Document /\ r.url = u /\ r \in attest.pending
    BY <1>0, <1>2 DEF TypeInv, TypeOK, RunFinite, RowBackfilled
  <2>2. documents'[u].uid = <<Len(txs), u>> /\ documents'[u].hash = documents[u].hash
    BY <1>2, <2>1 DEF RowBackfilled, Document
  <2>3. r.hash = documents[u].hash
    BY <1>0, <1>2, <2>1 DEF RowBackfilled, PendingCurrent
  <2>4. Len(txs) > 0 /\ r \in txs[Len(txs)].requests
    BY <1>0, <1>2 DEF RowBackfilled, InFlight
  <2>5. txs'[Len(txs)].requests = txs[Len(txs)].requests
    <3>1. Len(txs) \in 1..Len(txs)
      BY <1>0, <2>4, TxsKept
    <3>2. QED
      BY <1>0, <3>1, TxsKept
  <2>6. documents'[u].uid[1] = Len(txs)
    BY <2>2
  <2>7. QED
    BY <2>1, <2>2, <2>3, <2>4, <2>5, <2>6
<1>3. QED
  BY <1>0, <1>1, <1>2, ReceiptKept

\* When the stages take turns, as the nightly pipeline runs them, the receipt of a
\* document attests the content it has, for any number of handlers that crawl at once
\* (attestor.ts, attestPending, which selects rows and writes them back by id).
THEOREM ReceiptsAreCurrent ==
  ASSUME StagesOverlap = FALSE
  PROVE  Spec => []ReceiptCurrent
<1>1. Init => ReceiptCurrent
  BY DEF Init, ReceiptCurrent, NoDocument
<1>2. TurnInv /\ OpenStamps /\ ReceiptCurrent /\ [Next]_vars => ReceiptCurrent'
  BY ReceiptStep
<1>3. QED
  BY <1>1, <1>2, OpenStampsInvariant, TurnInvariant, PTL DEF Spec

LEMMA ChunksCurrentStep ==
  ASSUME HandlerInv, SnapshotsCurrent, OpenStamps, ChunksCurrent, [Next]_vars
  PROVE  ChunksCurrent'
<1> SUFFICES ASSUME NEW u \in Urls, documents'[u].embedded, ~documents'[u].unindexed,
                    documents'[u].hash \notin HeadingsOnly
             PROVE  chunks'[u] = documents'[u].hash
  BY DEF ChunksCurrent, InSearch
<1>0. TypeInv /\ ExistingCurrent /\ documents[u] \in Document
  BY DEF HandlerInv, TrailInv, TypeInv, TypeOK
<1>1. /\ documents[u].embedded /\ ~documents[u].unindexed
      /\ documents[u].hash \notin HeadingsOnly
      => chunks[u] = documents[u].hash
  BY DEF ChunksCurrent, InSearch
<1>2. CASE SameRow(u)
  BY <1>1, <1>2 DEF SameRow
<1>3. ASSUME NEW w \in Crawlers, ContentSaved(w, u) PROVE chunks'[u] = documents'[u].hash
  <2>1. /\ fetching[w].existing \in Document
        /\ fetching[w].existing.hash = documents[u].hash
        /\ fetching[w].existing.unindexed = documents[u].unindexed
    BY <1>0, <1>3, HandledCurrent DEF ContentSaved
  <2>2. /\ documents[u].embedded /\ ~documents[u].unindexed
        /\ documents'[u].hash = documents[u].hash
    BY <1>0, <1>3, <2>1, StampsLeft, SavedFields DEF Unchanged
  <2>3. QED
    BY <1>1, <1>3, <2>2 DEF ContentSaved
<1>4. ASSUME NEW w \in Crawlers, PageSkipped(w, u) PROVE chunks'[u] = documents'[u].hash
  BY <1>0, <1>1, <1>4 DEF PageSkipped, Document
<1>5. ASSUME NEW w \in Crawlers, FailureNoted(w, u) PROVE chunks'[u] = documents'[u].hash
  BY <1>1, <1>5 DEF FailureNoted
<1>6. ASSUME NEW e \in Embedders, NEW r \in embedding[e], RowEmbedded(r, u)
      PROVE  chunks'[u] = documents'[u].hash
  <2>1. documents'[u].hash = documents[u].hash
    BY <1>0, <1>6 DEF RowEmbedded, Document
  <2>2. r.hash = documents[u].hash
    BY <1>6 DEF RowEmbedded, SnapshotsCurrent, ReadingsCurrent
  <2>3. QED
    BY <1>6, <2>1, <2>2 DEF RowEmbedded
<1>7. ASSUME NEW r \in attest.batch, RowBackfilled(r, u)
      PROVE  chunks'[u] = documents'[u].hash
  BY <1>0, <1>1, <1>7 DEF RowBackfilled, Document
<1>8. QED
  BY <1>0, <1>2, <1>3, <1>4, <1>5, <1>6, <1>7, RowStep

\* When the stages take turns and no two transactions record one URL, a document in
\* search is searched by the content it has, whatever contents it had before (embed.ts,
\* the transaction that replaces the chunks of a document).
THEOREM ChunksAreCurrent ==
  ASSUME StagesOverlap = FALSE
  PROVE  Spec /\ []Exclusive => []ChunksCurrent
<1>1. Init => ChunksCurrent
  BY DEF Init, ChunksCurrent, InSearch, NoDocument
<1>2. HandlerInv /\ SnapshotsCurrent /\ OpenStamps /\ ChunksCurrent /\ [Next]_vars => ChunksCurrent'
  BY ChunksCurrentStep
<1>3. TurnInv => SnapshotsCurrent
  BY DEF TurnInv
<1>4. QED
  BY <1>1, <1>2, <1>3, HandlerInvariant, OpenStampsInvariant, TurnInvariant, PTL DEF Spec

-----------------------------------------------------------------------------
(* What a change clears.                                                   *)

\* The conclusion of ChangeInvalidates about one URL.
Invalidated(u) ==
  \/ documents'[u].hash # documents[u].hash
  \/ documents[u].unindexed /\ ~documents'[u].unindexed
  => ~documents'[u].embedded /\ documents'[u].uid = None

LEMMA InvalidatedStep ==
  ASSUME HandlerInv, OpenStamps, [Next]_vars, NEW u \in Urls
  PROVE  Invalidated(u)
<1>0. TypeInv /\ ExistingCurrent /\ documents[u] \in Document
  BY DEF HandlerInv, TrailInv, TypeInv, TypeOK
<1>1. ASSUME NEW w \in Crawlers, ContentSaved(w, u) PROVE Invalidated(u)
  <2>1. /\ fetching[w].existing.hash = documents[u].hash
        /\ fetching[w].existing.unindexed = documents[u].unindexed
    BY <1>0, <1>1, HandledCurrent DEF ContentSaved
  <2>2. documents'[u].hash = fetching[w].result
    BY <1>0, <1>1, SavedFields
  <2>3. Unchanged(fetching[w].existing, fetching[w].result) =>
          documents'[u].hash = documents[u].hash /\ ~documents[u].unindexed
    BY <2>1, <2>2 DEF Unchanged
  <2>4. \/ Unchanged(fetching[w].existing, fetching[w].result)
        \/ ~documents'[u].embedded /\ documents'[u].uid = None
    BY <1>0, <1>1, StampsLeft
  <2>5. QED
    BY <2>3, <2>4 DEF Invalidated
<1>2. CASE SameRow(u)
  BY <1>2 DEF SameRow, Invalidated
<1>3. ASSUME NEW w \in Crawlers, PageSkipped(w, u) PROVE Invalidated(u)
  <2>1. documents'[u].hash = documents[u].hash
    BY <1>0, <1>3 DEF PageSkipped, Document
  <2>2. documents'[u].unindexed = (Evicts(w) \/ documents[u].unindexed)
    BY <1>0, <1>3 DEF PageSkipped, Document
  <2>3. QED
    BY <2>1, <2>2 DEF Invalidated
<1>4. ASSUME NEW w \in Crawlers, FailureNoted(w, u) PROVE Invalidated(u)
  BY <1>4 DEF FailureNoted, Invalidated
<1>5. ASSUME NEW r, RowEmbedded(r, u) \/ RowBackfilled(r, u) PROVE Invalidated(u)
  <2>1. /\ documents'[u].hash = documents[u].hash
        /\ documents'[u].unindexed = documents[u].unindexed
    BY <1>0, <1>5 DEF RowEmbedded, RowBackfilled, Document
  <2>2. QED
    BY <2>1 DEF Invalidated
<1>6. QED
  BY <1>0, <1>1, <1>2, <1>3, <1>4, <1>5, RowStep

\* When the stages take turns and no two transactions record one URL, a change of
\* content, or a page coming back from eviction, clears the row's stamp and its receipt
\* in the step that commits it (provenance.ts, recordFetch).  Both hypotheses are needed:
\* a pass or a second handler that commits between the two readings of the row is not
\* cleared.
THEOREM ChangeClears ==
  ASSUME StagesOverlap = FALSE
  PROVE  Spec /\ []Exclusive => ChangeInvalidates
<1>1. HandlerInv /\ OpenStamps /\ [Next]_vars =>
        [\A u \in Urls : Invalidated(u)]_documents
  BY InvalidatedStep
<1>2. [\A u \in Urls : Invalidated(u)]_documents =>
        [\A u \in Urls :
           \/ documents'[u].hash # documents[u].hash
           \/ documents[u].unindexed /\ ~documents'[u].unindexed
           => ~documents'[u].embedded /\ documents'[u].uid = None]_documents
  BY DEF Invalidated
<1>3. QED
  BY <1>1, <1>2, HandlerInvariant, OpenStampsInvariant, PTL DEF Spec, ChangeInvalidates

(***************************************************************************)
(* The bill.  Every fetch has a stamp of its own, so what is owed a        *)
(* receipt under a new stamp has not been sent yet; and what is owed one,  *)
(* or waits in the run, has been sent once at most for each fault.         *)
(***************************************************************************)
StampsPast == \A u \in Urls : \A k \in DOMAIN fetchLog[u] : fetchLog[u][k].at <= clock

StampFresh(w) ==
  /\ fetching[w].at <= clock
  /\ \A v \in Crawlers \ {w} : fetching[v] # Idle => fetching[v].at # fetching[w].at
  /\ \A u \in Urls : \A k \in DOMAIN fetchLog[u] : fetchLog[u][k].at # fetching[w].at

StampsInv == StampsPast /\ \A w \in Crawlers : fetching[w] # Idle => StampFresh(w)

\* What a step does to the handlers and the clock.
LEMMA StampStep ==
  ASSUME TypeInv, [Next]_vars, NEW w \in Crawlers, fetching'[w] # Idle
  PROVE  \/ /\ fetching[w] # Idle
            /\ fetching'[w].at = fetching[w].at
         \/ /\ clock' = clock + 1
            /\ fetching'[w].at = clock + 1
            /\ fetchLog' = fetchLog
            /\ \A v \in Crawlers \ {w} : fetching'[v] = fetching[v]
<1> DEFINE Goal == \/ /\ fetching[w] # Idle
                      /\ fetching'[w].at = fetching[w].at
                   \/ /\ clock' = clock + 1
                      /\ fetching'[w].at = clock + 1
                      /\ fetchLog' = fetchLog
                      /\ \A v \in Crawlers \ {w} : fetching'[v] = fetching[v]
<1>0. fetching \in [Crawlers -> {Idle} \cup Fetched \cup Opened]
  BY DEF TypeInv, TypeOK
<1>1. ASSUME NEW v \in Crawlers, Crawl(v) PROVE Goal
  <2>1. ASSUME NEW i \in Indexes, NEW u \in Urls, Fetch(v, i, u) PROVE Goal
    <3>1. PICK result \in Contents \cup {Thin, Failed} :
            fetching' = [fetching EXCEPT ![v] =
              [stage |-> "fetched", url |-> u, index |-> i, result |-> result,
               at |-> clock + 1]]
      BY <2>1 DEF Fetch
    <3>2. v = w => fetching'[w].at = clock + 1
      BY <1>0, <3>1
    <3>3. v # w => fetching'[w] = fetching[w]
      BY <1>0, <3>1
    <3>4. QED
      BY <1>0, <2>1, <3>1, <3>2, <3>3 DEF Fetch
  <2>2. CASE OpenRecord(v)
    <3>1. fetching[v].stage = "fetched" /\ Idle.stage # "fetched"
      BY <2>2 DEF OpenRecord, Idle
    <3>2. v = w => fetching'[w].at = fetching[w].at
      BY <1>0, <2>2 DEF OpenRecord
    <3>3. v # w => fetching'[w] = fetching[w]
      BY <1>0, <2>2 DEF OpenRecord
    <3>4. QED
      BY <3>1, <3>2, <3>3
  <2>3. CASE LoadRow(v)
    <3>1. fetching[v].stage = "opened" /\ Idle.stage # "opened"
      BY <2>3 DEF LoadRow, Idle
    <3>2. v = w => fetching'[w].at = fetching[w].at
      <4>1. fetching[v] \in Opened
        BY <1>0, <3>1, JobStage
      <4>2. fetching'[v] = [fetching[v] EXCEPT !.loaded = documents[fetching[v].url]]
        BY <1>0, <2>3 DEF LoadRow
      <4>3. QED
        BY <4>1, <4>2 DEF Opened
    <3>3. v # w => fetching'[w] = fetching[w]
      BY <1>0, <2>3 DEF LoadRow
    <3>4. QED
      BY <3>1, <3>2, <3>3
  <2>4. CASE RecordContent(v) \/ RecordSkip(v) \/ RecordFailure(v) \/ LoseFetch(v)
    <3>1. fetching' = [fetching EXCEPT ![v] = Idle]
      BY <2>4 DEF RecordContent, RecordSkip, RecordFailure, LoseFetch
    <3>2. QED
      BY <1>0, <3>1
  <2>5. QED
    BY <1>1, <2>1, <2>2, <2>3, <2>4 DEF Crawl
<1>2. CASE UNCHANGED fetching
  BY <1>2
<1>3. QED
  BY <1>1, <1>2 DEF Next, vars, Embed, EmbedSelect, EmbedDocument, LoseEmbed, Attest,
     AttestSelect, Submit, Refuse, Timeout, Settle, Backfill, CrashAttester, Land

\* A stamp in the trail was there, or is that of a fetch that is done with.
LEMMA LoggedStamp ==
  ASSUME TypeInv, [Next]_vars, NEW u \in Urls, NEW k \in DOMAIN fetchLog'[u]
  PROVE  \/ k \in DOMAIN fetchLog[u] /\ fetchLog'[u][k] = fetchLog[u][k]
         \/ \E w \in Crawlers : /\ Handled(w, u)
                               /\ fetchLog'[u][k].at = fetching[w].at
<1>1. fetchLog[u] \in Seq(LogRow)
  BY DEF TypeInv, TypeOK
<1>2. CASE fetchLog'[u] = fetchLog[u]
  BY <1>2
<1>3. ASSUME NEW w \in Crawlers,
             ContentSaved(w, u) \/ PageSkipped(w, u) \/ FailureNoted(w, u)
      PROVE  \/ k \in DOMAIN fetchLog[u] /\ fetchLog'[u][k] = fetchLog[u][k]
             \/ Handled(w, u) /\ fetchLog'[u][k].at = fetching[w].at
  <2>1. Handled(w, u)
    BY <1>3 DEF ContentSaved, PageSkipped, FailureNoted
  <2>2. PICK row \in LogRow : /\ fetchLog'[u] = Append(fetchLog[u], row)
                              /\ row.at = fetching[w].at
    BY <1>3, HandledRow
  <2>3. \/ k \in DOMAIN fetchLog[u] /\ fetchLog'[u][k] = fetchLog[u][k]
        \/ fetchLog'[u][k] = row
    BY <1>1, <2>2, AppendedLog
  <2>4. QED
    BY <2>1, <2>2, <2>3
<1>4. QED
  BY <1>2, <1>3, RowStep DEF SameRow, RowEmbedded, RowBackfilled

LEMMA LoggedAt ==
  ASSUME TypeInv, NEW u \in Urls, NEW k \in DOMAIN fetchLog[u]
  PROVE  fetchLog[u][k].at \in Nat
<1>1. fetchLog[u] \in Seq(LogRow)
  BY DEF TypeInv, TypeOK
<1>2. fetchLog[u][k] \in LogRow
  BY <1>1
<1>3. QED
  BY <1>2, ConstantsAssumption DEF LogRow, Time

LEMMA ClockStep ==
  ASSUME TypeInv, [Next]_vars
  PROVE  clock' = clock \/ clock' = clock + 1
BY DEF Next, vars, Crawl, Fetch, OpenRecord, LoadRow, RecordContent, RecordSkip, RecordFailure,
   LoseFetch, Embed, EmbedSelect, EmbedDocument, LoseEmbed, Attest, AttestSelect, Submit,
   Refuse, Timeout, Settle, Backfill, CrashAttester, Land

LEMMA StampsStep ==
  ASSUME TypeInv, StampsInv, [Next]_vars
  PROVE  StampsInv'
<1>0. /\ clock \in Nat /\ clock' \in Nat /\ clock <= clock'
      /\ \A u \in Urls : fetchLog[u] \in Seq(LogRow)
      /\ \A w \in Crawlers : fetching[w] # Idle => fetching[w].at \in Nat
  BY ClockStep, ConstantsAssumption DEF TypeInv, TypeOK, Time, Fetched, Opened
<1>1. ASSUME NEW u \in Urls, NEW k \in DOMAIN fetchLog'[u] PROVE fetchLog'[u][k].at <= clock'
  <2>1. CASE k \in DOMAIN fetchLog[u] /\ fetchLog'[u][k] = fetchLog[u][k]
    <3>1. fetchLog[u][k].at \in Nat /\ fetchLog[u][k].at <= clock
      BY <2>1, LoggedAt DEF StampsInv, StampsPast
    <3>2. QED
      BY <1>0, <2>1, <3>1
  <2>2. ASSUME NEW w \in Crawlers, Handled(w, u), fetchLog'[u][k].at = fetching[w].at
        PROVE  fetchLog'[u][k].at <= clock'
    <3>1. fetching[w] # Idle
      BY <2>2 DEF Handled, Opened, Idle
    <3>2. QED
      BY <1>0, <2>2, <3>1 DEF StampsInv, StampFresh
  <2>3. QED
    BY <2>1, <2>2, LoggedStamp
<1>2. ASSUME NEW w \in Crawlers, fetching'[w] # Idle PROVE StampFresh(w)'
  <2>1. CASE fetching[w] # Idle /\ fetching'[w].at = fetching[w].at
    <3>0. StampFresh(w) /\ fetching[w].at \in Nat
      BY <1>0, <2>1 DEF StampsInv
    <3>1. fetching'[w].at <= clock'
      BY <1>0, <2>1, <3>0 DEF StampFresh
    <3>2. ASSUME NEW v \in Crawlers \ {w}, fetching'[v] # Idle
          PROVE  fetching'[v].at # fetching'[w].at
      BY <1>0, <2>1, <3>0, <3>2, StampStep DEF StampFresh
    <3>3. ASSUME NEW u \in Urls, NEW k \in DOMAIN fetchLog'[u]
          PROVE  fetchLog'[u][k].at # fetching'[w].at
      <4>1. ASSUME NEW v \in Crawlers, Handled(v, u), fetchLog'[u][k].at = fetching[v].at
            PROVE  fetching[v].at # fetching'[w].at
        <5>1. fetching[v] # Idle /\ v # w
          BY <1>2, <4>1 DEF Handled, Opened, Idle
        <5>2. QED
          BY <2>1, <3>0, <5>1 DEF StampFresh
      <4>2. QED
        BY <2>1, <3>0, <4>1, LoggedStamp DEF StampFresh
    <3>4. QED
      BY <3>1, <3>2, <3>3 DEF StampFresh
  <2>2. CASE /\ clock' = clock + 1
             /\ fetching'[w].at = clock + 1
             /\ fetchLog' = fetchLog
             /\ \A v \in Crawlers \ {w} : fetching'[v] = fetching[v]
    <3>1. ASSUME NEW v \in Crawlers \ {w}, fetching'[v] # Idle
          PROVE  fetching'[v].at # fetching'[w].at
      BY <1>0, <2>2, <3>1 DEF StampsInv, StampFresh
    <3>2. ASSUME NEW u \in Urls, NEW k \in DOMAIN fetchLog'[u]
          PROVE  fetchLog'[u][k].at # fetching'[w].at
      <4>1. fetchLog[u][k].at <= clock /\ fetchLog[u][k].at \in Nat
        BY <2>2, LoggedAt DEF StampsInv, StampsPast
      <4>2. QED
        BY <1>0, <2>2, <4>1
    <3>3. QED
      BY <1>0, <2>2, <3>1, <3>2 DEF StampFresh
  <2>3. QED
    BY <1>2, <2>1, <2>2, StampStep
<1>3. QED
  BY <1>1, <1>2 DEF StampsInv, StampsPast

\* The transactions that pay for the fetch of u at this time; whether the run holds
\* it, has it in the batch it sent, and whether its document is owed a receipt.
Asks(r, u, at) == r.url = u /\ r.at = at

Paying(u, at) == {i \in 1..Len(txs) : \E r \in txs[i].requests : Asks(r, u, at)}

Queued(u, at) == attest.pc # "idle" /\ \E r \in attest.pending : Asks(r, u, at)

Sent(u, at) ==
  attest.pc \in {"wait", "backfill"} /\ \E r \in attest.batch : Asks(r, u, at)

Owing(u, at) ==
  Exists(u) /\ documents[u].uid = None /\ documents[u].fetchedAt = at

Due(u, at) == (Queued(u, at) \/ Owing(u, at)) /\ ~Sent(u, at)

OncePending ==
  attest.pc # "idle" => \A r, q \in attest.pending : r.url = q.url => r = q

Billed(u, at) ==
  /\ Cardinality(Paying(u, at)) <= 1 + faults
  /\ Due(u, at) => Cardinality(Paying(u, at)) <= faults

BillInv == OncePending /\ \A u \in Urls, at \in Time : Billed(u, at)

LEMMA PayingFinite ==
  ASSUME TypeInv, NEW u, NEW at
  PROVE  /\ Paying(u, at) \subseteq 1..Len(txs)
         /\ IsFiniteSet(Paying(u, at))
         /\ Cardinality(Paying(u, at)) \in Nat
<1>1. Len(txs) \in Nat
  BY DEF TypeInv, TypeOK
<1>2. Paying(u, at) \subseteq 1..Len(txs)
  BY DEF Paying
<1>3. IsFiniteSet(1..Len(txs))
  BY <1>1, FS_Interval
<1>4. QED
  BY <1>2, <1>3, FS_Subset, FS_CardinalityType

\* A step leaves the bill of a fetch as it is, or submits a batch with it.
LEMMA PaidStep ==
  ASSUME TypeInv, [Next]_vars, NEW u, NEW at
  PROVE  \/ Paying(u, at)' = Paying(u, at)
         \/ /\ Submit
            /\ \E r \in attest'.batch : Asks(r, u, at)
            /\ Cardinality(Paying(u, at)') = Cardinality(Paying(u, at)) + 1
<1>0. /\ Len(txs) \in Nat /\ Len(txs') \in Nat
      /\ 1..Len(txs) \subseteq 1..Len(txs')
      /\ \A i \in 1..Len(txs) : txs'[i].requests = txs[i].requests
      /\ \A i \in 1..Len(txs') : i \notin 1..Len(txs) =>
           Submit /\ i = Len(txs) + 1 /\ txs'[i].requests = attest'.batch
  BY TxsKept
<1>1. \A i \in 1..Len(txs) : i \in Paying(u, at)' <=> i \in Paying(u, at)
  BY <1>0 DEF Paying
<1>2. Paying(u, at) \subseteq Paying(u, at)'
  BY <1>1 DEF Paying
<1>3. CASE Paying(u, at)' \subseteq 1..Len(txs)
  BY <1>1, <1>2, <1>3
<1>4. ASSUME NEW i \in Paying(u, at)', i \notin 1..Len(txs)
      PROVE  /\ Submit
             /\ \E r \in attest'.batch : Asks(r, u, at)
             /\ Cardinality(Paying(u, at)') = Cardinality(Paying(u, at)) + 1
  <2>1. /\ Submit /\ i = Len(txs) + 1
        /\ \E r \in attest'.batch : Asks(r, u, at)
    BY <1>0, <1>4 DEF Paying
  <2>2. \A j \in Paying(u, at)' : j \in Paying(u, at) \/ j = i
    <3>1. ASSUME NEW j \in Paying(u, at)' PROVE j \in Paying(u, at) \/ j = i
      <4>1. j \in 1..Len(txs')
        BY DEF Paying
      <4>2. QED
        BY <1>0, <1>1, <2>1, <4>1
    <3>2. QED
      BY <3>1
  <2>3. Paying(u, at)' = Paying(u, at) \cup {i}
    BY <1>2, <1>4, <2>2
  <2>4. i \notin Paying(u, at)
    BY <1>4 DEF Paying
  <2>5. Cardinality(Paying(u, at) \cup {i}) = Cardinality(Paying(u, at)) + 1
    BY <2>4, PayingFinite, FS_AddElement
  <2>6. QED
    BY <2>1, <2>3, <2>5, PayingFinite
<1>5. QED
  BY <1>3, <1>4

\* Nothing was paid yet for a fetch still being recorded.
LEMMA FreshUnpaid ==
  ASSUME TypeInv, Signed, StampsInv, NEW w \in Crawlers, fetching[w] # Idle, NEW u \in Urls
  PROVE  Paying(u, fetching[w].at) = {}
<1> SUFFICES ASSUME NEW i \in 1..Len(txs), NEW r \in txs[i].requests,
                    r.url = u, r.at = fetching[w].at
             PROVE  FALSE
  BY DEF Paying, Asks
<1>1. \E k \in DOMAIN fetchLog[u] : fetchLog[u][k].at = fetching[w].at
  BY DEF Signed, Traced, SeenAt
<1>2. QED
  BY <1>1 DEF StampsInv, StampFresh

LEMMA OwingStep ==
  ASSUME TypeInv, Signed, StampsInv, [Next]_vars, NEW u \in Urls, NEW at, Owing(u, at)'
  PROVE  Owing(u, at) \/ Paying(u, at) = {}
<1>0. documents[u] \in Document /\ Len(txs) \in Nat
  BY DEF TypeInv, TypeOK
<1>1. CASE SameRow(u)
  BY <1>1 DEF SameRow, Owing, Exists
<1>2. ASSUME NEW w \in Crawlers, ContentSaved(w, u) PROVE Paying(u, at) = {}
  <2>1. fetching[w] # Idle /\ fetching[w] \in Opened
    BY <1>2 DEF ContentSaved, Handled, Opened, Idle
  <2>2. at = fetching[w].at
    BY <1>0, <1>2, <2>1, SavedStamps DEF ContentSaved, Owing
  <2>3. QED
    BY <2>1, <2>2, FreshUnpaid
<1>3. ASSUME NEW w \in Crawlers, PageSkipped(w, u) \/ FailureNoted(w, u) PROVE Owing(u, at)
  BY <1>0, <1>3 DEF PageSkipped, FailureNoted, Owing, Exists, Document
<1>4. ASSUME NEW e \in Embedders, NEW r \in embedding[e], RowEmbedded(r, u)
      PROVE  Owing(u, at)
  BY <1>0, <1>4 DEF RowEmbedded, Owing, Exists, Document
<1>5. ASSUME NEW r \in attest.batch, RowBackfilled(r, u) PROVE FALSE
  <2>1. documents'[u].uid = <<Len(txs), u>>
    BY <1>0, <1>5 DEF RowBackfilled, Document
  <2>2. <<Len(txs), u>> \in Nat \X Urls
    BY <1>0
  <2>3. QED
    BY <2>1, <2>2, ConstantsAssumption DEF Owing
<1>6. QED
  BY <1>0, <1>1, <1>2, <1>3, <1>4, <1>5, RowStep

\* The row that is backfilled was pending once: the run no longer holds its URL.
LEMMA BackfilledStep ==
  ASSUME TypeInv, Signed, StampsInv, OncePending, [Next]_vars,
         NEW r \in attest.batch, Backfill(r), NEW u \in Urls, NEW at, Due(u, at)'
  PROVE  Due(u, at) \/ Paying(u, at) = {}
<1>0. /\ attest \in Run /\ NotRunning.pc = "idle"
      /\ r \in attest.pending /\ attest.batch \subseteq attest.pending
      /\ documents \in [Urls -> Document] /\ Len(txs) \in Nat
  BY DEF TypeInv, TypeOK, RunFinite, Run, NotRunning
<1>1. attest.pc = "backfill" /\ documents' = [documents EXCEPT ![r.url].uid = <<Len(txs), r.url>>]
  BY DEF Backfill
<1>2. r.url # u
  <2> SUFFICES ASSUME r.url = u PROVE FALSE
    OBVIOUS
  <2>1. ~Owing(u, at)'
    <3>1. documents'[u].uid = <<Len(txs), u>>
      BY <1>0, <1>1 DEF Document
    <3>2. <<Len(txs), u>> \in Nat \X Urls
      BY <1>0
    <3>3. QED
      BY <3>1, <3>2, ConstantsAssumption DEF Owing
  <2>2. PICK q \in attest'.pending : attest'.pc # "idle" /\ q.url = u
    BY <2>1 DEF Due, Queued, Asks
  <2>3. q \in attest.pending \ {r}
    BY <1>0, <2>2 DEF Backfill, Run
  <2>4. QED
    BY <1>0, <1>1, <2>2, <2>3 DEF OncePending
<1>3. Queued(u, at)' => Queued(u, at)
  <2>1. attest'.pc # "idle" => attest'.pending \subseteq attest.pending
    BY <1>0 DEF Backfill, Run
  <2>2. QED
    BY <1>1, <2>1 DEF Queued
<1>4. ASSUME Sent(u, at) PROVE Sent(u, at)'
  <2>1. PICK q \in attest.batch : Asks(q, u, at)
    BY <1>4 DEF Sent
  <2>2. q # r /\ q \in attest.pending
    BY <1>0, <1>2, <2>1 DEF Asks
  <2>3. q \in attest.batch \ {r} /\ q \in attest.pending \ {r}
    BY <2>1, <2>2
  <2>4. attest' = [attest EXCEPT !.pending = attest.pending \ {r},
                                 !.batch = attest.batch \ {r},
                                 !.pc = attest.pc]
    BY <2>3 DEF Backfill
  <2>5. attest'.pc = "backfill" /\ attest'.batch = attest.batch \ {r}
    BY <1>0, <1>1, <2>4 DEF Run
  <2>6. QED
    BY <2>1, <2>3, <2>5 DEF Sent
<1>5. QED
  BY <1>3, <1>4, OwingStep DEF Due

\* What is due was due before, has just been fetched, or a fault let it go.
LEMMA DueStep ==
  ASSUME TypeInv, Signed, StampsInv, OncePending, [Next]_vars,
         NEW u \in Urls, NEW at, Due(u, at)'
  PROVE  Due(u, at) \/ Paying(u, at) = {} \/ faults' = faults + 1
<1>0. attest \in Run /\ Owing(u, at)' => Owing(u, at) \/ Paying(u, at) = {}
  BY OwingStep DEF TypeInv, TypeOK, Run
<1>1. CASE UNCHANGED attest
  BY <1>1, OwingStep DEF Due, Queued, Sent
<1>2. ASSUME NEW s \in Indexes \cup {WholeStore}, AttestSelect(s)
      PROVE  Due(u, at) \/ Paying(u, at) = {}
  <2>1. ~Sent(u, at)
    BY <1>2 DEF AttestSelect, Sent
  <2>2. ASSUME NEW q \in attest'.pending, Asks(q, u, at) PROVE Owing(u, at)
    <3>1. q \in Unattested(s)
      BY <1>2 DEF AttestSelect
    <3>2. QED
      BY <2>2, <3>1 DEF Unattested, Owing, Asks
  <2>3. QED
    BY <2>1, <2>2, OwingStep DEF Due, Queued
<1>3. CASE Submit
  <2>1. /\ attest.pc = "submit" /\ attest'.pending = attest.pending
    BY <1>3 DEF Submit, TypeInv, TypeOK
  <2>2. QED
    BY <2>1, OwingStep DEF Due, Queued, Sent
<1>4. CASE Settle
  <2>1. /\ attest.pc = "wait" /\ attest'.pc = "backfill"
        /\ attest'.pending = attest.pending /\ attest'.batch = attest.batch
    BY <1>4 DEF Settle, TypeInv, TypeOK
  <2>2. QED
    BY <2>1, OwingStep DEF Due, Queued, Sent
<1>5. ASSUME NEW r \in attest.batch, Backfill(r) PROVE Due(u, at) \/ Paying(u, at) = {}
  BY <1>5, BackfilledStep
<1>6. CASE Refuse \/ Timeout \/ CrashAttester
  BY <1>6 DEF Refuse, Timeout, CrashAttester, Fault
<1>7. QED
  BY <1>1, <1>2, <1>3, <1>4, <1>5, <1>6 DEF Next, vars, Crawl, Fetch, OpenRecord, LoadRow,
     RecordContent, RecordSkip, RecordFailure, LoseFetch, Embed, EmbedSelect,
     EmbedDocument, LoseEmbed, Attest, Land

LEMMA FaultsStep ==
  ASSUME TypeInv, [Next]_vars
  PROVE  /\ faults \in Nat
         /\ faults' = faults \/ faults' = faults + 1
         /\ Submit => faults' = faults
<1>1. faults \in Nat
  <2>1. faults \in 0..MaxFaults
    BY DEF TypeInv, TypeOK
  <2>2. QED
    BY <2>1, ConstantsAssumption
<1>2. Submit => faults' = faults
  BY DEF Submit
<1>3. QED
  BY <1>1, <1>2 DEF Next, vars, Crawl, Fetch, OpenRecord, LoadRow, RecordContent, RecordSkip,
     RecordFailure, LoseFetch, Embed, EmbedSelect, EmbedDocument, LoseEmbed, Attest,
     AttestSelect, Refuse, Timeout, Settle, Backfill, CrashAttester, Land, Fault

LEMMA BilledStep ==
  ASSUME TypeInv, Signed, StampsInv, BillInv, [Next]_vars, NEW u \in Urls, NEW at \in Time
  PROVE  Billed(u, at)'
<1> DEFINE n == Cardinality(Paying(u, at))
<1>0. n \in Nat /\ n <= 1 + faults /\ (Due(u, at) => n <= faults)
  BY PayingFinite DEF BillInv, Billed
<1>1. CASE Paying(u, at)' = Paying(u, at)
  <2>1. Cardinality(Paying(u, at))' = n
    BY <1>1
  <2>2. Paying(u, at) = {} => n = 0
    BY FS_EmptySet
  <2>3. Due(u, at)' => n <= faults'
    <3> HIDE DEF n
    <3>1. CASE faults' = faults + 1
      BY <1>0, <3>1, FaultsStep
    <3>2. CASE faults' # faults + 1
      BY <1>0, <2>2, <3>2, FaultsStep, DueStep DEF BillInv
    <3>3. QED
      BY <3>1, <3>2
  <2>4. n <= 1 + faults'
    <3> HIDE DEF n
    <3>1. QED
      BY <1>0, FaultsStep
  <2>5. QED
    BY <2>1, <2>3, <2>4 DEF Billed
<1>2. CASE /\ Submit
           /\ \E r \in attest'.batch : Asks(r, u, at)
           /\ Cardinality(Paying(u, at)') = n + 1
  <2>1. /\ attest.pc = "submit" /\ attest'.pc = "wait"
        /\ attest'.batch \subseteq attest.pending
    <3>1. PICK b \in Batches : attest' = [attest EXCEPT !.pc = "wait", !.batch = b]
      BY <1>2 DEF Submit
    <3>2. QED
      BY <1>2, <3>1 DEF Submit, Batches, TypeInv, TypeOK
  <2>2. Due(u, at)
    BY <1>2, <2>1 DEF Due, Queued, Sent
  <2>3. ~Due(u, at)'
    BY <1>2, <2>1 DEF Due, Sent
  <2>4. faults' = faults
    BY <1>2, FaultsStep
  <2>5. Cardinality(Paying(u, at)') <= 1 + faults'
    <3> HIDE DEF n
    <3>1. QED
      BY <1>0, <1>2, <2>2, <2>4, FaultsStep
  <2>6. QED
    BY <2>3, <2>5 DEF Billed
<1>3. QED
  BY <1>1, <1>2, PaidStep

LEMMA OncePendingStep ==
  ASSUME TypeInv, OncePending, [Next]_vars
  PROVE  OncePending'
<1>1. ASSUME Attest, attest'.pc # "idle", NEW r \in attest'.pending, NEW q \in attest'.pending,
             r.url = q.url
      PROVE  r = q
  <2>1. CASE attest.pc # "idle" /\ attest'.pending \subseteq attest.pending
    BY <1>1, <2>1 DEF OncePending
  <2>2. ASSUME NEW s \in Indexes \cup {WholeStore}, attest'.pending = Unattested(s)
        PROVE  r = q
    BY <1>1, <2>2 DEF Unattested
  <2>3. QED
    BY <1>1, <2>1, <2>2, PendingFrom
<1>2. CASE UNCHANGED attest
  BY <1>2 DEF OncePending
<1>3. QED
  BY <1>1, <1>2 DEF OncePending, Next, vars, Crawl, Fetch, OpenRecord, LoadRow, RecordContent,
     RecordSkip, RecordFailure, LoseFetch, Embed, EmbedSelect, EmbedDocument, LoseEmbed,
     Land

LEMMA InitBill == Init => StampsInv /\ BillInv
<1> SUFFICES ASSUME Init PROVE StampsInv /\ BillInv
  OBVIOUS
<1>1. StampsInv
  BY DEF Init, StampsInv, StampsPast
<1>2. OncePending
  BY DEF Init, OncePending, NotRunning
<1>3. ASSUME NEW u \in Urls, NEW at \in Time PROVE Billed(u, at)
  <2>1. Paying(u, at) = {}
    BY DEF Init, Paying
  <2>2. Cardinality(Paying(u, at)) = 0
    BY <2>1, FS_EmptySet
  <2>3. QED
    BY <2>2 DEF Billed, Init
<1>4. QED
  BY <1>1, <1>2, <1>3 DEF BillInv

\* However its runs are cut short, halved and repeated, the attester pays for a fetch
\* once, and once more at most for each fault, for any number of handlers and passes
\* (attestor.ts, attestPending: a rerun selects only what is still owed a receipt).
THEOREM BillHolds == Spec => []BillBounded
<1>1. TrailInv /\ StampsInv /\ BillInv /\ [Next]_vars => (StampsInv /\ BillInv)'
  <2> SUFFICES ASSUME TrailInv, StampsInv, BillInv, [Next]_vars
               PROVE  (StampsInv /\ BillInv)'
    OBVIOUS
  <2>1. TypeInv /\ Signed
    BY DEF TrailInv, Explained
  <2>2. OncePending'
    BY <2>1, OncePendingStep DEF BillInv
  <2>3. \A u \in Urls, at \in Time : Billed(u, at)'
    BY <2>1, BilledStep
  <2>4. Time' = Time /\ Urls' = Urls
    BY DEF Time
  <2>5. QED
    BY <2>1, <2>2, <2>3, <2>4, StampsStep DEF BillInv
<1>2. BillInv => BillBounded
  BY DEF BillInv, Billed, Paying, Asks, BillBounded
<1>3. QED
  BY <1>1, <1>2, InitBill, TrailInvariant, PTL DEF Spec
=============================================================================
