------------------------------ MODULE Pipeline ------------------------------
(***************************************************************************)
(* The store of documents and the three passes that share it: the crawler  *)
(* records fetches (crawl/provenance.ts), the embed pass rebuilds the      *)
(* chunks search reads (embed/embed.ts), and the attestor writes receipts  *)
(* on chain and backfills their UIDs (attest/attestor.ts).  No pass holds  *)
(* a lock across an await: each takes a snapshot of the rows it owes work  *)
(* to, waits on the network, and writes back by document id.  The crawler  *)
(* reads the row it records twice, itself and in TypeORM's save, which     *)
(* then writes the columns that differ from the second reading.            *)
(*                                                                         *)
(* A content is identified with its content_hash; a fetch is identified    *)
(* with its fetched_at, which also stands for its raw_hash.  embedded_at   *)
(* and unindexed_at are read only as null or not null, so each is a        *)
(* Boolean here.                                                           *)
(***************************************************************************)
EXTENDS Integers, Sequences, FiniteSets

CONSTANTS
  Urls,           \* URLs the crawl may reach
  Contents,       \* canonical contents (content hashes) a page may yield
  HeadingsOnly,   \* the contents the chunker finds no passage in
  Indexes,        \* indexes a crawl may be run for
  WholeStore,     \* the scope of a pass run without an index
  Crawlers,       \* request handlers that may be recording a fetch at once
  Embedders,      \* processes that may be running an embed pass at once
  BatchSize,      \* attestations per transaction, before any halving
  StagesOverlap,  \* TRUE: workers, nightly pipeline and attester run at once
  None,           \* SQL null
  MaxFetches,     \* bound: fetches in a behaviour
  MaxFaults       \* bound: crashes, refused batches, timeouts, failed embeds

ASSUME ConstantsAssumption ==
  /\ IsFiniteSet(Urls)
  /\ HeadingsOnly \subseteq Contents
  /\ WholeStore \notin Indexes
  /\ None \notin Contents \cup (Nat \X Urls)
  /\ BatchSize \in Nat \ {0}
  /\ StagesOverlap \in BOOLEAN
  /\ MaxFetches \in Nat
  /\ MaxFaults \in Nat

VARIABLES
  documents,  \* documents row of each URL; hash = None where there is none
  chunks,     \* the content each URL's chunks were cut from, or None
  fetchLog,   \* fetch_log rows of each URL, in commit order
  members,    \* index_documents
  fetching,   \* the fetch each request handler is recording
  embedding,  \* the documents each embed pass has read and not written back
  attest,     \* the attester's run
  txs,        \* the transactions the attester sent to the chain
  clock,      \* fetches so far
  faults      \* faults so far

vars == <<documents, chunks, fetchLog, members, fetching, embedding, attest,
          txs, clock, faults>>

-----------------------------------------------------------------------------
(* Rows, snapshots and what a fetch may come back with.                    *)

Thin   == "thin"    \* canonicalize skipped the page
Failed == "failed"  \* an error status, a body that is no page, no response

Time == 0..MaxFetches
Uid  == (Nat \X Urls) \cup {None}

Document == [hash      : Contents \cup {None},
             fetchedAt : Time,
             unindexed : BOOLEAN,
             embedded  : BOOLEAN,
             uid       : Uid]

NoDocument == [hash |-> None, fetchedAt |-> 0, unindexed |-> FALSE,
               embedded |-> FALSE, uid |-> None]

Exists(u) == documents[u].hash # None

LogRow == [kind    : {"content", Thin, Failed},
           hash    : Contents \cup {None},
           changed : BOOLEAN,
           at      : Time]

\* What the attestor selects of a document, and what a receipt commits to.
Request == [url : Urls, hash : Contents, at : Time]

\* What the embed pass selects of a document.
Reading == [url : Urls, hash : Contents]

Idle == [stage |-> "idle"]

Fetched == [stage : {"fetched"}, url : Urls, index : Indexes,
            result : Contents \cup {Thin, Failed}, at : Time]

\* existing is what findOne returned, loaded what save has read since.
Opened == [stage : {"opened"}, url : Urls, index : Indexes,
           result : Contents \cup {Thin, Failed}, at : Time,
           existing : Document, loaded : Document]

Scope(s) == IF s = WholeStore THEN Urls ELSE members[s]

CrawlIdle  == \A w \in Crawlers : fetching[w] = Idle
EmbedIdle  == \A e \in Embedders : embedding[e] = {}
AttestIdle == attest.pc = "idle"

\* Mutant of NotRunning: the batch size has lost its default.
NotRunningNoSize == [pc |-> "idle", pending |-> {}, size |-> None, batch |-> {}]

\* The attester between runs.
NotRunning == [pc |-> "idle", pending |-> {}, size |-> BatchSize, batch |-> {}]

Init ==
  /\ documents = [u \in Urls |-> NoDocument]
  /\ chunks = [u \in Urls |-> None]
  /\ fetchLog = [u \in Urls |-> <<>>]
  /\ members = [i \in Indexes |-> {}]
  /\ fetching = [w \in Crawlers |-> Idle]
  /\ embedding = [e \in Embedders |-> {}]
  /\ attest = NotRunning
  /\ txs = <<>>
  /\ clock = 0
  /\ faults = 0

Fault ==
  /\ faults < MaxFaults
  /\ faults' = faults + 1

-----------------------------------------------------------------------------
(* The crawler: a request handler receives a page, opens a transaction by  *)
(* reading the row its URL has, and commits what it concludes from it.     *)

Fetch(w, i, u) ==
  /\ StagesOverlap \/ (EmbedIdle /\ AttestIdle)
  /\ fetching[w] = Idle
  /\ clock < MaxFetches
  /\ clock' = clock + 1
  /\ \E result \in Contents \cup {Thin, Failed} :
       fetching' = [fetching EXCEPT ![w] =
         [stage |-> "fetched", url |-> u, index |-> i, result |-> result,
          at |-> clock + 1]]
  /\ UNCHANGED <<documents, chunks, fetchLog, members, embedding, attest, txs,
                 faults>>

\* recordFetch and recordFailedFetch begin with findOne on the URL.
OpenRecord(w) ==
  /\ fetching[w].stage = "fetched"
  /\ fetching' = [fetching EXCEPT ![w] =
       [stage |-> "opened", url |-> @.url, index |-> @.index,
        result |-> @.result, at |-> @.at, existing |-> documents[@.url],
        loaded |-> NoDocument]]
  /\ UNCHANGED <<documents, chunks, fetchLog, members, embedding, attest, txs,
                 clock, faults>>

Log(u, kind, hash, changed, at) ==
  fetchLog' = [fetchLog EXCEPT ![u] =
    Append(@, [kind |-> kind, hash |-> hash, changed |-> changed, at |-> at])]

\* Mutants of ContentChanged: a returning page is judged by its hash alone; a
\* new page counts as changed.
ChangedByHashAlone(existing, hash) ==
  existing.hash # None /\ existing.hash # hash
ChangedFromNothing(existing, hash) ==
  existing.hash # hash \/ existing.unindexed

\* existing !== null && (contentHash differs || unindexedAt !== null)
ContentChanged(existing, hash) ==
  /\ existing.hash # None
  /\ existing.hash # hash \/ existing.unindexed

\* documents.save of an entity that carries an id selects the row it has before
\* anything is written.  The reading takes no lock.
LoadRow(w) ==
  /\ fetching[w].stage = "opened"
  /\ fetching[w].result \in Contents
  /\ fetching[w].existing.hash # None
  /\ fetching[w].loaded.hash = None
  /\ fetching' = [fetching EXCEPT ![w].loaded = documents[fetching[w].url]]
  /\ UNCHANGED <<documents, chunks, fetchLog, members, embedding, attest, txs,
                 clock, faults>>

\* A column is written if what was read of it is not what it is to be.
Written(stored, read, new) == IF read = new THEN stored ELSE new

\* The row of an insert: nothing is derived from it yet.
InsertedRow(job) ==
  [hash |-> job.result, fetchedAt |-> job.at, unindexed |-> FALSE,
   embedded |-> FALSE, uid |-> None]

\* Mutants of UpdatedRow: a change clears embedded_at but keeps the receipt; a
\* returning page keeps its stamp.
UpdatedRowKeepingReceipt(row, job) ==
  LET changed == ContentChanged(job.existing, job.result)
  IN  [hash      |-> Written(row.hash, job.loaded.hash, job.result),
       fetchedAt |-> job.at,
       unindexed |-> Written(row.unindexed, job.loaded.unindexed, FALSE),
       embedded  |-> IF changed THEN Written(row.embedded, job.loaded.embedded, FALSE)
                     ELSE row.embedded,
       uid       |-> row.uid]
UpdatedRowKeepingStamp(row, job) ==
  LET changed == ContentChanged(job.existing, job.result)
  IN  [hash      |-> Written(row.hash, job.loaded.hash, job.result),
       fetchedAt |-> job.at,
       unindexed |-> row.unindexed,
       embedded  |-> IF changed THEN Written(row.embedded, job.loaded.embedded, FALSE)
                     ELSE row.embedded,
       uid       |-> IF changed THEN Written(row.uid, job.loaded.uid, None)
                     ELSE row.uid]

\* The row of an update.  A changed document is to lose what was derived from the
\* content it had, an unchanged one keeps it; but what was null when save read it
\* is not written, and keeps what another pass has put there since.
UpdatedRow(row, job) ==
  LET changed == ContentChanged(job.existing, job.result)
  IN  [hash      |-> Written(row.hash, job.loaded.hash, job.result),
       fetchedAt |-> job.at,
       unindexed |-> Written(row.unindexed, job.loaded.unindexed, FALSE),
       embedded  |-> IF changed THEN Written(row.embedded, job.loaded.embedded, FALSE)
                     ELSE row.embedded,
       uid       |-> IF changed THEN Written(row.uid, job.loaded.uid, None)
                     ELSE row.uid]

SavedRow(row, job) ==
  IF job.existing.hash = None THEN InsertedRow(job) ELSE UpdatedRow(row, job)

\* recordFetch of a page with content, from the statement that writes its row to
\* the commit.  A row inserted since findOne makes the insert violate the unique
\* URL: the transaction is rolled back.
RecordContent(w) ==
  LET job == fetching[w] IN
  /\ job.stage = "opened"
  /\ job.result \in Contents
  /\ job.existing.hash = None \/ job.loaded.hash # None
  /\ fetching' = [fetching EXCEPT ![w] = Idle]
  /\ IF job.existing.hash = None /\ Exists(job.url)
     THEN UNCHANGED <<documents, fetchLog, members>>
     ELSE /\ documents' = [documents EXCEPT ![job.url] =
               SavedRow(@, job)]
          /\ Log(job.url, "content", job.result,
                 ContentChanged(job.existing, job.result), job.at)
          /\ members' = [members EXCEPT ![job.index] = @ \cup {job.url}]
  /\ UNCHANGED <<chunks, embedding, attest, txs, clock, faults>>

\* recordFetch of a page canonicalize skipped: an indexed document is stamped
\* and its chunks are dropped.
RecordSkip(w) ==
  LET job == fetching[w]
      evict == job.existing.hash # None /\ ~job.existing.unindexed
  IN
  /\ job.stage = "opened"
  /\ job.result = Thin
  /\ fetching' = [fetching EXCEPT ![w] = Idle]
  /\ Log(job.url, Thin, None, FALSE, job.at)
  /\ documents' = [documents EXCEPT ![job.url].unindexed = evict \/ @]
  /\ chunks' = [chunks EXCEPT ![job.url] = IF evict THEN None ELSE @]
  /\ UNCHANGED <<members, embedding, attest, txs, clock, faults>>

RecordFailure(w) ==
  LET job == fetching[w] IN
  /\ job.stage = "opened"
  /\ job.result = Failed
  /\ fetching' = [fetching EXCEPT ![w] = Idle]
  /\ Log(job.url, Failed, None, FALSE, job.at)
  /\ UNCHANGED <<documents, chunks, members, embedding, attest, txs, clock,
                 faults>>

\* The process dies, or the transaction fails: nothing of the fetch is kept.
LoseFetch(w) ==
  /\ Fault
  /\ fetching[w] # Idle
  /\ fetching' = [fetching EXCEPT ![w] = Idle]
  /\ UNCHANGED <<documents, chunks, fetchLog, members, embedding, attest, txs,
                 clock>>

-----------------------------------------------------------------------------
(* The embed pass.                                                         *)

Unembedded(s) ==
  {[url |-> u, hash |-> documents[u].hash] :
     u \in {v \in Scope(s) : Exists(v) /\ ~documents[v].embedded}}

EmbedSelect(e, s) ==
  /\ StagesOverlap \/ (CrawlIdle /\ EmbedIdle /\ AttestIdle)
  /\ embedding[e] = {}
  /\ Unembedded(s) # {}
  /\ embedding' = [embedding EXCEPT ![e] = Unembedded(s)]
  /\ UNCHANGED <<documents, chunks, fetchLog, members, fetching, attest, txs,
                 clock, faults>>

\* Mutants of EmbedDocument: the vectors of another document of the pass are
\* written; chunks that are there already are kept.
EmbedAnother(e, r) ==
  /\ r \in embedding[e]
  /\ embedding' = [embedding EXCEPT ![e] = @ \ {r}]
  /\ documents' = [documents EXCEPT ![r.url].embedded = TRUE]
  /\ \E other \in embedding[e] :
       chunks' = [chunks EXCEPT ![r.url] = other.hash]
  /\ UNCHANGED <<fetchLog, members, fetching, attest, txs, clock, faults>>
EmbedKeepingOld(e, r) ==
  /\ r \in embedding[e]
  /\ embedding' = [embedding EXCEPT ![e] = @ \ {r}]
  /\ documents' = [documents EXCEPT ![r.url].embedded = TRUE]
  /\ chunks' = [chunks EXCEPT ![r.url] = IF @ = None THEN r.hash ELSE @]
  /\ UNCHANGED <<fetchLog, members, fetching, attest, txs, clock, faults>>

\* One document of the pass, once its vectors are in: the chunks are replaced
\* wholesale and embedded_at is set by id.  A content without a passage skips
\* the transaction and sets embedded_at alone.
EmbedDocument(e, r) ==
  /\ r \in embedding[e]
  /\ embedding' = [embedding EXCEPT ![e] = @ \ {r}]
  /\ documents' = [documents EXCEPT ![r.url].embedded = TRUE]
  /\ chunks' = IF r.hash \in HeadingsOnly THEN chunks
               ELSE [chunks EXCEPT ![r.url] = r.hash]
  /\ UNCHANGED <<fetchLog, members, fetching, attest, txs, clock, faults>>

\* The embedder gives up, the transaction fails or the process dies: the rest
\* of the pass is lost with its readings.
LoseEmbed(e) ==
  /\ Fault
  /\ embedding[e] # {}
  /\ embedding' = [embedding EXCEPT ![e] = {}]
  /\ UNCHANGED <<documents, chunks, fetchLog, members, fetching, attest, txs,
                 clock>>

-----------------------------------------------------------------------------
(* The attester.  There is one (operations/wuzzy-attester.hcl); txs is what *)
(* the chain has seen of its account.                                      *)

\* Mutants of Unattested: documents that carry a receipt are selected again;
\* evicted documents are not asked for.
AttestedToo(s) ==
  {[url |-> u, hash |-> documents[u].hash, at |-> documents[u].fetchedAt] :
     u \in {v \in Scope(s) : Exists(v) /\ documents[v].embedded}}
UnattestedIndexed(s) ==
  {[url |-> u, hash |-> documents[u].hash, at |-> documents[u].fetchedAt] :
     u \in {v \in Scope(s) : /\ documents[v].uid = None
                             /\ documents[v].embedded
                             /\ ~documents[v].unindexed}}

Unattested(s) ==
  {[url |-> u, hash |-> documents[u].hash, at |-> documents[u].fetchedAt] :
     u \in {v \in Scope(s) : /\ Exists(v)
                             /\ documents[v].uid = None
                             /\ documents[v].embedded}}

AttestSelect(s) ==
  /\ StagesOverlap \/ (CrawlIdle /\ EmbedIdle)
  /\ attest.pc = "idle"
  /\ Unattested(s) # {}
  /\ attest' = [pc |-> "submit", pending |-> Unattested(s), size |-> BatchSize,
                batch |-> {}]
  /\ UNCHANGED <<documents, chunks, fetchLog, members, fetching, embedding, txs,
                 clock, faults>>

\* pending.slice(start, start + size)
Batches ==
  {b \in SUBSET attest.pending :
     Cardinality(b) = IF attest.size < Cardinality(attest.pending)
                      THEN attest.size ELSE Cardinality(attest.pending)}

Submit ==
  /\ attest.pc = "submit"
  /\ \E b \in Batches :
       /\ attest' = [attest EXCEPT !.pc = "wait", !.batch = b]
       /\ txs' = Append(txs, [requests |-> b, landed |-> FALSE])
  /\ UNCHANGED <<documents, chunks, fetchLog, members, fetching, embedding,
                 clock, faults>>

Land(i) ==
  /\ ~txs[i].landed
  /\ txs' = [txs EXCEPT ![i].landed = TRUE]
  /\ UNCHANGED <<documents, chunks, fetchLog, members, fetching, embedding,
                 attest, clock, faults>>

\* The catch of attestPending: halve a batch of several, raise for one.
AfterFailure(n) ==
  IF n > 1
  THEN [attest EXCEPT !.pc = "submit", !.size = n \div 2, !.batch = {}]
  ELSE NotRunning

\* The node will not price the batch: nothing was sent.
Refuse ==
  /\ Fault
  /\ attest.pc = "submit"
  /\ \E b \in Batches : attest' = AfterFailure(Cardinality(b))
  /\ UNCHANGED <<documents, chunks, fetchLog, members, fetching, embedding, txs,
                 clock>>

\* withTimeout gives the batch up as lost; its transaction may have landed, or
\* may land yet.
Timeout ==
  /\ Fault
  /\ attest.pc = "wait"
  /\ attest' = AfterFailure(Cardinality(attest.batch))
  /\ UNCHANGED <<documents, chunks, fetchLog, members, fetching, embedding, txs,
                 clock>>

\* Mutant of Settle: the UIDs are taken when the transaction is sent.
SettleUnlanded ==
  /\ attest.pc = "wait"
  /\ attest' = [attest EXCEPT !.pc = "backfill"]
  /\ UNCHANGED <<documents, chunks, fetchLog, members, fetching, embedding, txs,
                 clock, faults>>

Settle ==
  /\ attest.pc = "wait"
  /\ txs[Len(txs)].landed
  /\ attest' = [attest EXCEPT !.pc = "backfill"]
  /\ UNCHANGED <<documents, chunks, fetchLog, members, fetching, embedding, txs,
                 clock, faults>>

\* One row of the batch is updated by id; the last one moves on to the next
\* batch, or ends the run.
Backfill(r) ==
  LET left == attest.batch \ {r}
      owed == attest.pending \ {r}
  IN
  /\ attest.pc = "backfill"
  /\ r \in attest.batch
  /\ documents' = [documents EXCEPT ![r.url].uid = <<Len(txs), r.url>>]
  /\ attest' = IF owed = {} THEN NotRunning
               ELSE [attest EXCEPT !.pending = owed, !.batch = left,
                       !.pc = IF left = {} THEN "submit" ELSE @]
  /\ UNCHANGED <<chunks, fetchLog, members, fetching, embedding, txs, clock,
                 faults>>

\* The attester's process dies; what it sent stays sent.
CrashAttester ==
  /\ Fault
  /\ attest.pc # "idle"
  /\ attest' = NotRunning
  /\ UNCHANGED <<documents, chunks, fetchLog, members, fetching, embedding, txs,
                 clock>>

-----------------------------------------------------------------------------
Crawl(w) ==
  \/ \E i \in Indexes, u \in Urls : Fetch(w, i, u)
  \/ OpenRecord(w)
  \/ LoadRow(w)
  \/ RecordContent(w)
  \/ RecordSkip(w)
  \/ RecordFailure(w)
  \/ LoseFetch(w)

Embed(e) ==
  \/ \E s \in Indexes \cup {WholeStore} : EmbedSelect(e, s)
  \/ \E r \in embedding[e] : EmbedDocument(e, r)
  \/ LoseEmbed(e)

Attest ==
  \/ \E s \in Indexes \cup {WholeStore} : AttestSelect(s)
  \/ Submit
  \/ Refuse
  \/ Timeout
  \/ Settle
  \/ \E r \in attest.batch : Backfill(r)
  \/ CrashAttester

Next ==
  \/ \E w \in Crawlers : Crawl(w)
  \/ \E e \in Embedders : Embed(e)
  \/ Attest
  \/ \E i \in 1..Len(txs) : Land(i)

Spec == Init /\ [][Next]_vars

\* A handler that has its page finishes the record; the attest sweeper, which is
\* deployed with the attester, asks again for every index that is owed a receipt;
\* the chain takes what it was sent.  No page has to be fetched or embedded, and
\* the last fault need not have been.  The nightly pass over the whole store that
\* would embed whatever a crawl left is parked (operations/README.md), so nothing
\* is assumed of the embed passes.
Fairness ==
  /\ \A w \in Crawlers : WF_vars(\/ OpenRecord(w)
                                 \/ LoadRow(w)
                                 \/ RecordContent(w)
                                 \/ RecordSkip(w)
                                 \/ RecordFailure(w))
  /\ WF_vars(\E i \in Indexes : AttestSelect(i))
  /\ WF_vars(Submit)
  /\ WF_vars(\E i \in 1..Len(txs) : Land(i))
  /\ WF_vars(Settle)
  /\ WF_vars(\E r \in attest.batch : Backfill(r))

FairSpec == Spec /\ Fairness

-----------------------------------------------------------------------------
(* Properties.                                                             *)

TypeOK ==
  /\ documents \in [Urls -> Document]
  /\ chunks \in [Urls -> Contents \cup {None}]
  /\ fetchLog \in [Urls -> Seq(LogRow)]
  /\ members \in [Indexes -> SUBSET Urls]
  /\ fetching \in [Crawlers -> {Idle} \cup Fetched \cup Opened]
  /\ embedding \in [Embedders -> SUBSET Reading]
  /\ attest \in [pc      : {"idle", "submit", "wait", "backfill"},
                 pending : SUBSET Request,
                 size    : Nat,
                 batch   : SUBSET Request]
  /\ txs \in Seq([requests : SUBSET Request, landed : BOOLEAN])
  /\ clock \in Time
  /\ faults \in 0..MaxFaults

\* fetch_log holds a row for this content of the page, fetched at this time.
Logged(u, hash, at) ==
  \E k \in DOMAIN fetchLog[u] : /\ fetchLog[u][k].hash = hash
                                /\ fetchLog[u][k].at = at

\* Whatever the attester signs is explained by the trail, and every UID a
\* document carries is that of an attestation of this very URL which is on
\* chain: no interleaving of crawls, halvings, timeouts, late landings and
\* crashes stores the UID of a lost batch, of a batch not yet taken, or of
\* another page of the batch (attestor.ts, "only for the batch that actually
\* landed").
ReceiptsBacked ==
  /\ \A i \in 1..Len(txs) : \A r \in txs[i].requests : Logged(r.url, r.hash, r.at)
  /\ \A u \in Urls : documents[u].uid # None =>
       \E i \in 1..Len(txs) :
         /\ documents[u].uid = <<i, u>>
         /\ txs[i].landed
         /\ \E r \in txs[i].requests : r.url = u

\* The chunks search reads were cut from a content the trail says was fetched
\* from that URL, however late the pass that wrote them.
ChunksExplained ==
  \A u \in Urls : chunks[u] # None => \E at \in Time : Logged(u, chunks[u], at)

IndexedRow(row) == row.kind = "content"
SkippedRow(row) == row.kind = Thin

\* "documents holds only latest state": each row is what replaying the fetch_log
\* of its URL gives.  It is the last content fetched, at the time it was, and is
\* unindexed if and only if the page was skipped since.  A URL whose fetches
\* yielded no content has no row.
DocumentIsReplay ==
  \A u \in Urls :
    LET log == fetchLog[u] IN
    IF \A k \in DOMAIN log : ~IndexedRow(log[k])
    THEN documents[u] = NoDocument
    ELSE \E k \in DOMAIN log :
           /\ IndexedRow(log[k])
           /\ \A j \in DOMAIN log : IndexedRow(log[j]) => j <= k
           /\ documents[u].hash = log[k].hash
           /\ documents[u].fetchedAt = log[k].at
           /\ documents[u].unindexed <=>
                \E j \in DOMAIN log : j > k /\ SkippedRow(log[j])

\* content_changed tells the truth about the trail it is part of: a row carries
\* it if and only if the page had a content before and this one differs from the
\* last, or the page had been skipped in between.
TrailTellsChanges ==
  \A u \in Urls :
    LET log == fetchLog[u] IN
    \A n \in DOMAIN log : IndexedRow(log[n]) =>
      (log[n].changed <=>
        \E k \in 1..(n - 1) :
          /\ IndexedRow(log[k])
          /\ \A j \in (k + 1)..(n - 1) : ~IndexedRow(log[j])
          /\ \/ log[k].hash # log[n].hash
             \/ \E j \in (k + 1)..(n - 1) : SkippedRow(log[j]))

\* A change of content, or a page coming back from eviction, clears what was
\* derived from the row in the same step (contracts/provenance.feature, "changed
\* content invalidates downstream").  It is so while the stages take turns; an
\* embed pass or a backfill that commits between the two readings of the row is
\* not cleared.
ChangeInvalidates ==
  [][\A u \in Urls :
       \/ documents'[u].hash # documents[u].hash
       \/ documents[u].unindexed /\ ~documents'[u].unindexed
       => ~documents'[u].embedded /\ documents'[u].uid = None]_documents

HadHeadingsOnly(u) == \E k \in DOMAIN fetchLog[u] : fetchLog[u][k].hash \in HeadingsOnly

InSearch(u) == documents[u].embedded /\ ~documents[u].unindexed

\* A document marked as embedded that is not out of search has chunks, unless its
\* URL once had a content without a passage: no order of evictions, returns and
\* passes in flight leaves a page of prose that nothing will embed again and no
\* search can find.
Searchable ==
  \A u \in Urls : InSearch(u) /\ ~HadHeadingsOnly(u) => chunks[u] # None

\* A fetch is paid for on chain once, and once more at most for each fault:
\* interrupted runs resume on what is still owed.
BillBounded ==
  \A u \in Urls, at \in Time :
    Cardinality({i \in 1..Len(txs) :
                   \E r \in txs[i].requests : r.url = u /\ r.at = at}) <= 1 + faults

\* The receipt a document carries attests the content it has.
ReceiptCurrent ==
  \A u \in Urls : documents[u].uid # None =>
    \E r \in txs[documents[u].uid[1]].requests :
      r.url = u /\ r.hash = documents[u].hash

\* A searchable document marked as embedded is searched by the content it has.
ChunksCurrent ==
  \A u \in Urls :
    InSearch(u) /\ documents[u].hash \notin HeadingsOnly => chunks[u] = documents[u].hash

\* A document that is embedded gets its receipt in the end, evicted or not, unless
\* a change of content sends it back to the embed pass first: no batch that is
\* refused, lost or left half backfilled is the last one it was in.
EventuallyAttested ==
  \A u \in Urls :
    documents[u].embedded ~> documents[u].uid # None \/ ~documents[u].embedded
=============================================================================
