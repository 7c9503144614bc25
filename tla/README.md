# Verification of the Wuzzy backend

TLA+ models of the backend under `src/apps/backend`, model-checked with TLC, with
theorems checked by TLAPS. Paths below are relative to `src/apps/backend/src/` unless they
begin with `src/`.

## 1. The system

Wuzzy is a search index whose documents carry a provenance trail and an on-chain receipt.
Somebody commissions an index of URLs and pays for it; a worker crawls the pages, embeds
them, and an attester writes a receipt for each. Everything durable is in Postgres. A
BullMQ queue over a Redis that persists nothing is only a trigger.

| Part | State it keeps | Operations | Meets the others through |
|---|---|---|---|
| Provenance store (`crawl/provenance.ts`) | `documents`, `fetch_log`, `chunks`, `index_documents` | `recordFetch`, `recordFailedFetch`, one transaction each | the rows the passes below select by `embedded_at` and `attestation_uid` |
| Embed pass (`embed/embed.ts`) | none of its own | `embedPending`: select, wait for the embedder, replace chunks and stamp, per document | writes `documents` by id after a wait |
| Attestor (`attest/attestor.ts`) | the account's transactions | `attestPending`: select, submit in batches, halve on failure, backfill | the chain; writes `documents` by id after a wait |
| Crawler (`crawl/crawler.ts`, `http.ts`, `robots.ts`, `sitemap.ts`) | request queue, robots cache, host budget, host turns | `crawl`, its request handlers, freshness, discovery | calls the store; `onDocument` callback |
| Indexes (`indexes/indexes.service.ts`, `indexes.controller.ts`) | `indexes`, `index_urls`, `index_readers` | create, append, remove, status, access | the store (known URLs join at once), payment, crawl queue |
| Payment (`payment/`) | none | authorize before the handler's work, settle after it | controllers; a facilitator (`src/scripts/fork/facilitator.ts` in rehearsals) |
| Index crawl (`indexes/index-crawl.ts`) | `index_urls` rows | `crawlIndexQueue` | the crawler; un-awaited progress writes |
| Crawl queue, worker (`queue/crawl.*.ts`, `queue.module.ts`) | one job per index | add, process, retry, remove | API, workers, sweepers |
| Attest queue, attester (`queue/attest.*.ts`) | one job per index | add, process, first and later sweeps | worker, attestor |
| Search (`search/`) | rate-limit windows | two rankings, fused and cut into pages; a metered and a free route | chunks, memberships |
| Search box (`src/apps/frontend/public/search.js`) | the ledger, its badge, the address bar, `busy` | submit, refresh, opening sample | the free route |
| Demo agent (`src/apps/demo-agent`) | a wallet | quote, commission, append, search | the metered routes |
| Canonicalizer, chunker, verify, admin, discovery, CLI, static sites | none | pure functions, reports, static pages | |

### What is hard

* **Snapshots used after a wait.** The embed pass and the attestor read rows, wait for
  the network for seconds or minutes, and write back by document id. A crawl may change,
  evict or bring back the page in between. No pass holds a lock across a wait.
* **A row read twice.** Saving a document reads its row again and writes only the columns that
  differ from that reading; what a pass commits between the reading and the write is kept.
* **One URL, two handlers.** Documents are shared by all indexes, and redirects make two
  requests of one crawl meet. `recordFetch` reads the row without a lock.
* **Batches given up as lost.** A submission that times out may still land; the batch is
  halved and sent again.
* **A queue that may forget.** The API may die before it enqueues, a job may stall, fail
  for the last time, age out while its id is taken, or vanish with the broker. A sweeper in
  every worker is all that recovers, and it reads, removes and re-adds in separate calls.
* **Un-awaited writes.** The progress write of a page can land at any later time, or never.
* **Partial failure.** Rows are retired before the index is embedded; a page can be
  resolved without the index getting it; work is committed before it is settled; a page can be
  recorded and then fail.
* **Checks before a wait.** The owner is read before the payment is verified, the cap before
  the transaction, the slug before the insert, the store between two statements. The host budget
  is spent behind an await that several workers pass together.
* **Requests without a guard.** Discovery asks for sitemaps, and follows their redirects, where no
  robots.txt was read.
* **Finished jobs that hold their id.** Adding under an id that exists does nothing, in silence;
  only a sweep that clears it goes on, and it must not clear a job somebody works at.
* **Paging a moving store** with rankings cut at a fixed depth; **one request at a time** in a box
  with three ways to start one.

### What makes each part correct

* Store: `documents` is what replaying `fetch_log` gives (while no two handlers record one URL);
  the trail's change flags are true; a change or a return from eviction clears what was derived
  (only when the stages take turns); no page of prose is marked embedded, in search, and without
  chunks.
* Embed and attest: whatever is searched or signed was fetched from that URL; a UID is that
  of an attestation that landed; each fetch is paid for once plus once per fault; every
  document that stays embedded is attested in the end; receipts and chunks are of the current
  content (only when the stages take turns).
* Queues: one crawler per index; nothing paid for drops out of sight; every page bought is
  held or refused in the end and the answer stands; what an index holds is embedded unless its job
  fails for good, and a completed job left its index searchable; every receipt owed is written, none is paid for twice, and the queue rests when
  nothing is owed.
* Indexes and payment: a refusal is free; what moves is what was quoted, signed and matched;
  only the owner's requests change an index; what was paid for is taken on.
* Crawler: budget, robots.txt and spacing hold for whatever page is asked for; a request that was
  finished with is in the trail or was redirected, unless the crawl itself was aborted (the
  requests of discovery, and those a redirect answered, leave no row); a run is called failed when it
  has nothing to show; the crawl ends.
* Search: the pages of a walk are one long page; the box shows what was asked last; every
  network gets its share of the free window.

## 2. Modules

| Module | Models |
|---|---|
| `Pipeline` | the store and the three passes over it: crawler handlers, embed passes, the attester, the chain |
| `CrawlPromise` | abstract: pages are bought, delivered or refused; each is answered in the end |
| `CrawlQueue` | commissions, the crawl job in BullMQ, workers, sweepers, progress writes, faults; refines `CrawlPromise` |
| `AttestQueue` | the attest job in BullMQ, the attester with its restarts, its sweeper |
| `Commission` | a paying client, the controllers, the meter and the indexes service, await by await |
| `Crawler` | one crawl: approval, robots.txt, budget, turns, redirects, retries, trail and tally |
| `Search` | both arms, fusion and paging beside re-embedding; the rate limiter and the free route; the search box |
| `PipelineProofs`, `CrawlQueueProofs`, `AttestQueueProofs`, `CommissionProofs`, `CrawlerProofs` | theorems about the module each is named for |
| `RowProofs` | theorems about a document's row, trail, chunks, receipt and bill in `Pipeline` |
| `RankingProofs`, `SearchProofs` | lemmas about the operators of `Search`: sorts, filters, fusion and pages; the theorems about it |
| `MCPipeline`, `MCCrawlQueue`, `MCAttestQueue`, `MCCommission`, `MCCrawler`, `MCSearch` | model values, small graphs, orders and commands, and symmetry for TLC |

The modules meet at the rows they leave to each other. `Pipeline` takes any page from its
handlers, and `Crawler` says which pages those are; `Pipeline` assumes an owed index is asked for
again, which is `AttestQueue`'s `OwedIsAttested`; `Commission` crawls a queued page in one step,
which `CrawlQueue` takes apart; `Search` takes re-embeddings and evictions as single commits, which
they are in `Pipeline`.

### Pipeline

`documents`, `chunks`, `fetchLog`, `members` are the tables; `fetching`, `embedding`,
`attest` are what the processes hold in memory; `txs` is what the chain was sent.
A content stands for its hash, a fetch time for `fetched_at` and the raw hash,
`embedded_at` and `unindexed_at` are Booleans because nothing reads more of them here.

* `Fetch`, `OpenRecord`, `LoadRow`, then `RecordContent`, `RecordSkip` or `RecordFailure`: a
  handler gets its page (`crawler.ts:179-224`), reads the row (`provenance.ts:56`), and commits what
  it concluded from that reading (`:58-134`, `:145-167`). Content for a row that exists goes
  through `documents.save` with an id (`:90-111`): TypeORM selects the row again (`LoadRow`) and
  updates the columns that differ from this second reading (`Written`, `UpdatedRow`). READ COMMITTED
  takes no lock for either reading, so each is a step of its own, and a stamp or a UID that another
  pass commits after `LoadRow` survives the change. An insert that collides with a row inserted
  since is rolled back and the request retried. From the statement that writes the row to the commit
  is one step: the row is locked there.
* `EmbedSelect`, `EmbedDocument`: the query, then one document per step once its vectors are
  in. A content in `HeadingsOnly` has no passage, and takes the early `continue`.
* `AttestSelect`, `Submit`, `Land`, `Settle`, `Refuse`, `Timeout`, `Backfill`,
  `CrashAttester`: the loop of `attestPending` with its halving. A timed-out transaction may
  still land.
* `StagesOverlap = FALSE` makes the stages take turns, as the shell of
  `src/operations/wuzzy-pipeline.hcl` would, which is parked; `TRUE` is the deployment with workers
  and an attester.

The order of a batch is not kept (`updatedAt` order only decides which documents share
one), the `limit` option and `embeddedOnly: false` are not modelled.

### CrawlQueue

`rows` is `index_urls` with its states (no row, owed, crawled, failed); `jobs` the BullMQ
job of each index, by its id; `runs` the processor in each worker; `sweeps` the sweeper in
each worker; `marks` the progress writes in flight; `requests` the indexes whose commission
committed and whose `requestCrawl` has not happened, and may never.

* API: `Commission` (intake of create and append), `RequestCrawl`.
* Worker: `Take`, `Query`, `FetchContent`, `FetchThin`, `FetchFailed`, `MarkCrawled`,
  `Retire`, `EmbedIndex`, `Finish`, in the order of `process` and `crawlIndexQueue`; `Throw`
  and `Crash` at any point of it.
* Broker: `BackoffOver`, `Stalled`, `AgedOut`, `RedisRestart`. BullMQ itself is not in the
  repository; it is modelled from the options in `queue.module.ts` and from what the
  sweeper's comments rely on: an id that exists in any state is left alone, `attempts: 3`,
  `removeOnFail`, a completed job is kept for a time, a job whose worker is gone stalls once
  and then fails. A worker that is alive keeps its lock renewed.
* Sweeper: `SweepQuery`, then per index `SweepAsk` (add), `SweepLook` (getState), `SweepClear` (remove)
  and `SweepAgain` (add), one call each.

A page is stored or not, embedded or not: its contents are `Pipeline`'s business. `bought` is
what a request asked for. Intake is one step here and two in `Commission`.

### AttestQueue

`embedded` and `attested` are the two columns of `documents` that make a receipt `Owed`, which is what
the sweeper's query and `attestPending` select; `crawling` are the indexes whose worker has recorded pages
and not yet embedded them; `jobs` the BullMQ job of each index; `runs` the processor; `sweeps` the sweeps under way, since the timer waits for none; `swept` the field
that tells the first sweep of a process from the later ones.

* Worker: `Crawl` records changes, which clears stamp and receipt; `EmbedPass` stamps, some documents or
  all; `Ask` adds the job, or never happens.
* Attester: `Take`, `AttestBatch`, `Finish`, `Throw`; `Crash` and `Boot` of the process.
* Sweeper: `SweepQuery`, then per index `SweepAdd`, `SweepLook`, `SweepRemove`, `SweepAgain`, one call
  of the queue each, and `SweepDone`. `Stale` is the condition of `attest.sweeper.ts:83`.
* Broker: as in `CrawlQueue`.

`AttestBatch` attests any of the documents the run has left; how a batch gets to the chain, how a timed-out
one may be paid for twice, and that a page may change while its batch is out, is `Pipeline`'s. The count of sweeps a job has waited for is logging.

### Commission

`calls` holds what a client is doing: its command, which of its up to three requests is under way
(price, unpaid, paid), the await its handler stands before, and what the handler has in hand (the
row it read, the slugs it found, the pages it joined). `indexes`, `members`, `pending`, `failed` are the
tables, `funds` the balances.

* Client: `Begin`, `Receive` (`HearQuote`, `HearUnpaid`): the demo agent asks the price, compares it
  with its ceiling, and lets the paying fetch answer a 402.
* Handlers, in the `Order` of their awaits: `Resolve`, `Authorize` (quote, match, verify, and the gate
  between verification and settlement), `Name`, `Count`, `Join`, `Queue`, `Delete`, `Retrieve`,
  `Settle`, `Report`; `Fail` at any of them.
* Beside them: `Seeded` and `Crawled`, the crawls that change what the store holds.

A slug is a name and a number. With the meter off a client still states an owner, so the request that
is refused for want of one is not modelled; the owner stated is the client's. An index is referred to
by its slug, because that is the reference that can change hands; a write goes to the index it was resolved
to, by id (`Target`). An index that somebody's transaction has added a row to cannot be deleted before that
commits (the foreign key's lock), which is `Delete`'s second conjunct; rows that ON CONFLICT skips take no lock
(`Joining`). So an index may be deleted between the look-up and the intake of an append: the first row to
be inserted is refused by the foreign key, and an append with no row to insert commits, is charged and adds
nothing. A settlement fails, or moves the money and loses its answer (`Settle`).

### Crawler

`requests` is Crawlee's queue, `procs` the workers and the main program, each at the await it is at;
`policies`, `approved` and `turns` are the crawl's maps, `since` and `elapsed` its timers; `asked`,
`trail`, `age` and `tally` what it asked for, wrote down and counted; `heard` what each origin's robots.txt
has answered so far, of which `policies` keeps the last, and `probed` the origins that were asked for a
sitemap, or by a redirect of a robots.txt.

`DiscoverSeeds` (each sitemap may fail, `SitemapsAt`), `Approve` with `LoadRobots` (two loads of one origin
may race), `Enqueue` with `Worth` (freshness), `Start`, `Turn`, `Ask`, `Redirected` and `AfterRedirect`, `Hopped`,
`NotAPage`, `Content`, `Loop` (the 508), `Dead`, `Throw`, `Thrown`, then `Lost` for a request given up, `Over`.
The database may fail wherever it is asked: in a request handler, which throws (`Throw`), and in
`failedRequestHandler` or in the look-up of the seeds, which nobody catches, so that `crawl` rejects (`Abort`);
the workers then go on with what they have in hand. Crawlee is not in the repository: a request is queued once per
URL, is retried when its handler throws, and is given up after `MaxRetries`; a worker starts a request
when there is one and the run's limit is not reached. A request is counted as handled before
`failedRequestHandler` runs. The order of the queue is left free, so
`interleaveByHost` is not modelled. What robots.txt says is one of the sets of `RobotsOf`, a load that
fails among them.

### Search

Three parts that share the store. An agent's walk: `AskPage`, the arms one after the other in either
order (`LexicalArm`, `VectorArm`), `Lookup`, `TurnPage` while `hasMore`. The box: `Arrive`, `Submit`,
`Sample`, `Refresh`, `Run`, `Show`, `Lose`, over the free route, `Admit` and `Serve`. The limiter: `Check`,
`Sweep`, `Tick`, `Visit` of other networks.

The lexical and the vector order of a query are constants, ties included; an arm returns the part of it the store
has, cut at `candidates`. `reciprocalRankFusion` is the order in which the fused chunks come: scores are
exact fractions, of equal scores the chunk that was met first comes first, as a stable sort leaves it. The
code adds floats; they are the same sums, in the same order, on every page. A sort or a filter is said by the
places its members get (`Ordered`, `Selected`), not by recursion. A chunk has the stamp of the embedding that cut it, so a lookup after a
re-embedding misses it. Left out: the approximate scan of an index above `exactScanChunks`, the blank
query (it is in `Commission`), clamping, CORS, that two samples in a row differ.

## 3. Runs

All runs set `CHECK_DEADLOCK FALSE`: the number of fetches, commands, passes, requests and faults
is bounded, and with nothing owed the system rightly rests.

| Run | Instance | Shows |
|---|---|---|
| `Pipeline_concurrent` | 2 URLs, 3 contents (one headings only), 1 handler, 2 embed passes, batches of 2, 3 fetches, 1 fault, overlapping; 1.8 million states | the trail, the bill and the search properties under every interleaving |
| `Pipeline_staged` | 2 URLs, 3 contents (one headings only), 3 fetches, 1 fault, taking turns | receipts and chunks are current, changes invalidate |
| `Pipeline_fair` | 2 URLs, 1 embed pass, 3 fetches, 1 fault, overlapping | every document that stays embedded is attested |
| `CrawlQueue_jobs` | 1 index, 2 URLs, 2 workers, 2 commissions, 3 faults; 929 thousand states | one crawler, nothing vanishes, outcomes stay |
| `CrawlQueue_promise` | 1 index, 2 URLs (one redirects to the other), 1 worker, 2 faults, broker restarts, fairness; 117 thousand states | refinement of `CrawlPromise`, liveness included; what a worker has taken up is embedded |
| `AttestQueue_fair` | 2 indexes that hold one document, 1 sweep at a time, 2 attempts, 2 crawls that change it, 2 faults, broker restarts, fairness; 281 thousand states | receipts are written, once, and the queue rests |
| `Commission_paid` | 2 clients, 2 wallets, 2 pages in 3 spellings and one that is no URL, an index that is there already, 7 commands of which 3 are given, 2 indexes more, a cap, a ceiling, 1 fault, meter on and off; 2 million states | free refusals, the quote is the charge, owners only, nothing paid for is dropped |
| `Crawler_polite` | 6 URLs on 3 hosts and 4 origins, 2 workers, 2 URLs per host, 4 requests, 2 tries more, 1 redirect, 2 levels of sitemaps, 1 fault, fairness; 241 thousand states | budget, policy, spacing, trail, tally, end |
| `Search_pages` | 2 documents of 2 passages, 2 queries, windows of 3, pages of 1, 2 modes, 3 networks, a limit of 1 and a map of 2; 235 thousand states | walks are whole, the box is truthful, shares are fair |
| `Pipeline_stale_receipt`, `Commission_rebought`, `Search_endless` | the smallest instance with the case | what a comment or contract says and the code does not do: "findings" in `PROJECT.json` |

**Why the bounds are enough.** `Pipeline`: three fetches give each of the sequences that matter: content,
change, change back; content, eviction, return; two fetches around a pass of one URL while
another page shares its batch. A batch of two can be halved; with one fault it can be refused,
time out and land late, or the attester can die between the rows of a backfill. Two embed
passes let two workers' passes carry different readings of one page. `CrawlQueue`:
three faults exhaust the attempts of a job or stall it twice; a second commission reaches a job
that is waiting, running, delayed or kept after completion. `AttestQueue`: two faults exhaust the
attempts, or kill the attester and then empty the broker; the second crawl finds the job completed, waiting
or running; the shared document is in both jobs. `Commission`: three commands let two clients race for a
name, append twice, or delete the index that another request is about to extend and give its name to somebody
else's: an append in flight, a remove, and a create by the other wallet, on the index the run begins with. The page
written twice makes the quote and the count differ; the cap and the ceiling are met and exceeded; a wallet
can run out between the two checks of the facilitator; a page is held before the run, one is crawled or fails
during it, on its own or for an index. `Crawler`: a host has more URLs than its budget,
offered by a seed, a sitemap, links of two pages and redirects; a redirect leads to a host, an origin and a
URL that is not allowed, to itself, and past `MAX_REDIRECTS`; two workers load one origin, whose answers
differ; a sitemap is on a host that is no seed's; the one fault can hit any query, the failure handler's own
among them. `Search`: the vector order is longer than the window, the arms disagree, a document has passages
in both; a network's window can expire, be swept while alive, and be full.

**Symmetry** is used for URLs, and for the contents that have a passage, in `Pipeline_concurrent` and
`Pipeline_staged`, for workers in `CrawlQueue_jobs` and for clients in `Commission_paid`: runs without liveness, in which nothing distinguishes them.

**Fairness.** `Pipeline`: a handler with its page finishes its record; the attester starts on an index
that is owed receipts (that it is asked for again is what `AttestQueue_fair` shows), its steps go on, and the
chain includes what it was sent. No fetch, fault, refusal or embed pass is fair: the nightly pass over the
whole store is parked at this commit (`src/operations/README.md:20,37-42`), and what a worker embeds is
`CrawlQueue`'s `EventuallyEmbedded`. `CrawlQueue` and `AttestQueue`: workers
and sweepers that are up go on (timers and the event loop), the attester is started again (a Nomad service,
`src/operations/wuzzy-attester.hcl`), a job that keeps waiting is taken (strong fairness, because
a job leaves the waiting state and comes back; BullMQ's list is first in first out), the broker
notices a backoff that is over and a lapsed lock. `RequestCrawl`, `MarkCrawled`, and the crawls and asks of `AttestQueue` are not
fair: the promises hold although an enqueue or a progress write may never happen. `Crawler`: workers
go on and time passes; no answer is fair, a URL may be dead on every try. `Search_endless`: the agent goes on
and is answered, which is all a client can ask. `Commission` has no liveness property: a client may stop at
any moment.

**Mutants.** Each property of a passing run is broken by a named variant of a definition of the
module, written next to it (a kept receipt, a sweep that clears running jobs, a payment settled before the
work, a budget off by one, a timer per caller, a `busy` flag nobody reads): the property is about the code,
not about the shape of the model.

### Seen in the models

Behaviour the models have, in the runs or at other constants than theirs, each at odds with a comment, a
contract or a reader's expectation. Where a formula is said to fail, TLC found the violation. They are recorded here
because a run checks one question and these are not its.

* **Two handlers on one URL** (`Pipeline` with two `Crawlers`): one evicts the page, the other, having read the row
  before, saves it as unchanged. `DocumentIsReplay`, `TrailTellsChanges`, `Searchable` and `ReceiptsBacked` fail; the
  page is back without chunks (`provenance.ts:56`, against `:39` and `:85-86`). A request can then be made of the
  content of one fetch and the time of another.
* **An invalidation that is lost** (`Pipeline` with `StagesOverlap`): `documents.save` reads the row again and writes
  what differs from that reading (`provenance.ts:90-111`), so a stamp (`embed.ts:91`) or a UID (`attestor.ts:160`) that
  commits after it, null when read, survives the change of content. `ChangeInvalidates` fails, against
  `src/contracts/provenance.feature:28` and `provenance.ts:40-41`.
* **A pass that read headings only** (`Pipeline` with `StagesOverlap` and a content in `HeadingsOnly`): a content
  without a passage takes the early `continue`, which stamps the row by id and leaves the chunks alone
  (`embed.ts:61-66`); if the page has got passages since, it is marked embedded without a chunk and nothing embeds it
  again, against `embed.ts:29-30`. So `Searchable` excepts a URL that ever had such a content; `ChunksCurrent` needs
  no such exception, and holds while the stages take turns.
* **Two creates of one name** (`Commission`): both find the same slug free, the second insert violates the
  constraint (`1757200000000-Indexes.ts:19`) and its client is told of a server error, although the handle "stays
  unique without a retry loop on collision" (`indexes.service.ts:387-388`). `RefusedIsFree` shows that it has not paid.
* **An append to an index deleted meanwhile**, with no row left to insert, commits, is charged and adds nothing
  (`indexes.service.ts:369-383`): `PaidIsTaken` excepts it.
* **Discovery asks where nothing was read** (`Crawler`): a sitemap may name another on any host, and the redirects of
  a sitemap or of a robots.txt are followed (`crawler.ts:347`, `sitemap.ts:45,57`), so an origin is asked for
  something before its robots.txt was read, which `http.ts:55-58` calls "a request we are not entitled to make";
  `crawler.ts:125-127` gives only the reason for robots.txt itself. `StaysWhereAllowed` bounds where that leads.
* **A failure that cannot be written down** (`Crawler`): when `recordFailedFetch` throws in `failedRequestHandler`
  (`crawler.ts:256-266`) the request has been given up, its row is not written, and `crawl` rejects.
* **A thin page of another index's document** (`CrawlQueue_jobs` with two indexes): the row is retired without an
  error and the index never gets the page; `NothingVanishes` fails (`crawler.ts:235`, against
  `src/contracts/indexes.feature:64-65`).
* **Two crawlers after a broker restart** (`CrawlQueue_jobs` with `RedisRestarts`): `OneCrawler` fails
  (`worker.ts:10-12` says "each index is only ever crawled by one at a time").
* **Embedding that fails on every attempt** leaves an index with nothing outstanding and nothing searchable
  (`crawl.processor.ts:49`).
* **A page evicted before it was embedded** is embedded by the next pass and found by search (`embed.ts:45`,
  against `document.entity.ts:56`), and **a content of headings only** keeps the chunks of the previous one
  (`embed.ts:61`, against `embed.ts:78`).
* **Duplicates are paid for**: the quote counts spellings, the index pages (`indexes.controller.ts:128`); **two
  appends can pass the cap** (`indexes.service.ts:251`); **a settlement that fails** leaves the work done, and one
  whose answer is lost may have moved the money (`payment.service.ts:372-377`).
* **With the meter off the agent's question for the price creates the index** and its next request creates
  another (`src/apps/demo-agent/src/indexes.ts:60-81`): `ChargedTheQuote` says "carried out at most once" only with
  the meter on.
* **A redirect past `MAX_REDIRECTS`** is answered with a status nobody served, under a URL that was not asked
  for (`http.ts:94-98`); the hops of a redirect take no turn at the host (`crawler.ts:130`).
* **A search typed while another runs** moves the address bar and is then dropped (`search.js:264-267`):
  `BoxTellsTruth` excepts it.

## 4. Proofs

TLAPS proves, for every value of the constants that the assumptions allow:

* `PipelineProofs`: `TypeCorrect`, `SearchedTrail` (`[]ChunksExplained`).
* `RowProofs`: `BillHolds` (`[]BillBounded`); while no two transactions are open at one URL (`Exclusive`; one
  handler is a case of it), `RowIsReplay` (`[]DocumentIsReplay`), `ChangesAreTold` (`[]TrailTellsChanges`),
  `AttestedTrail` (`[]ReceiptsBacked`) and `EmbeddedIsFound` (`[]Searchable`); when the stages take turns
  (`StagesOverlap = FALSE`) `ReceiptsAreCurrent` (`[]ReceiptCurrent`) and, under `Exclusive` too,
  `ChunksAreCurrent` (`[]ChunksCurrent`) and `ChangeClears` (`ChangeInvalidates`). With `PipelineProofs` these are
  all the safety properties of the three `Pipeline` runs that pass. Each hypothesis is needed: what happens
  without it is in "Seen in the models".
* `CrawlQueueProofs`: `QueueTypes`, `OneCrawlerHolds` (`[]OneCrawler` when `RedisRestarts = FALSE`),
  `OutcomeStays` (`RetiredStays`), `PromiseIsSafe` (every step is a step of `CrawlPromise` or a stutter);
  while no two indexes have bought into the same pages (`Apart`; one index is a case of it), `NothingLost`
  (`[](Apart => NothingVanishes)`) and, when `RedisRestarts = FALSE`, `CompletedIsSearchable` (`[](Apart =>
  CompletedSearchable)`).
* `CommissionProofs`: `TypesHold`, `RefusalIsFree`, `QuoteHolds` (`[]ChargedTheQuote`), `OwnersHold`,
  `PaidPagesHold` (`PaidIsTaken`): every property of the run `Commission_paid`.
* `CrawlerProofs`: `BudgetHolds` (`[]WithinBudget`), `PolicyHolds` (`[]StaysWhereAllowed`),
  `TrailHolds`, `FailureHolds`, `TurnsHold` (`Spaced`), `CrawlTypes`: every safety property of the run
  `Crawler_polite`.
* `AttestQueueProofs`: `AttestTypes`, `PaidOnce` (`[]NeverPaidTwice`).
* `SearchProofs`: `WalksAreWhole` (`[]WalkIsWhole`), `BoxIsTruthful` (`[]BoxTellsTruth`), `FreeShareHolds`
  (`[]FreeShare`), `TypesHold`: every property of the run `Search_pages`.

These are all the safety properties that a passing run checks.

**Assumptions.** `ConstantsAssumption` (finitely many URLs, a null that is neither a content nor a UID, a
batch size of at least one), `QueueAssumption` (redirects stay among the URLs, at least one attempt),
`CommissionAssumption` and `CrawlerAssumption` (the constants have their types, the list of a command is
finite, the URLs of a crawl are; a sitemap indexes others or lists pages, not both), `SearchAssumption` (there are finitely many passages and an order has each at
most once, as the rows of one query do; `None` is no query and no answer of an arm; the limits of the
configuration are positive; the bound on offsets is no smaller than the number of documents, so that a page
past it is past the last). Except where a theorem says so, nothing bounds the number of handlers, workers,
clients, indexes, fetches or faults. `ASSUME`s are evaluated by TLC in every run.

**Pipeline.** `ChunksExplained` is not inductive: it speaks of rows, while what will be written sits in the
memory of a pass. `TrailInv` adds what that memory holds. `Explained`: the content and the time of every row
(`RowsLogged`), of every request the attester selected (`PendingLogged`) and of every request sent (`Signed`) are
of logged fetches, and so is the content of every reading of an embed pass (`ReadingsLogged`); it stays so because
the log only grows. `InFlight`: while the attester waits or backfills, its batch is part of the last transaction's
requests, and while it backfills that transaction has landed. `UidsBacked`: every stored UID is of a
landed transaction that contains that URL. `TypeInv` adds to the types that what a run selected is
finite (`RunFinite`), or else the halved size would be no number. Each action is one lemma per
disjunct of the invariant it can disturb; the rest is a frame lemma.

That the content and the time of a row are of *one* fetch is more than `Explained` says, and false with two
handlers: the columns of a save are written one by one as they differ. Under `Exclusive` the row is the replay of
its log, so what is selected and sent is of one logged fetch (`PendingExact`, `SignedExact`): `AttestedTrail`.

**The row.** `RowStep` lists what a step can do to the row, the chunks and the trail of one URL: nothing, or
one of content saved, page skipped, failure noted, document embedded, receipt backfilled. Under `Exclusive`
`ExistingCurrent` is inductive: from the read of a row to the commit nobody else writes its hash, its times or its
eviction stamp, since the passes write none of them, so both readings of a handler are right about these. They may
be wrong about the stamp and the receipt. `Searchable` survives that: if a pass has stamped the row since it was
read, it left chunks (`LoadedFound`), unless it had read a content of headings only. `DocumentIsReplay` and
`TrailTellsChanges` speak of the whole trail; `Replayed` says of one trail what its row must be and is shown to
survive one more row of each kind (`ContentReplay`, `OtherReplay`), and with the last content known
(`HashesLogged`, that rows of other kinds carry no content) the flag of the new row is right (`ContentTells`).
When the stages take turns, `InTurn` says that no handler is at work while a pass holds a reading or the attester
runs; then every reading and every pending request is of the content of its row (`SnapshotsCurrent`), and a
handler's reading is right about the stamp and the receipt as well (`OpenStamps`). That gives `ChangeClears`,
and lets `ReceiptsAreCurrent` do without `Exclusive`.

The bill needs that fetches have stamps of their own (`StampsInv`): a fetch in hand is later than everything in the
trail, so nothing was sent for it (`FreshUnpaid`). `Billed` counts the transactions that pay for one fetch: at
most one more than the faults, and no more than the faults while the fetch is `Due`, that is owed or held by the
run without being in the batch just sent. A submission spends the difference; a timeout, a crash or a refusal is
the fault that restores it; a backfill ends it, because a run holds each URL once (`OncePending`).

**CrawlQueue.** `OneCrawler` follows from `Locked`: a worker that runs an index holds the lock of its
job, and a job has one lock. Every action that starts no run and takes no active job away keeps
`Locked` (`LockedKept`): adding leaves an existing job alone, the sweeper's remove spares an active
job, only a job whose owner is not at work stalls. `RedisRestart` is the step that breaks it.
`PromiseIsSafe` needs that a row exists only of a page that was bought (`RowsBought`); fetches are
deliveries, retirements are refusals, a commission is a purchase whose known pages may also be where
a page bought before redirects to.

`Reach` is what an index bought and where that leads, and `Apart` says that no two indexes reach the same
page; since `bought` only grows, a state that satisfies it comes from states that did (`ApartStays`). What is
stored or held was bought by somebody (`BoughtInv`), so a document within the reach of an index was fetched
for that index and joined it at once (`Joined`), and a page a thin fetch resolves by the document it had is
held. `DebtInv` carries that from the fetch to the row: what a worker has resolved, what a progress write will
retire and what is retired without an error is held. `SearchInv` says that a worker about to ask for the
receipt, and a completed job, leave nothing of the index unembedded; `Locked` excludes a second worker of the
index that could fetch meanwhile, `Apart` one of another index. Both properties fail for indexes that share
documents.

**AttestQueue.** What a run is about to pay for is a subset of what its index is owed. Only a run writes
receipts, and the attester has one slot, so no other run can be in between: `Slots` having one member is all
the proof uses of the concurrency of 1, and `TwoSlots` is the mutant that breaks it.

**Commission.** `PaymentInv` is `TablesInv` (types, and who may own the global row) and `CallsInv`, which says
of each call where it can be (`Placed`), with which amounts (`Amounts`: nothing is signed before the third
request, what is signed is the price, and the price is a function of the command alone), what it has spent
(`Charged`: nothing before settlement) and who owns the index it writes behind the gate (`Owned`).
`RefusedIsFree` and `ChargedTheQuote` follow. `OwnersHold` needs that an index, once its writer's request is
past the gate, keeps its owner while it lives: owners change only in `Adopted`, which sets the operator on the
global index, and a deleted row does not come back. A client behind the gate is therefore the owner when it
commits.

**Crawler.** Budget and policy hold of what is approved, at once and by construction; that they hold of what is
*asked for* needs everything between approval and request: the URLs kept from a page, the queue, a worker's
URL at its turn, the hop a guard has approved (`ScopeInv`, of `ProcsInv`, `PoliciesInv`, `ApprovedInv`,
`RequestsInv` and `AskedInv`). The races are in it: a worker that waits for robots.txt decides with the policy in
the map when it returns, which some answer gave (`PoliciesInv`: what is kept was heard), and with the budget as it
is then. `PoliciesInv` also has where the requests of discovery go. `RecordInv` is `TallyInv`, which relates each
count to rows of the trail, and `TrailInv`, which says of each request where the row it leads to is: of one that is
done with, in the trail, unless its page had moved, some worker is about to write it (`LostBy`) or the crawl was
aborted (`DoneInv`); of one still in hand, at the step of the worker that holds it. `TurnsInv` gives the spacing: the timer of a host's next turn is never
ahead of the time since its last page, and a worker that waits for its turn is in the line, so a line that somebody
leaves is not empty. `LedgerInv` is what remains of the types.

**Search.** What a page shows is decided by `Ranking`, so its lemmas come first. `OrderedIs` and `SelectedIs`
say that the places of a linear order, and of a filter, are a sequence with each member once. Fusion is such
an order (`FusionIsLinear`): comparing fractions is transitive (`FractionsOrdered`), and two hits of equal
score were met at different times (`MetOnce`). Each document then has one best chunk (`RankingIs`), so pages
of one ranking put together are a longer page of it (`FirstPages`). Rankings are equal if the arms are, and
the arms depend on nothing but the query and the store, which is where the fixed depth counts: `WalkInv` says
that the request of a walk nothing has disturbed (`Undisturbed`) carries what the arms find now or has not
asked them yet, and that its answer is the next page of `Whole`. `Deeper`, the mutant whose depth grows with
the offset, breaks just that.

`BoxInv` adds to `BoxTellsTruth` that a busy box waits for exactly one request, of the search it ran last,
under its address unless a later one was ignored. For the limiter the count of a window must be related to
requests that were let through at each age: `ShareInv` cuts the tokens of a network at the start of its
window. What is more recent is as much as was counted, up to the limit, and what is older is at most one
limit; a network without a live window has nothing as recent as now and at most one limit in all. A tick moves
tokens towards the far end and the cut with them, an expired window turns its recent tokens into older ones,
and a sweep of a live window gives its allowance back. Two limits in one window's length is therefore the
most, and it can happen. `CountInv`, for the types, says that a window counts only requests that were made.

**Only model-checked.** `EventuallyEmbedded`, `EventuallyAttested`, `OwedIsAttested`, `ComesToRest`, `Ends`
and the liveness half of `PromiseKept`: liveness under fairness, and induction over data, are out of the prover's
reach. The three runs that expect a violation stay with TLC, which shows the counterexamples.

## 5. Not modelled

Canonicalization, chunk boundaries, embeddings, BM25, the approximate vector index and ABI encoding are data
transformations whose results the models take as inputs. The two protocol versions of a payment, its headers
and its signature come down to one comparison of amounts. Row locks inside a transaction, and the deadlock
that opposite lock orders allow, are below the step size of `Pipeline`. Verify, the catalog, status and admin
reports, discovery documents, health and static pages change no state that the properties depend on.
Configuration is the constants.

Of a crawl: a request handler that Crawlee gives up on after its timeout and that goes on in the background,
and `interleaveByHost`, since the order of the queue is free. A commissioned crawl (`Discover = FALSE`, `RefetchAll =
TRUE`) is an instance of `Crawler` that the theorems cover and no run has. Of search: both arms sort by score alone (`lexical.ts:131`, `search.service.ts:257`), and the
query is embedded anew for each page, so hits of equal score may change places between two pages; `Search` takes
each order as one constant of the query, and `WalkIsWhole` says nothing of ties that the database breaks
differently.

## 6. Plan

1. `RowLocks`: the statements of the embed transaction and of the eviction with their row locks.
2. `Chunker` and `Pricing` as functions over bounded inputs, against a reference.
