----------------------------- MODULE CrawlQueue -----------------------------
(***************************************************************************)
(* How a paid crawl gets done.  The debt is in Postgres: an index_urls row *)
(* without crawled_at.  The BullMQ queue is only a trigger: the API adds a *)
(* job when a commission is taken (indexes.controller.ts), a worker drains *)
(* what is pending when it starts (crawl.processor.ts, index-crawl.ts),    *)
(* and every worker sweeps for debt nobody is working on                   *)
(* (crawl.sweeper.ts).                                                     *)
(*                                                                         *)
(* A job is identified with its index, which is all crawlJobId holds.  The *)
(* state a page is recorded in is Pipeline's; here a document exists or    *)
(* does not, and is embedded or is not.                                    *)
(***************************************************************************)
EXTENDS Integers, FiniteSets

CONSTANTS
  Indexes,        \* commissioned indexes
  Urls,           \* URLs that may be bought, or served by a redirect
  Serves,         \* the URL each one is finally served under
  Workers,        \* crawl worker processes
  Attempts,       \* the attempts option of the queue
  RedisRestarts,  \* TRUE: the broker may restart, and it persists nothing
  None,           \* no worker
  MaxCommissions, \* bound: requests to create or append
  MaxFaults       \* bound: crashes, failed jobs, broker restarts

ASSUME QueueAssumption ==
  /\ Serves \in [Urls -> Urls]
  /\ Attempts \in Nat \ {0}
  /\ RedisRestarts \in BOOLEAN
  /\ None \notin Workers
  /\ MaxCommissions \in Nat
  /\ MaxFaults \in Nat

VARIABLES
  stored,      \* URLs that have a document
  unembedded,  \* of those, the ones with embedded_at null
  members,     \* index_documents
  rows,        \* index_urls: no row, owed, crawled, or failed (error is set)
  bought,      \* the URLs each index has been asked, and paid, for
  requests,    \* indexes whose request has committed and not yet enqueued
  jobs,        \* the crawl job of each index
  runs,        \* what each worker's processor is doing
  marks,       \* progress writes the crawler has issued and not awaited
  sweeps,      \* what each worker's sweeper is doing
  receipts,    \* indexes an attest job has been asked for
  commissions, \* requests so far
  faults       \* faults so far

vars == <<stored, unembedded, members, rows, bought, requests, jobs, runs, marks,
          sweeps, receipts, commissions, faults>>

store == <<stored, unembedded, members, rows, bought, commissions>>

-----------------------------------------------------------------------------
(* BullMQ, as far as these processes use it.                               *)

Job == [state   : {"waiting", "active", "delayed", "completed"},
        tries   : 0..(Attempts - 1),
        stalled : BOOLEAN,
        by      : Workers \cup {None}]

Absent == [state |-> "absent"]

\* queue.add with a job id: an id that exists in any state is left alone.
Added(job) ==
  IF job = Absent
  THEN [state |-> "waiting", tries |-> 0, stalled |-> FALSE, by |-> None]
  ELSE job

\* Mutant of AfterThrow: one try too many.
OnceMore(job) ==
  IF job.tries < Attempts
  THEN [job EXCEPT !.state = "delayed", !.tries = @ + 1, !.by = None]
  ELSE Absent

\* A job that throws is retried after a backoff, and removed after the last try.
AfterThrow(job) ==
  IF job.tries + 1 < Attempts
  THEN [job EXCEPT !.state = "delayed", !.tries = @ + 1, !.by = None]
  ELSE Absent

NotRunning == [stage |-> "idle"]

Running == [stage    : {"query", "crawl", "embed", "ask"},
            index    : Indexes,
            asked    : SUBSET Urls,
            left     : SUBSET Urls,
            resolved : SUBSET Urls]

Works(w, i) == runs[w] # NotRunning /\ runs[w].index = i

\* The worker's lock on the job; the broker forgets it when it restarts.
Owns(w, i) == jobs[i].state = "active" /\ jobs[i].by = w

NotSweeping == [todo |-> {}, looking |-> {}, clearing |-> {}, again |-> {}]

Init ==
  /\ stored = {}
  /\ unembedded = {}
  /\ members = [i \in Indexes |-> {}]
  /\ rows = [i \in Indexes |-> [u \in Urls |-> "none"]]
  /\ bought = [i \in Indexes |-> {}]
  /\ requests = {}
  /\ jobs = [i \in Indexes |-> Absent]
  /\ runs = [w \in Workers |-> NotRunning]
  /\ marks = {}
  /\ sweeps = [w \in Workers |-> NotSweeping]
  /\ receipts = {}
  /\ commissions = 0
  /\ faults = 0

Fault ==
  /\ faults < MaxFaults
  /\ faults' = faults + 1

-----------------------------------------------------------------------------
(* The API.                                                                *)

\* intake: URLs the store has become members, the others are queued, once.
Intake(i, pages) ==
  [rows EXCEPT ![i] = [u \in Urls |->
     IF u \in pages \ stored /\ rows[i][u] = "none" THEN "owed" ELSE rows[i][u]]]

\* create or append commits its intake.
Commission(i, pages) ==
  /\ commissions < MaxCommissions
  /\ commissions' = commissions + 1
  /\ bought' = [bought EXCEPT ![i] = @ \cup pages]
  /\ members' = [members EXCEPT ![i] = @ \cup (pages \cap stored)]
  /\ rows' = Intake(i, pages)
  /\ requests' = requests \cup {i}
  /\ UNCHANGED <<stored, unembedded, jobs, runs, marks, sweeps, receipts, faults>>

\* requestCrawl.  It may never happen: the broker cannot be reached, which is
\* caught, or the process dies first.
RequestCrawl(i) ==
  /\ i \in requests
  /\ requests' = requests \ {i}
  /\ jobs' = [jobs EXCEPT ![i] = Added(@)]
  /\ UNCHANGED <<store, runs, marks, sweeps, receipts, faults>>

-----------------------------------------------------------------------------
(* The worker's processor.                                                 *)

Take(w, i) ==
  /\ runs[w] = NotRunning
  /\ jobs[i].state = "waiting"
  /\ jobs' = [jobs EXCEPT ![i] = [@ EXCEPT !.state = "active", !.by = w]]
  /\ runs' = [runs EXCEPT ![w] = [stage |-> "query", index |-> i, asked |-> {},
                                  left |-> {}, resolved |-> {}]]
  /\ UNCHANGED <<store, requests, marks, sweeps, receipts, faults>>

\* crawlIndexQueue reads the rows it will attempt; with none it returns.
Query(w) ==
  LET owed == {u \in Urls : rows[runs[w].index][u] = "owed"} IN
  /\ runs[w].stage = "query"
  /\ runs' = [runs EXCEPT ![w] =
       [@ EXCEPT !.asked = owed, !.left = owed,
                 !.stage = IF owed = {} THEN "embed" ELSE "crawl"]]
  /\ UNCHANGED <<store, requests, jobs, marks, sweeps, receipts, faults>>

\* onDocument: the request is resolved, and its row is updated without waiting.
Resolved(w, u) ==
  /\ runs' = [runs EXCEPT ![w].left = @ \ {u}, ![w].resolved = @ \cup {u}]
  /\ marks' = marks \cup {<<runs[w].index, u>>}

\* The page has content: its document is saved and joins the index.  A new or
\* changed document is not embedded.
FetchContent(w, u) ==
  LET page == Serves[u] IN
  /\ runs[w].stage = "crawl"
  /\ u \in runs[w].left
  /\ Resolved(w, u)
  /\ stored' = stored \cup {page}
  /\ \/ unembedded' = unembedded \cup {page}
     \/ page \in stored /\ UNCHANGED unembedded
  /\ members' = [members EXCEPT ![runs[w].index] = @ \cup {page}]
  /\ UNCHANGED <<rows, bought, requests, jobs, sweeps, receipts, commissions,
                 faults>>

\* The page has none: recordFetch returns the document the URL had, if any.
FetchThin(w, u) ==
  /\ runs[w].stage = "crawl"
  /\ u \in runs[w].left
  /\ IF Serves[u] \in stored
     THEN Resolved(w, u)
     ELSE /\ runs' = [runs EXCEPT ![w].left = @ \ {u}]
          /\ UNCHANGED marks
  /\ UNCHANGED <<store, requests, jobs, sweeps, receipts, faults>>

\* An error status, a disallowed URL, a blocked redirect, no response.
FetchFailed(w, u) ==
  /\ runs[w].stage = "crawl"
  /\ u \in runs[w].left
  /\ runs' = [runs EXCEPT ![w].left = @ \ {u}]
  /\ UNCHANGED <<store, requests, jobs, marks, sweeps, receipts, faults>>

\* A progress write reaches the database.
MarkCrawled(i, u) ==
  /\ <<i, u>> \in marks
  /\ marks' = marks \ {<<i, u>>}
  /\ rows' = [rows EXCEPT ![i][u] = IF @ = "owed" THEN "crawled" ELSE @]
  /\ UNCHANGED <<stored, unembedded, members, bought, requests, jobs, runs, sweeps,
                 receipts, commissions, faults>>

\* Mutants of Retire: every attempted row is written, the ones the progress
\* writes retired included; no error is recorded.
RetireAll(w) ==
  LET run == runs[w] IN
  /\ run.stage = "crawl"
  /\ run.left = {}
  /\ rows' = [rows EXCEPT ![run.index] = [u \in Urls |->
       IF u \in run.asked
       THEN IF u \in run.resolved THEN "crawled" ELSE "failed"
       ELSE rows[run.index][u]]]
  /\ runs' = [runs EXCEPT ![w].stage = "embed"]
  /\ UNCHANGED <<stored, unembedded, members, bought, requests, jobs, marks, sweeps,
                 receipts, commissions, faults>>
RetireSilently(w) ==
  LET run == runs[w] IN
  /\ run.stage = "crawl"
  /\ run.left = {}
  /\ rows' = [rows EXCEPT ![run.index] = [u \in Urls |->
       IF u \in run.asked /\ rows[run.index][u] = "owed"
       THEN "crawled" ELSE rows[run.index][u]]]
  /\ runs' = [runs EXCEPT ![w].stage = "embed"]
  /\ UNCHANGED <<stored, unembedded, members, bought, requests, jobs, marks, sweeps,
                 receipts, commissions, faults>>

\* Every attempted row still owed leaves the queue, with an error unless its
\* request was resolved.
Retire(w) ==
  LET run == runs[w] IN
  /\ run.stage = "crawl"
  /\ run.left = {}
  /\ rows' = [rows EXCEPT ![run.index] = [u \in Urls |->
       IF u \in run.asked /\ rows[run.index][u] = "owed"
       THEN IF u \in run.resolved THEN "crawled" ELSE "failed"
       ELSE rows[run.index][u]]]
  /\ runs' = [runs EXCEPT ![w].stage = "embed"]
  /\ UNCHANGED <<stored, unembedded, members, bought, requests, jobs, marks, sweeps,
                 receipts, commissions, faults>>

\* Mutant of EmbedIndex: a run that had nothing to crawl embeds nothing.
EmbedIfCrawled(w) ==
  /\ runs[w].stage = "embed"
  /\ unembedded' = IF runs[w].asked = {} THEN unembedded
                   ELSE unembedded \ members[runs[w].index]
  /\ runs' = [runs EXCEPT ![w].stage = "ask"]
  /\ UNCHANGED <<stored, members, rows, bought, requests, jobs, marks, sweeps,
                 receipts, commissions, faults>>

\* embedPending for this index.
EmbedIndex(w) ==
  /\ runs[w].stage = "embed"
  /\ unembedded' = unembedded \ members[runs[w].index]
  /\ runs' = [runs EXCEPT ![w].stage = "ask"]
  /\ UNCHANGED <<stored, members, rows, bought, requests, jobs, marks, sweeps,
                 receipts, commissions, faults>>

\* The receipt is asked for, which is never fatal, and the job completes; a job
\* the broker has forgotten cannot.
Finish(w) ==
  LET i == runs[w].index IN
  /\ runs[w].stage = "ask"
  /\ \/ receipts' = receipts \cup {i} /\ UNCHANGED faults
     \/ Fault /\ UNCHANGED receipts
  /\ runs' = [runs EXCEPT ![w] = NotRunning]
  /\ jobs' = IF Owns(w, i) THEN [jobs EXCEPT ![i].state = "completed"] ELSE jobs
  /\ UNCHANGED <<store, requests, marks, sweeps>>

\* The processor throws: the database or the embedder is down.
Throw(w) ==
  /\ Fault
  /\ runs[w] # NotRunning
  /\ runs' = [runs EXCEPT ![w] = NotRunning]
  /\ jobs' = IF Owns(w, runs[w].index)
             THEN [jobs EXCEPT ![runs[w].index] = AfterThrow(@)] ELSE jobs
  /\ UNCHANGED <<store, requests, marks, sweeps, receipts>>

\* The worker process dies and is started again.  Its job stays active.
Crash(w) ==
  /\ Fault
  /\ runs' = [runs EXCEPT ![w] = NotRunning]
  /\ sweeps' = [sweeps EXCEPT ![w] = NotSweeping]
  /\ \E lost \in SUBSET marks : marks' = marks \ lost
  /\ UNCHANGED <<store, requests, jobs, receipts>>

-----------------------------------------------------------------------------
(* The broker on its own.                                                  *)

BackoffOver(i) ==
  /\ jobs[i].state = "delayed"
  /\ jobs' = [jobs EXCEPT ![i].state = "waiting"]
  /\ UNCHANGED <<store, requests, runs, marks, sweeps, receipts, faults>>

\* An active job nobody renews the lock of is stalled: it waits again, and one
\* that stalled before is failed, hence removed.
Stalled(i) ==
  /\ jobs[i].state = "active"
  /\ ~Works(jobs[i].by, i)
  /\ jobs' = [jobs EXCEPT ![i] =
       IF @.stalled THEN Absent
       ELSE [@ EXCEPT !.state = "waiting", !.stalled = TRUE, !.by = None]]
  /\ UNCHANGED <<store, requests, runs, marks, sweeps, receipts, faults>>

\* removeOnComplete: a completed job is kept for a while.
AgedOut(i) ==
  /\ jobs[i].state = "completed"
  /\ jobs' = [jobs EXCEPT ![i] = Absent]
  /\ UNCHANGED <<store, requests, runs, marks, sweeps, receipts, faults>>

RedisRestart ==
  /\ RedisRestarts
  /\ Fault
  /\ jobs' = [i \in Indexes |-> Absent]
  /\ UNCHANGED <<store, requests, runs, marks, sweeps, receipts>>

-----------------------------------------------------------------------------
(* The sweeper, one in every worker process.                               *)

SweepQuery(w) ==
  LET owed == {i \in Indexes : \E u \in Urls : rows[i][u] = "owed"} IN
  /\ sweeps[w] = NotSweeping
  /\ owed # {}
  /\ sweeps' = [sweeps EXCEPT ![w].todo = owed]
  /\ UNCHANGED <<store, requests, jobs, runs, marks, receipts, faults>>

\* The sweeper goes through the indexes one at a time.
Between(sweep) == sweep.looking = {} /\ sweep.clearing = {} /\ sweep.again = {}

\* Mutant of SweepAsk: a running job is cleared and started over.
SweepAskOver(w, i) ==
  /\ i \in sweeps[w].todo
  /\ Between(sweeps[w])
  /\ jobs' = [jobs EXCEPT ![i] = Added(Absent)]
  /\ sweeps' = [sweeps EXCEPT ![w].todo = @ \ {i}, ![w].looking = {i}]
  /\ UNCHANGED <<store, requests, runs, marks, receipts, faults>>

\* enqueue adds the job.
SweepAsk(w, i) ==
  /\ i \in sweeps[w].todo
  /\ Between(sweeps[w])
  /\ jobs' = [jobs EXCEPT ![i] = Added(@)]
  /\ sweeps' = [sweeps EXCEPT ![w].todo = @ \ {i}, ![w].looking = {i}]
  /\ UNCHANGED <<store, requests, runs, marks, receipts, faults>>

\* Mutant of SweepLook: a finished job that holds the id is left there.
SweepLookAway(w, i) ==
  /\ i \in sweeps[w].looking
  /\ sweeps' = [sweeps EXCEPT ![w].looking = {}]
  /\ UNCHANGED <<store, requests, jobs, runs, marks, receipts, faults>>

\* It reads the state of the job it got back.  A failed one is never there to be
\* seen: removeOnFail.
SweepLook(w, i) ==
  /\ i \in sweeps[w].looking
  /\ sweeps' = [sweeps EXCEPT ![w].looking = {},
                              ![w].clearing = IF jobs[i].state = "completed"
                                              THEN {i} ELSE {}]
  /\ UNCHANGED <<store, requests, jobs, runs, marks, receipts, faults>>

\* job.remove() throws on a job a worker has locked, which is caught.
SweepClear(w, i) ==
  /\ i \in sweeps[w].clearing
  /\ IF jobs[i].state = "active"
     THEN /\ sweeps' = [sweeps EXCEPT ![w].clearing = {}]
          /\ UNCHANGED jobs
     ELSE /\ sweeps' = [sweeps EXCEPT ![w].clearing = {}, ![w].again = {i}]
          /\ jobs' = [jobs EXCEPT ![i] = Absent]
  /\ UNCHANGED <<store, requests, runs, marks, receipts, faults>>

SweepAgain(w, i) ==
  /\ i \in sweeps[w].again
  /\ jobs' = [jobs EXCEPT ![i] = Added(@)]
  /\ sweeps' = [sweeps EXCEPT ![w].again = {}]
  /\ UNCHANGED <<store, requests, runs, marks, receipts, faults>>

-----------------------------------------------------------------------------
Api ==
  \E i \in Indexes :
    \/ \E pages \in SUBSET Urls \ {{}} : Commission(i, pages)
    \/ RequestCrawl(i)

Process(w) ==
  \/ Query(w)
  \/ \E u \in Urls : FetchContent(w, u) \/ FetchThin(w, u) \/ FetchFailed(w, u)
  \/ Retire(w)
  \/ EmbedIndex(w)
  \/ Finish(w)

Sweep(w) ==
  \/ SweepQuery(w)
  \/ \E i \in Indexes : \/ SweepAsk(w, i) \/ SweepLook(w, i)
                        \/ SweepClear(w, i) \/ SweepAgain(w, i)

Broker == \E i \in Indexes : BackoffOver(i) \/ Stalled(i) \/ AgedOut(i)

Next ==
  \/ Api
  \/ \E w \in Workers : \/ \E i \in Indexes : Take(w, i)
                        \/ Process(w)
                        \/ Sweep(w)
                        \/ Throw(w)
                        \/ Crash(w)
  \/ \E i \in Indexes, u \in Urls : MarkCrawled(i, u)
  \/ Broker
  \/ RedisRestart

Spec == Init /\ [][Next]_vars

\* A worker that is up takes the oldest job and gets on with it, its timer
\* sweeps, and the broker notices a backoff that is over and a lock that lapsed.
\* The API need never enqueue and no progress write need ever land.
Fairness ==
  /\ \A w \in Workers : WF_vars(Process(w)) /\ WF_vars(Sweep(w))
  /\ \A i \in Indexes : /\ SF_vars(\E w \in Workers : Take(w, i))
                        /\ WF_vars(BackoffOver(i))
                        /\ WF_vars(Stalled(i))

FairSpec == Spec /\ Fairness

-----------------------------------------------------------------------------
(* Properties.                                                             *)

TypeOK ==
  /\ stored \subseteq Urls
  /\ unembedded \subseteq stored
  /\ members \in [Indexes -> SUBSET stored]
  /\ rows \in [Indexes -> [Urls -> {"none", "owed", "crawled", "failed"}]]
  /\ bought \in [Indexes -> SUBSET Urls]
  /\ requests \subseteq Indexes
  /\ jobs \in [Indexes -> Job \cup {Absent}]
  /\ runs \in [Workers -> Running \cup {NotRunning}]
  /\ marks \subseteq Indexes \X Urls
  /\ sweeps \in [Workers -> [todo : SUBSET Indexes, looking : SUBSET Indexes,
                             clearing : SUBSET Indexes, again : SUBSET Indexes]]
  /\ receipts \subseteq Indexes
  /\ commissions \in 0..MaxCommissions
  /\ faults \in 0..MaxFaults

\* The index holds the page: under the URL it was bought by, or under the one it
\* is served from.
Held(i, u) == u \in members[i] \/ Serves[u] \in members[i]

\* Nothing an index has paid for drops out of sight: it is owed, it is held, or
\* the index is told it is not (contracts/indexes.feature, "URLs paid for that
\* yield nothing are named").
NothingVanishes ==
  \A i \in Indexes : \A u \in bought[i] :
    Held(i, u) \/ rows[i][u] \in {"owed", "failed"}

\* "each index is only ever crawled by one at a time" (worker.ts): whatever the
\* API, the sweepers and a stalled lock make of the job, no two workers run it.
OneCrawler ==
  \A i \in Indexes : \A v, w \in Workers : Works(v, i) /\ Works(w, i) => v = w

\* When a job has completed, what it crawled is embedded: the index answers
\* without waiting for the nightly pass (crawl.processor.ts).
CompletedSearchable ==
  \A i \in Indexes : jobs[i].state = "completed" => members[i] \cap unembedded = {}

\* A row that left the queue is never written again, by a late progress write,
\* by the sweep at the end of a crawl, or by a second append of the same page.
RetiredStays ==
  [][\A i \in Indexes, u \in Urls :
       rows[i][u] \in {"crawled", "failed"} => rows'[i][u] = rows[i][u]]_rows

\* What an index holds does not wait for the nightly pass, which is parked
\* (operations/README.md): once a worker has taken the index up, its pages are
\* embedded by this run of the job or a later one, through lost workers, retries and
\* stalled locks, and whatever the crawls of other indexes store meanwhile, unless the
\* job is gone - its attempts used up, or the broker restarted.
EventuallyEmbedded ==
  \A i \in Indexes, u \in Urls :
    /\ \E w \in Workers : Works(w, i)
    /\ u \in members[i] \cap unembedded
    ~> u \notin unembedded \/ jobs[i] = Absent

-----------------------------------------------------------------------------
(* What a commission buys, kept by all of this together.                   *)

Promise == INSTANCE CrawlPromise WITH
  held    <- [i \in Indexes |-> {u \in bought[i] : Held(i, u)}],
  refused <- [i \in Indexes |-> {u \in bought[i] : rows[i][u] = "failed"}]

\* Whatever is lost between the payment and the crawl - a job, a worker, the
\* broker - every page bought is delivered or refused, and the answer stands
\* (queue/crawl.queue.ts, "delays a crawl and cannot lose one").
PromiseKept == Promise!Spec

\* The part of it that says which steps may be taken, which is what is proved.
PromiseSafe == Promise!Safe
=============================================================================
