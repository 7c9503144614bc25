----------------------------- MODULE AttestQueue -----------------------------
(***************************************************************************)
(* How an owed receipt gets written.  The debt is in Postgres: a document  *)
(* of some index that is embedded and carries no UID.  The attest queue is *)
(* only a trigger (queue/attest.queue.ts): a crawl worker adds the job of  *)
(* its index when it has embedded it, the one attester process works the   *)
(* jobs off (attest.processor.ts), and the sweeper in that same process    *)
(* asks again for whatever is owed (attest.sweeper.ts).  The first sweep   *)
(* of a process may clear a job in any state, the later ones only a job    *)
(* that has finished.                                                      *)
(*                                                                         *)
(* A job is identified with its index (attestJobId).  How a batch reaches  *)
(* the chain is Pipeline's; here a run attests its documents or throws.    *)
(***************************************************************************)
EXTENDS Integers, FiniteSets

CONSTANTS
  Indexes,        \* indexes that have an attest job
  Documents,      \* documents of the store
  Holds,          \* the members of each index; a document may be in several
  Sweeps,         \* sweeps that may be under way at once: the timer waits for none
  Attempts,       \* the attempts option of the queue
  RedisRestarts,  \* TRUE: the broker may restart, and it persists nothing
  None,           \* no slot, no index
  MaxCrawls,      \* bound: crawls that leave documents new or changed
  MaxFaults       \* bound: crashes, failed runs, broker restarts

ASSUME AttestAssumption ==
  /\ Holds \in [Indexes -> SUBSET Documents]
  /\ Attempts \in Nat \ {0}
  /\ RedisRestarts \in BOOLEAN
  /\ None \notin Indexes
  /\ None \notin Nat
  /\ MaxCrawls \in Nat
  /\ MaxFaults \in Nat

VARIABLES
  embedded,  \* documents with embedded_at set
  attested,  \* documents with attestation_uid set
  crawling,  \* indexes whose worker has recorded its crawl and not yet embedded it
  asks,      \* indexes whose worker has embedded and not yet added the job
  jobs,      \* the attest job of each index
  up,        \* whether the attester process is running
  swept,     \* whether this process has completed a sweep
  runs,      \* what each slot of the processor is doing
  sweeps,    \* what each sweep is doing
  crawls,    \* crawls so far
  faults     \* faults so far

vars == <<embedded, attested, crawling, asks, jobs, up, swept, runs, sweeps,
          crawls, faults>>

store == <<embedded, attested, crawling, crawls>>

-----------------------------------------------------------------------------
\* Mutant of Slots: concurrency 2.
TwoSlots == {1, 2}

\* The processor runs one job at a time: concurrency 1.
Slots == {1}

Job == [state   : {"waiting", "active", "delayed", "completed"},
        tries   : 0..(Attempts - 1),
        stalled : BOOLEAN,
        by      : Slots \cup {None}]

Absent == [state |-> "absent"]

\* queue.add with a job id: an id that exists in any state is left alone.
Added(job) ==
  IF job = Absent
  THEN [state |-> "waiting", tries |-> 0, stalled |-> FALSE, by |-> None]
  ELSE job

\* Mutant of AfterThrow: one try too many.
OnceMore(job) ==
  IF job.tries < Attempts
  THEN [job EXCEPT !.state = "delayed", !.tries = @ + 1, !.by = None]
  ELSE Absent

\* A run that throws is retried after a backoff; removeOnFail after the last.
AfterThrow(job) ==
  IF job.tries + 1 < Attempts
  THEN [job EXCEPT !.state = "delayed", !.tries = @ + 1, !.by = None]
  ELSE Absent

NotRunning == [index |-> None, pending |-> {}]

NotSweeping == [step |-> "idle", todo |-> {}, at |-> None]

Works(s, i) == runs[s].index = i

Owns(s, i) == jobs[i].state = "active" /\ jobs[i].by = s

Owed == embedded \ attested

Debt(i) == Holds[i] \cap Owed

\* Mutant of OwedIndexes: the query has lost attestation_uid IS NULL.
HoldingIndexes == {i \in Indexes : Holds[i] # {}}

\* SELECT DISTINCT m.index_id of embedded documents without a UID.
OwedIndexes == {i \in Indexes : Debt(i) # {}}

Init ==
  /\ embedded = {}
  /\ attested = {}
  /\ crawling = {}
  /\ asks = {}
  /\ jobs = [i \in Indexes |-> Absent]
  /\ up = TRUE
  /\ swept = FALSE
  /\ runs = [s \in Slots |-> NotRunning]
  /\ sweeps = [w \in Sweeps |-> NotSweeping]
  /\ crawls = 0
  /\ faults = 0

Fault ==
  /\ faults < MaxFaults
  /\ faults' = faults + 1

-----------------------------------------------------------------------------
(* The crawl worker.                                                       *)

\* A crawl of the index records documents that changed: what was derived of them
\* is cleared, the receipt and the stamp.
Crawl(i) ==
  /\ crawls < MaxCrawls
  /\ crawls' = crawls + 1
  /\ crawling' = crawling \cup {i}
  /\ \E changed \in SUBSET Holds[i] \ {{}} :
       /\ embedded' = embedded \ changed
       /\ attested' = attested \ changed
  /\ UNCHANGED <<asks, jobs, up, swept, runs, sweeps, faults>>

\* The worker embeds what its index holds, document by document, and may fail on
\* the way; when it has them all it will ask for the receipts.
EmbedPass(i) ==
  /\ i \in crawling
  /\ \E done \in SUBSET Holds[i] :
       /\ embedded' = embedded \cup done
       /\ IF Holds[i] \subseteq embedded'
          THEN crawling' = crawling \ {i} /\ asks' = asks \cup {i}
          ELSE UNCHANGED <<crawling, asks>>
  /\ UNCHANGED <<attested, crawls, jobs, up, swept, runs, sweeps, faults>>

\* The worker asks for the receipts.  It may never happen: the broker cannot be
\* reached, which is caught, or the worker dies first.
Ask(i) ==
  /\ i \in asks
  /\ asks' = asks \ {i}
  /\ jobs' = [jobs EXCEPT ![i] = Added(@)]
  /\ UNCHANGED <<store, up, swept, runs, sweeps, faults>>

-----------------------------------------------------------------------------
(* The attester's processor.                                               *)

\* The job is locked and attestPending selects what its index owes.
Take(s, i) ==
  /\ up
  /\ runs[s] = NotRunning
  /\ jobs[i].state = "waiting"
  /\ jobs' = [jobs EXCEPT ![i] = [@ EXCEPT !.state = "active", !.by = s]]
  /\ runs' = [runs EXCEPT ![s] = [index |-> i, pending |-> Debt(i)]]
  /\ UNCHANGED <<store, asks, up, swept, sweeps, faults>>

\* A batch has landed and its UIDs are written.
AttestBatch(s) ==
  \E batch \in SUBSET runs[s].pending \ {{}} :
    /\ attested' = attested \cup batch
    /\ runs' = [runs EXCEPT ![s].pending = @ \ batch]
    /\ UNCHANGED <<embedded, crawling, crawls, asks, jobs, up, swept, sweeps, faults>>

\* A job the broker has forgotten cannot complete.
Finish(s) ==
  LET i == runs[s].index IN
  /\ runs[s] # NotRunning
  /\ runs[s].pending = {}
  /\ runs' = [runs EXCEPT ![s] = NotRunning]
  /\ jobs' = IF Owns(s, i)
             THEN [jobs EXCEPT ![i] = [@ EXCEPT !.state = "completed", !.by = None]]
             ELSE jobs
  /\ UNCHANGED <<store, asks, up, swept, sweeps, faults>>

\* A batch of one is refused or times out, or the database cannot be reached.
Throw(s) ==
  /\ Fault
  /\ runs[s] # NotRunning
  /\ runs' = [runs EXCEPT ![s] = NotRunning]
  /\ jobs' = IF Owns(s, runs[s].index)
             THEN [jobs EXCEPT ![runs[s].index] = AfterThrow(@)] ELSE jobs
  /\ UNCHANGED <<store, asks, up, swept, sweeps>>

\* The process dies: killed, or the query of a sweep fails and nobody catches
\* it.  The job it ran stays active, under a lock that will lapse.
Crash ==
  /\ Fault
  /\ up
  /\ up' = FALSE
  /\ runs' = [s \in Slots |-> NotRunning]
  /\ sweeps' = [w \in Sweeps |-> NotSweeping]
  /\ UNCHANGED <<store, asks, jobs, swept>>

Boot ==
  /\ ~up
  /\ up' = TRUE
  /\ swept' = FALSE
  /\ UNCHANGED <<store, asks, jobs, runs, sweeps, faults>>

-----------------------------------------------------------------------------
(* The broker on its own.                                                  *)

BackoffOver(i) ==
  /\ jobs[i].state = "delayed"
  /\ jobs' = [jobs EXCEPT ![i].state = "waiting"]
  /\ UNCHANGED <<store, asks, up, swept, runs, sweeps, faults>>

\* A running attester looks for active jobs whose lock nobody renews: such a job
\* waits again, and one that stalled before is failed, hence removed.
Stalled(i) ==
  /\ up
  /\ jobs[i].state = "active"
  /\ ~Works(jobs[i].by, i)
  /\ jobs' = [jobs EXCEPT ![i] =
       IF @.stalled THEN Absent
       ELSE [@ EXCEPT !.state = "waiting", !.stalled = TRUE, !.by = None]]
  /\ UNCHANGED <<store, asks, up, swept, runs, sweeps, faults>>

\* removeOnComplete: a completed job is kept for an hour.
AgedOut(i) ==
  /\ jobs[i].state = "completed"
  /\ jobs' = [jobs EXCEPT ![i] = Absent]
  /\ UNCHANGED <<store, asks, up, swept, runs, sweeps, faults>>

RedisRestart ==
  /\ RedisRestarts
  /\ Fault
  /\ jobs' = [i \in Indexes |-> Absent]
  /\ UNCHANGED <<store, asks, up, swept, runs, sweeps>>

-----------------------------------------------------------------------------
(* The sweeper: on boot and on a timer, one index after another, one call  *)
(* to the broker at a time.  A call that throws gives up its index only.   *)

SweepQuery(w) ==
  /\ up
  /\ sweeps[w].step = "idle"
  /\ sweeps' = [sweeps EXCEPT ![w] = [step |-> "next", todo |-> OwedIndexes,
                                      at |-> None]]
  /\ UNCHANGED <<store, asks, jobs, up, swept, runs, faults>>

SweepAdd(w, i) ==
  /\ sweeps[w].step = "next"
  /\ i \in sweeps[w].todo
  /\ jobs' = [jobs EXCEPT ![i] = Added(@)]
  /\ sweeps' = [sweeps EXCEPT ![w] = [step |-> "look", todo |-> @.todo \ {i},
                                      at |-> i]]
  /\ UNCHANGED <<store, asks, up, swept, runs, faults>>

\* Mutant of Stale: a finished job that holds the id is left there.
StaleAtBoot(job) == ~swept

\* The job holding the id will not do the work.  A failed job is never there to
\* be seen: removeOnFail.
Stale(job) == job.state = "completed" \/ ~swept

SweepLook(w) ==
  /\ sweeps[w].step = "look"
  /\ sweeps' = [sweeps EXCEPT ![w].step =
       IF Stale(jobs[sweeps[w].at]) THEN "remove" ELSE "next"]
  /\ UNCHANGED <<store, asks, jobs, up, swept, runs, faults>>

\* job.remove() throws on a job that is locked.  The lock of a process that died
\* may have lapsed by now, or not.
SweepRemove(w) ==
  LET i == sweeps[w].at IN
  /\ sweeps[w].step = "remove"
  /\ \/ /\ jobs[i].state = "active"
        /\ sweeps' = [sweeps EXCEPT ![w].step = "next"]
        /\ UNCHANGED jobs
     \/ /\ jobs[i].state = "active" => ~Works(jobs[i].by, i)
        /\ sweeps' = [sweeps EXCEPT ![w].step = "again"]
        /\ jobs' = [jobs EXCEPT ![i] = Absent]
  /\ UNCHANGED <<store, asks, up, swept, runs, faults>>

SweepAgain(w) ==
  /\ sweeps[w].step = "again"
  /\ jobs' = [jobs EXCEPT ![sweeps[w].at] = Added(@)]
  /\ sweeps' = [sweeps EXCEPT ![w].step = "next"]
  /\ UNCHANGED <<store, asks, up, swept, runs, faults>>

SweepDone(w) ==
  /\ sweeps[w].step = "next"
  /\ sweeps[w].todo = {}
  /\ sweeps' = [sweeps EXCEPT ![w] = NotSweeping]
  /\ swept' = TRUE
  /\ UNCHANGED <<store, asks, jobs, up, runs, faults>>

-----------------------------------------------------------------------------
Worker(i) == Crawl(i) \/ EmbedPass(i) \/ Ask(i)

Process(s) == AttestBatch(s) \/ Finish(s)

Sweep(w) ==
  \/ SweepQuery(w)
  \/ \E i \in Indexes : SweepAdd(w, i)
  \/ SweepLook(w) \/ SweepRemove(w) \/ SweepAgain(w) \/ SweepDone(w)

Broker(i) == BackoffOver(i) \/ Stalled(i) \/ AgedOut(i)

Next ==
  \/ \E i \in Indexes : Worker(i) \/ Broker(i)
  \/ \E s \in Slots : \/ \E i \in Indexes : Take(s, i)
                      \/ Process(s)
                      \/ Throw(s)
  \/ \E w \in Sweeps : Sweep(w)
  \/ Crash
  \/ Boot
  \/ RedisRestart

Spec == Init /\ [][Next]_vars

\* A process that is up works its oldest job off and its timer sweeps; one that
\* died is started again (operations/wuzzy-attester.hcl is a service); the
\* broker notices a backoff that is over and a lock that lapsed.  A worker need
\* never ask.
Fairness ==
  /\ WF_vars(Boot)
  /\ \A s \in Slots : WF_vars(Process(s))
  /\ \A i \in Indexes : /\ SF_vars(\E s \in Slots : Take(s, i))
                        /\ WF_vars(BackoffOver(i))
                        /\ WF_vars(Stalled(i))
  /\ \A w \in Sweeps : WF_vars(Sweep(w))

FairSpec == Spec /\ Fairness

-----------------------------------------------------------------------------
(* Properties.                                                             *)

Run == [index : Indexes \cup {None}, pending : SUBSET Documents]

Sweeping == [step : {"idle", "next", "look", "remove", "again"},
             todo : SUBSET Indexes,
             at   : Indexes \cup {None}]

TypeOK ==
  /\ embedded \subseteq Documents
  /\ attested \subseteq Documents
  /\ crawling \subseteq Indexes
  /\ asks \subseteq Indexes
  /\ jobs \in [Indexes -> Job \cup {Absent}]
  /\ up \in BOOLEAN
  /\ swept \in BOOLEAN
  /\ runs \in [Slots -> Run]
  /\ sweeps \in [Sweeps -> Sweeping]
  /\ \A w \in Sweeps : sweeps[w].step \in {"look", "remove", "again"} =>
                         sweeps[w].at \in Indexes
  /\ crawls \in 0..MaxCrawls
  /\ faults \in 0..MaxFaults

\* What a run is about to pay for still has no receipt.  The job id alone does
\* not give this: a document two indexes share is in the work of two jobs
\* (attest.processor.ts, "Concurrency is one job per attester on purpose").
NeverPaidTwice == \A s \in Slots : runs[s].pending \cap attested = {}

\* Whatever becomes of the job that should have written it - a worker that never
\* asks, a job that fails for good, is kept after it completed or is left active
\* by a dead process, a broker that restarts empty - a receipt is written in the
\* end (attest.queue.ts, "delays a receipt and cannot lose one"), unless the document
\* changes first and has to be embedded again.
OwedIsAttested == \A d \in Documents : d \in Owed ~> d \notin Owed

\* The sweeper asks for nothing the attester would not do: once the documents
\* stop changing, the queue comes to rest.
ComesToRest ==
  <>[](\A i \in Indexes : jobs[i].state \notin {"waiting", "active", "delayed"})
=============================================================================
