-------------------------- MODULE CrawlQueueProofs --------------------------
(***************************************************************************)
(* Theorems about CrawlQueue, for any number of indexes, URLs, workers,    *)
(* attempts, commissions and faults, and any redirects.                    *)
(***************************************************************************)
EXTENDS CrawlQueue, TLAPS

(***************************************************************************)
(* Types.                                                                  *)
(***************************************************************************)
LEMMA JobTypes ==
  /\ \A job \in Job \cup {Absent} : Added(job) \in Job
  /\ \A job \in Job : AfterThrow(job) \in Job \cup {Absent}
<1>1. \A job \in Job \cup {Absent} : Added(job) \in Job
  BY QueueAssumption DEF Job, Absent, Added
<1>2. ASSUME NEW job \in Job PROVE AfterThrow(job) \in Job \cup {Absent}
  <2>1. CASE job.tries + 1 < Attempts
    <3>1. job.tries + 1 \in 0..(Attempts - 1)
      BY <2>1, QueueAssumption DEF Job
    <3>2. [job EXCEPT !.state = "delayed", !.tries = @ + 1, !.by = None] \in Job
      BY <3>1 DEF Job
    <3>3. QED
      BY <2>1, <3>2 DEF AfterThrow
  <2>2. CASE ~(job.tries + 1 < Attempts)
    BY <2>2 DEF AfterThrow
  <2>3. QED
    BY <2>1, <2>2
<1>3. QED
  BY <1>1, <1>2

LEMMA RunTypes ==
  ASSUME NEW run \in Running, NEW stage \in {"query", "crawl", "embed", "ask"},
         NEW u \in Urls
  PROVE  /\ [run EXCEPT !.stage = stage] \in Running
         /\ [run EXCEPT !.left = @ \ {u}] \in Running
         /\ [run EXCEPT !.left = @ \ {u}, !.resolved = @ \cup {u}] \in Running
BY DEF Running

LEMMA StageOfRun ==
  \A run \in Running \cup {NotRunning} :
    run # NotRunning \/ run.stage \in {"query", "crawl", "embed", "ask"} => run \in Running
BY DEF Running, NotRunning

LEMMA StateOfJob ==
  \A job \in Job \cup {Absent} :
    job.state \in {"waiting", "active", "delayed", "completed"} => job \in Job
BY DEF Job, Absent

LEMMA InitTypes == Init => TypeOK
BY QueueAssumption DEF Init, TypeOK, Absent, NotRunning, NotSweeping

LEMMA ApiTypes ==
  ASSUME TypeOK, Api
  PROVE  TypeOK'
<1>1. ASSUME NEW i \in Indexes, NEW pages \in SUBSET Urls \ {{}}, Commission(i, pages)
      PROVE  TypeOK'
  BY <1>1, QueueAssumption DEF Commission, Intake, TypeOK
<1>2. ASSUME NEW i \in Indexes, RequestCrawl(i) PROVE TypeOK'
  BY <1>2, JobTypes DEF RequestCrawl, TypeOK, store
<1>3. QED
  BY <1>1, <1>2 DEF Api

LEMMA TakeTypes ==
  ASSUME TypeOK, NEW w \in Workers, NEW i \in Indexes, Take(w, i)
  PROVE  TypeOK'
<1>1. jobs[i] \in Job
  BY StateOfJob DEF Take, TypeOK
<1>2. [jobs[i] EXCEPT !.state = "active", !.by = w] \in Job
  BY <1>1 DEF Job
<1>3. [stage |-> "query", index |-> i, asked |-> {}, left |-> {}, resolved |-> {}]
        \in Running
  BY DEF Running
<1>4. QED
  BY <1>2, <1>3 DEF Take, TypeOK, store

LEMMA ProcessTypes ==
  ASSUME TypeOK, NEW w \in Workers, Process(w)
  PROVE  TypeOK'
<1> DEFINE run == runs[w]
<1>0. run \in Running /\ run.index \in Indexes
  BY StageOfRun DEF Process, Query, FetchContent, FetchThin, FetchFailed, Retire,
                    EmbedIndex, Finish, TypeOK, Running
<1>1. CASE Query(w)
  BY <1>0, <1>1 DEF Query, TypeOK, store, Running
<1>2. ASSUME NEW u \in Urls, FetchContent(w, u) PROVE TypeOK'
  <2>1. Serves[u] \in Urls
    BY QueueAssumption
  <2>2. runs' \in [Workers -> Running \cup {NotRunning}]
    <3>1. runs' = [runs EXCEPT ![w] = [run EXCEPT !.left = @ \ {u},
                                                   !.resolved = @ \cup {u}]]
      BY <1>2 DEF FetchContent, Resolved
    <3>2. QED
      BY <1>0, <3>1, RunTypes DEF TypeOK
  <2>3. marks' \subseteq Indexes \X Urls
    BY <1>0, <1>2 DEF FetchContent, Resolved, TypeOK
  <2>4. /\ stored' \subseteq Urls
        /\ unembedded' \subseteq stored'
        /\ members' \in [Indexes -> SUBSET stored']
    BY <1>0, <1>2, <2>1 DEF FetchContent, TypeOK
  <2>5. QED
    BY <1>2, <2>2, <2>3, <2>4 DEF FetchContent, TypeOK
<1>3. ASSUME NEW u \in Urls, FetchThin(w, u) PROVE TypeOK'
  <2>1. runs' \in [Workers -> Running \cup {NotRunning}]
    <3>1. CASE Serves[u] \in stored
      <4>1. runs' = [runs EXCEPT ![w] = [run EXCEPT !.left = @ \ {u},
                                                     !.resolved = @ \cup {u}]]
        BY <1>3, <3>1 DEF FetchThin, Resolved
      <4>2. QED
        BY <1>0, <4>1, RunTypes DEF TypeOK
    <3>2. CASE Serves[u] \notin stored
      <4>1. runs' = [runs EXCEPT ![w] = [run EXCEPT !.left = @ \ {u}]]
        BY <1>3, <3>2 DEF FetchThin
      <4>2. QED
        BY <1>0, <4>1, RunTypes DEF TypeOK
    <3>3. QED
      BY <3>1, <3>2
  <2>2. marks' \subseteq Indexes \X Urls
    BY <1>0, <1>3 DEF FetchThin, Resolved, TypeOK
  <2>3. QED
    BY <1>3, <2>1, <2>2 DEF FetchThin, TypeOK, store
<1>4. ASSUME NEW u \in Urls, FetchFailed(w, u) PROVE TypeOK'
  <2>1. runs' \in [Workers -> Running \cup {NotRunning}]
    <3>1. runs' = [runs EXCEPT ![w] = [run EXCEPT !.left = @ \ {u}]]
      BY <1>4 DEF FetchFailed
    <3>2. QED
      BY <1>0, <3>1, RunTypes DEF TypeOK
  <2>2. QED
    BY <1>4, <2>1 DEF FetchFailed, TypeOK, store
<1>5. CASE Retire(w)
  BY <1>0, <1>5 DEF Retire, TypeOK, Running
<1>6. CASE EmbedIndex(w)
  BY <1>0, <1>6 DEF EmbedIndex, TypeOK, Running
<1>7. CASE Finish(w)
  <2>1. jobs' \in [Indexes -> Job \cup {Absent}]
    <3>1. \A job \in Job : [job EXCEPT !.state = "completed"] \in Job
      BY DEF Job
    <3>2. Owns(w, run.index) => jobs[run.index] \in Job
      BY <1>0, StateOfJob DEF Owns, TypeOK
    <3>3. QED
      BY <1>0, <1>7, <3>1, <3>2 DEF Finish, TypeOK
  <2>2. QED
    BY <1>0, <1>7, <2>1, QueueAssumption DEF Finish, Fault, TypeOK, store
<1>8. QED
  BY <1>1, <1>2, <1>3, <1>4, <1>5, <1>6, <1>7 DEF Process

LEMMA SweepTypes ==
  ASSUME TypeOK, NEW w \in Workers, Sweep(w)
  PROVE  TypeOK'
<1> DEFINE Sweeping == [todo : SUBSET Indexes, looking : SUBSET Indexes,
                        clearing : SUBSET Indexes, again : SUBSET Indexes]
<1>0. ASSUME NEW sweep \in Sweeping, NEW s \in SUBSET Indexes
      PROVE  /\ [sweep EXCEPT !.todo = s] \in Sweeping
             /\ [sweep EXCEPT !.looking = s] \in Sweeping
             /\ [sweep EXCEPT !.clearing = s] \in Sweeping
             /\ [sweep EXCEPT !.again = s] \in Sweeping
  OBVIOUS
<1>s. sweeps \in [Workers -> Sweeping] /\ sweeps[w] \in Sweeping
  BY DEF TypeOK
<1>1. CASE SweepQuery(w)
  <2> DEFINE owed == {i \in Indexes : \E u \in Urls : rows[i][u] = "owed"}
  <2>1. sweeps' = [sweeps EXCEPT ![w] = [sweeps[w] EXCEPT !.todo = owed]]
    BY <1>1 DEF SweepQuery
  <2>2. owed \in SUBSET Indexes
    OBVIOUS
  <2> HIDE DEF owed
  <2>3. sweeps' \in [Workers -> Sweeping]
    BY <1>0, <1>s, <2>1, <2>2
  <2>4. QED
    BY <1>1, <2>3 DEF SweepQuery, TypeOK, store
<1>2. ASSUME NEW i \in Indexes, SweepAsk(w, i) PROVE TypeOK'
  <2>1. sweeps' \in [Workers -> Sweeping]
    <3> DEFINE asked == [sweeps[w] EXCEPT !.todo = @ \ {i}]
    <3>1. sweeps' = [sweeps EXCEPT ![w] = [asked EXCEPT !.looking = {i}]]
      BY <1>2 DEF SweepAsk
    <3>2. asked \in Sweeping
      BY <1>0, <1>s
    <3> HIDE DEF asked
    <3>3. [asked EXCEPT !.looking = {i}] \in Sweeping
      BY <1>0, <3>2
    <3>4. QED
      BY <1>s, <3>1, <3>3
  <2>2. jobs' \in [Indexes -> Job \cup {Absent}]
    BY <1>2, JobTypes DEF SweepAsk, TypeOK
  <2>3. QED
    BY <1>2, <2>1, <2>2 DEF SweepAsk, TypeOK, store
<1>3. ASSUME NEW i \in Indexes, SweepLook(w, i) PROVE TypeOK'
  <2>1. sweeps' \in [Workers -> Sweeping]
    <3> DEFINE done   == IF jobs[i].state = "completed" THEN {i} ELSE {}
               looked == [sweeps[w] EXCEPT !.looking = {}]
    <3>1. sweeps' = [sweeps EXCEPT ![w] = [looked EXCEPT !.clearing = done]]
      BY <1>3 DEF SweepLook
    <3>2. looked \in Sweeping
      BY <1>0, <1>s
    <3>3. done \in SUBSET Indexes
      OBVIOUS
    <3> HIDE DEF looked, done
    <3>4. [looked EXCEPT !.clearing = done] \in Sweeping
      BY <1>0, <3>2, <3>3
    <3>5. QED
      BY <1>s, <3>1, <3>4
  <2>2. QED
    BY <1>3, <2>1 DEF SweepLook, TypeOK, store
<1>4. ASSUME NEW i \in Indexes, SweepClear(w, i) PROVE TypeOK'
  <2>1. sweeps' \in [Workers -> Sweeping]
    <3> DEFINE cleared == [sweeps[w] EXCEPT !.clearing = {}]
    <3>1. \/ sweeps' = [sweeps EXCEPT ![w] = cleared]
          \/ sweeps' = [sweeps EXCEPT ![w] = [cleared EXCEPT !.again = {i}]]
      BY <1>4 DEF SweepClear
    <3>2. cleared \in Sweeping
      BY <1>0, <1>s
    <3> HIDE DEF cleared
    <3>3. [cleared EXCEPT !.again = {i}] \in Sweeping
      BY <1>0, <3>2
    <3>4. QED
      BY <1>s, <3>1, <3>2, <3>3
  <2>2. jobs' \in [Indexes -> Job \cup {Absent}]
    BY <1>4 DEF SweepClear, TypeOK
  <2>3. QED
    BY <1>4, <2>1, <2>2 DEF SweepClear, TypeOK, store
<1>5. ASSUME NEW i \in Indexes, SweepAgain(w, i) PROVE TypeOK'
  BY <1>5, JobTypes DEF SweepAgain, TypeOK, store
<1>6. QED
  BY <1>1, <1>2, <1>3, <1>4, <1>5 DEF Sweep

LEMMA FaultTypes ==
  ASSUME TypeOK, NEW w \in Workers, Throw(w) \/ Crash(w) \/ RedisRestart
  PROVE  TypeOK'
<1>1. CASE Throw(w)
  <2>1. runs[w] \in Running /\ runs[w].index \in Indexes
    BY <1>1, StageOfRun DEF Throw, TypeOK, Running
  <2>2. jobs' \in [Indexes -> Job \cup {Absent}]
    BY <1>1, <2>1, StateOfJob, JobTypes DEF Throw, Owns, TypeOK
  <2>3. QED
    BY <1>1, <2>2, QueueAssumption DEF Throw, Fault, TypeOK, store
<1>2. CASE Crash(w)
  BY <1>2, QueueAssumption DEF Crash, Fault, TypeOK, store, NotSweeping
<1>3. CASE RedisRestart
  BY <1>3, QueueAssumption DEF RedisRestart, Fault, TypeOK, store
<1>4. QED
  BY <1>1, <1>2, <1>3

LEMMA BrokerTypes ==
  ASSUME TypeOK, NEW i \in Indexes, BackoffOver(i) \/ Stalled(i) \/ AgedOut(i)
  PROVE  TypeOK'
<1>1. jobs[i] \in Job
  BY StateOfJob DEF BackoffOver, Stalled, AgedOut, TypeOK
<1>2. /\ [jobs[i] EXCEPT !.state = "waiting"] \in Job
      /\ [jobs[i] EXCEPT !.state = "waiting", !.stalled = TRUE, !.by = None] \in Job
  BY <1>1 DEF Job
<1>3. jobs' \in [Indexes -> Job \cup {Absent}]
  BY <1>2 DEF BackoffOver, Stalled, AgedOut, TypeOK
<1>4. QED
  BY <1>3 DEF BackoffOver, Stalled, AgedOut, TypeOK, store

LEMMA MarkTypes ==
  ASSUME TypeOK, NEW i \in Indexes, NEW u \in Urls, MarkCrawled(i, u)
  PROVE  TypeOK'
BY DEF MarkCrawled, TypeOK

LEMMA StepTypes == TypeOK /\ [Next]_vars => TypeOK'
<1> SUFFICES ASSUME TypeOK, [Next]_vars PROVE TypeOK'
  OBVIOUS
<1>1. CASE UNCHANGED vars
  BY <1>1 DEF vars, TypeOK
<1>2. CASE RedisRestart
  BY <1>2, QueueAssumption DEF RedisRestart, Fault, TypeOK, store
<1>3. QED
  BY <1>1, <1>2, ApiTypes, TakeTypes, ProcessTypes, SweepTypes, FaultTypes,
     BrokerTypes, MarkTypes DEF Next, Broker

\* Every variable stays in its type, whatever the workers, the sweepers and the
\* broker do to each other.
THEOREM QueueTypes == Spec => []TypeOK
BY InitTypes, StepTypes, PTL DEF Spec

(***************************************************************************)
(* One crawler per index.  The invariant says why: a worker that runs an   *)
(* index holds the lock of its job, and a job has one lock.  Only a broker *)
(* that forgets its jobs breaks it.                                        *)
(***************************************************************************)
Locked == \A w \in Workers, i \in Indexes : Works(w, i) => Owns(w, i)

LEMMA LockedInit == Init => Locked
BY DEF Init, Locked, Works

\* A step that starts no run and takes no running job away.
LEMMA LockedKept ==
  ASSUME Locked,
         \A w \in Workers, i \in Indexes : Works(w, i)' => Works(w, i),
         \A i \in Indexes : jobs[i].state = "active" => jobs'[i] = jobs[i]
  PROVE  Locked'
BY DEF Locked, Owns

LEMMA AddedKeeps == \A job : job.state = "active" => Added(job) = job
BY DEF Added, Absent

LEMMA ApiLocked ==
  ASSUME TypeOK, Locked, Api
  PROVE  Locked'
<1>1. \A w \in Workers, i \in Indexes : Works(w, i)' => Works(w, i)
  BY DEF Api, Commission, RequestCrawl, Works
<1>2. \A i \in Indexes : jobs[i].state = "active" => jobs'[i] = jobs[i]
  BY AddedKeeps DEF Api, Commission, RequestCrawl, TypeOK
<1>3. QED
  BY <1>1, <1>2, LockedKept

LEMMA TakeLocked ==
  ASSUME TypeOK, Locked, NEW w \in Workers, NEW i \in Indexes, Take(w, i)
  PROVE  Locked'
<1> SUFFICES ASSUME NEW v \in Workers, NEW j \in Indexes, Works(v, j)'
             PROVE  Owns(v, j)'
  BY DEF Locked
<1>1. jobs[i] \in Job /\ jobs[i].state = "waiting"
  BY StateOfJob DEF Take, TypeOK
<1>2. CASE v = w
  <2>1. j = i
    BY <1>2 DEF Take, Works, TypeOK
  <2>2. jobs'[i] = [jobs[i] EXCEPT !.state = "active", !.by = w]
    BY DEF Take, TypeOK
  <2>3. jobs'[i].state = "active" /\ jobs'[i].by = w
    BY <1>1, <2>2 DEF Job
  <2>4. QED
    BY <1>2, <2>1, <2>3 DEF Owns
<1>3. CASE v # w
  <2>1. Works(v, j)
    BY <1>3 DEF Take, Works, TypeOK
  <2>2. Owns(v, j)
    BY <2>1 DEF Locked
  <2>3. jobs'[j] = jobs[j]
    BY <1>1, <2>2 DEF Owns, Take, TypeOK
  <2>4. QED
    BY <2>2, <2>3 DEF Owns
<1>4. QED
  BY <1>2, <1>3

LEMMA ProcessLocked ==
  ASSUME TypeOK, Locked, NEW w \in Workers, Process(w)
  PROVE  Locked'
<1> DEFINE run == runs[w]
<1>0. run \in Running
  BY StageOfRun DEF Process, Query, FetchContent, FetchThin, FetchFailed, Retire,
                    EmbedIndex, Finish, TypeOK, Running
<1>1. CASE ~Finish(w)
  <2>1. runs'[w].index = run.index
    <3>1. CASE Query(w)
      BY <1>0, <3>1 DEF Query, TypeOK, Running
    <3>2. ASSUME NEW u \in Urls,
                 FetchContent(w, u) \/ FetchThin(w, u) \/ FetchFailed(w, u)
          PROVE  runs'[w].index = run.index
      <4>1. CASE FetchContent(w, u)
        BY <1>0, <4>1 DEF FetchContent, Resolved, TypeOK, Running
      <4>2. CASE FetchThin(w, u)
        BY <1>0, <4>2 DEF FetchThin, Resolved, TypeOK, Running
      <4>3. CASE FetchFailed(w, u)
        BY <1>0, <4>3 DEF FetchFailed, TypeOK, Running
      <4>4. QED
        BY <3>2, <4>1, <4>2, <4>3
    <3>3. CASE Retire(w)
      BY <1>0, <3>3 DEF Retire, TypeOK, Running
    <3>4. CASE EmbedIndex(w)
      BY <1>0, <3>4 DEF EmbedIndex, TypeOK, Running
    <3>5. QED
      BY <1>1, <3>1, <3>2, <3>3, <3>4 DEF Process
  <2>2. run # NotRunning
    BY <1>0 DEF Running, NotRunning
  <2>3. \A v \in Workers \ {w} : runs'[v] = runs[v]
    BY <1>1 DEF Process, Query, FetchContent, FetchThin, FetchFailed, Resolved,
                Retire, EmbedIndex, TypeOK
  <2>4. jobs' = jobs
    BY <1>1 DEF Process, Query, FetchContent, FetchThin, FetchFailed, Retire,
                EmbedIndex
  <2>5. \A v \in Workers, i \in Indexes : Works(v, i)' => Works(v, i)
    BY <2>1, <2>2, <2>3 DEF Works
  <2>6. QED
    BY <2>4, <2>5, LockedKept
<1>2. CASE Finish(w)
  <2> SUFFICES ASSUME NEW v \in Workers, NEW j \in Indexes, Works(v, j)'
               PROVE  Owns(v, j)'
    BY DEF Locked
  <2>1. v # w /\ Works(v, j)
    BY <1>2 DEF Finish, Works, TypeOK
  <2>2. Owns(v, j)
    BY <2>1 DEF Locked
  <2>3. jobs'[j] = jobs[j]
    BY <1>2, <2>1, <2>2 DEF Finish, Owns, TypeOK
  <2>4. QED
    BY <2>2, <2>3 DEF Owns
<1>3. QED
  BY <1>1, <1>2

LEMMA FaultLocked ==
  ASSUME TypeOK, Locked, NEW w \in Workers, Throw(w) \/ Crash(w)
  PROVE  Locked'
<1> SUFFICES ASSUME NEW v \in Workers, NEW j \in Indexes, Works(v, j)'
             PROVE  Owns(v, j)'
  BY DEF Locked
<1>1. v # w /\ Works(v, j)
  BY DEF Throw, Crash, Works, TypeOK
<1>2. Owns(v, j)
  BY <1>1 DEF Locked
<1>3. jobs'[j] = jobs[j]
  BY <1>1, <1>2 DEF Throw, Crash, Owns, TypeOK
<1>4. QED
  BY <1>2, <1>3 DEF Owns

LEMMA SweepLocked ==
  ASSUME TypeOK, Locked, NEW w \in Workers, Sweep(w)
  PROVE  Locked'
<1>1. \A v \in Workers, i \in Indexes : Works(v, i)' => Works(v, i)
  BY DEF Sweep, SweepQuery, SweepAsk, SweepLook, SweepClear, SweepAgain, Works
<1>2. \A i \in Indexes : jobs[i].state = "active" => jobs'[i] = jobs[i]
  <2>1. CASE SweepQuery(w)
    BY <2>1 DEF SweepQuery
  <2>2. ASSUME NEW j \in Indexes, SweepLook(w, j) PROVE jobs' = jobs
    BY <2>2 DEF SweepLook
  <2>3. ASSUME NEW j \in Indexes, SweepAsk(w, j) \/ SweepAgain(w, j)
        PROVE  \A i \in Indexes : jobs[i].state = "active" => jobs'[i] = jobs[i]
    <3>1. jobs' = [jobs EXCEPT ![j] = Added(jobs[j])]
      BY <2>3 DEF SweepAsk, SweepAgain
    <3>2. QED
      BY <3>1, AddedKeeps DEF TypeOK
  <2>4. ASSUME NEW j \in Indexes, SweepClear(w, j)
        PROVE  \A i \in Indexes : jobs[i].state = "active" => jobs'[i] = jobs[i]
    BY <2>4 DEF SweepClear, TypeOK
  <2>5. QED
    BY <2>1, <2>3, <2>4, <2>2 DEF Sweep
<1>3. QED
  BY <1>1, <1>2, LockedKept

LEMMA BrokerLocked ==
  ASSUME TypeOK, Locked, NEW i \in Indexes, BackoffOver(i) \/ Stalled(i) \/ AgedOut(i)
  PROVE  Locked'
<1> SUFFICES ASSUME NEW v \in Workers, NEW j \in Indexes, Works(v, j)'
             PROVE  Owns(v, j)'
  BY DEF Locked
<1>1. Works(v, j)
  BY DEF BackoffOver, Stalled, AgedOut, Works
<1>2. Owns(v, j)
  BY <1>1 DEF Locked
<1>3. jobs'[j] = jobs[j]
  BY <1>1, <1>2 DEF BackoffOver, Stalled, AgedOut, Owns, TypeOK
<1>4. QED
  BY <1>2, <1>3 DEF Owns

LEMMA StepLocked ==
  ASSUME RedisRestarts = FALSE
  PROVE  TypeOK /\ Locked /\ [Next]_vars => Locked'
<1> SUFFICES ASSUME TypeOK, Locked, [Next]_vars PROVE Locked'
  OBVIOUS
<1>1. CASE UNCHANGED vars
  BY <1>1 DEF vars, Locked, Works, Owns
<1>2. ASSUME NEW i \in Indexes, NEW u \in Urls, MarkCrawled(i, u) PROVE Locked'
  BY <1>2 DEF MarkCrawled, Locked, Works, Owns
<1>3. ~RedisRestart
  BY DEF RedisRestart
<1>4. QED
  BY <1>1, <1>2, <1>3, ApiLocked, TakeLocked, ProcessLocked, SweepLocked,
     FaultLocked, BrokerLocked DEF Next, Broker

\* No two workers crawl one index, as long as the broker keeps what it was told:
\* the job of an index is one, adding it again leaves it alone, the sweeper's
\* remove does not touch a locked job, and only a dead worker's job stalls
\* (worker.ts, "each index is only ever crawled by one at a time").
THEOREM OneCrawlerHolds ==
  ASSUME RedisRestarts = FALSE
  PROVE  Spec => []OneCrawler
<1>1. TypeOK /\ Locked => OneCrawler
  BY DEF Locked, OneCrawler, Owns
<1>2. TypeOK /\ Locked /\ [Next]_vars => Locked'
  BY StepLocked
<1>3. QED
  BY <1>1, <1>2, QueueTypes, LockedInit, PTL DEF Spec

(***************************************************************************)
(* A row that left the queue.                                              *)
(***************************************************************************)
LEMMA RowsWritten ==
  ASSUME Next
  PROVE  \/ UNCHANGED <<rows, bought>>
         \/ \E i \in Indexes, pages \in SUBSET Urls \ {{}} : Commission(i, pages)
         \/ \E w \in Workers : Retire(w)
         \/ \E i \in Indexes, u \in Urls : MarkCrawled(i, u)
<1>1. ASSUME NEW w \in Workers, Process(w), ~Retire(w)
      PROVE  UNCHANGED <<rows, bought>>
  BY <1>1 DEF Process, Query, FetchContent, FetchThin, FetchFailed, EmbedIndex, Finish,
              store
<1>2. ASSUME NEW w \in Workers, Sweep(w) PROVE UNCHANGED <<rows, bought>>
  BY <1>2 DEF Sweep, SweepQuery, SweepAsk, SweepLook, SweepClear, SweepAgain, store
<1>3. ASSUME NEW w \in Workers,
             Throw(w) \/ Crash(w) \/ RedisRestart \/ \E i \in Indexes : Take(w, i)
      PROVE  UNCHANGED <<rows, bought>>
  BY <1>3 DEF Throw, Crash, RedisRestart, Take, store
<1>4. ASSUME RedisRestart \/ Broker \/ \E i \in Indexes : RequestCrawl(i)
      PROVE  UNCHANGED <<rows, bought>>
  BY <1>4 DEF RedisRestart, Broker, BackoffOver, Stalled, AgedOut, RequestCrawl, store
<1>5. QED
  BY <1>1, <1>2, <1>3, <1>4 DEF Next, Api

LEMMA StepRetires ==
  ASSUME TypeOK, Next, NEW i \in Indexes, NEW u \in Urls,
         rows[i][u] \in {"crawled", "failed"}
  PROVE  rows'[i][u] = rows[i][u]
<1>1. ASSUME NEW j \in Indexes, NEW pages \in SUBSET Urls \ {{}}, Commission(j, pages)
      PROVE  rows'[i][u] = rows[i][u]
  BY <1>1 DEF Commission, Intake, TypeOK
<1>2. ASSUME NEW w \in Workers, Retire(w) PROVE rows'[i][u] = rows[i][u]
  BY <1>2 DEF Retire, TypeOK
<1>3. ASSUME NEW j \in Indexes, NEW v \in Urls, MarkCrawled(j, v)
      PROVE  rows'[i][u] = rows[i][u]
  BY <1>3 DEF MarkCrawled, TypeOK
<1>4. CASE UNCHANGED rows
  BY <1>4
<1>5. QED
  BY <1>1, <1>2, <1>3, <1>4, RowsWritten

\* No late progress write, second crawl or second append rewrites the outcome of
\* a page (index-crawl.ts, "WHERE crawled_at IS NULL").
THEOREM OutcomeStays == Spec => RetiredStays
<1>1. TypeOK /\ [Next]_vars =>
        [\A i \in Indexes, u \in Urls :
           rows[i][u] \in {"crawled", "failed"} => rows'[i][u] = rows[i][u]]_rows
  BY StepRetires DEF vars
<1>2. QED
  BY <1>1, QueueTypes, PTL DEF Spec, RetiredStays

(***************************************************************************)
(* The safety half of the promise.  A row exists only of a page bought, so *)
(* each step adds to what is held or to what is refused, or neither.       *)
(***************************************************************************)
RowsBought ==
  \A i \in Indexes, u \in Urls : rows[i][u] # "none" => u \in bought[i]

LEMMA StepRowsBought == TypeOK /\ RowsBought /\ [Next]_vars => RowsBought'
<1> SUFFICES ASSUME TypeOK, RowsBought, [Next]_vars PROVE RowsBought'
  OBVIOUS
<1>1. ASSUME NEW j \in Indexes, NEW pages \in SUBSET Urls \ {{}}, Commission(j, pages)
      PROVE  RowsBought'
  BY <1>1 DEF Commission, Intake, TypeOK, RowsBought
<1>2. ASSUME NEW w \in Workers, Retire(w) PROVE RowsBought'
  BY <1>2 DEF Retire, TypeOK, RowsBought
<1>3. ASSUME NEW j \in Indexes, NEW v \in Urls, MarkCrawled(j, v) PROVE RowsBought'
  BY <1>3 DEF MarkCrawled, TypeOK, RowsBought
<1>4. CASE UNCHANGED <<rows, bought>>
  BY <1>4 DEF RowsBought
<1>5. CASE UNCHANGED vars
  BY <1>4, <1>5 DEF vars
<1>6. QED
  BY <1>1, <1>2, <1>3, <1>4, <1>5, RowsWritten

HeldPages == [i \in Indexes |-> {u \in bought[i] : Held(i, u)}]
RefusedPages == [i \in Indexes |-> {u \in bought[i] : rows[i][u] = "failed"}]

LEMMA InitPromise == Init => Promise!Init
BY DEF Init, Promise!Init, Held

\* Membership grows, and nothing else that the promise is about changes.
LEMMA GrowthDelivers ==
  ASSUME TypeOK, NEW i \in Indexes, NEW pages \in SUBSET Urls,
         members' = [members EXCEPT ![i] = @ \cup pages],
         UNCHANGED <<bought, rows>>
  PROVE  \E more \in SUBSET bought[i] : Promise!Deliver(i, more)
<1> DEFINE more == HeldPages'[i]
<1>1. HeldPages' = [HeldPages EXCEPT ![i] = @ \cup more]
  <2>1. \A j \in Indexes : members[j] \subseteq members'[j]
    BY DEF TypeOK
  <2>2. \A j \in Indexes \ {i} : members'[j] = members[j]
    BY DEF TypeOK
  <2>3. \A j \in Indexes, u \in Urls : Held(j, u) => Held(j, u)'
    BY <2>1 DEF Held
  <2>4. \A j \in Indexes \ {i}, u \in Urls : Held(j, u)' = Held(j, u)
    BY <2>2 DEF Held
  <2>5. \A j \in Indexes : bought'[j] = bought[j] /\ bought[j] \subseteq Urls
    BY DEF TypeOK
  <2> HIDE DEF Held
  <2>6. \A j \in Indexes \ {i} : HeldPages'[j] = HeldPages[j]
    BY <2>4, <2>5 DEF HeldPages
  <2>7. HeldPages'[i] = HeldPages[i] \cup more
    BY <2>3, <2>5 DEF HeldPages
  <2>8. QED
    BY <2>6, <2>7 DEF HeldPages
<1>2. RefusedPages' = RefusedPages
  BY DEF RefusedPages
<1>3. more \in SUBSET bought[i]
  BY DEF HeldPages, Held
<1>4. QED
  BY <1>1, <1>2, <1>3 DEF Promise!Deliver, HeldPages, RefusedPages

LEMMA CommissionBuys ==
  ASSUME TypeOK, RowsBought, NEW i \in Indexes, NEW pages \in SUBSET Urls \ {{}},
         Commission(i, pages)
  PROVE  \E known \in SUBSET Urls : /\ known \subseteq bought[i] \cup pages
                                   /\ Promise!Buy(i, pages, known)
<1> DEFINE known == HeldPages'[i]
<1>1. /\ bought' = [bought EXCEPT ![i] = @ \cup pages]
      /\ members' = [members EXCEPT ![i] = @ \cup (pages \cap stored)]
      /\ rows' = Intake(i, pages)
  BY DEF Commission
<1>2. HeldPages' = [HeldPages EXCEPT ![i] = @ \cup known]
  <2>1. \A j \in Indexes, u \in Urls : Held(j, u) => Held(j, u)'
    BY <1>1 DEF TypeOK, Held
  <2>2. \A j \in Indexes \ {i}, u \in Urls : Held(j, u)' = Held(j, u)
    BY <1>1 DEF TypeOK, Held
  <2>3. /\ bought'[i] = bought[i] \cup pages
        /\ \A j \in Indexes \ {i} : bought'[j] = bought[j]
        /\ \A j \in Indexes : bought[j] \subseteq Urls
    BY <1>1 DEF TypeOK
  <2>4. \A j \in Indexes \ {i} : HeldPages'[j] = HeldPages[j]
    BY <2>2, <2>3 DEF HeldPages
  <2>5. HeldPages'[i] = HeldPages[i] \cup known
    BY <2>1, <2>3 DEF HeldPages
  <2>6. QED
    BY <2>4, <2>5 DEF HeldPages
<1>3. RefusedPages' = RefusedPages
  <2>1. \A j \in Indexes, u \in Urls : rows'[j][u] = "failed" <=> rows[j][u] = "failed"
    BY <1>1 DEF Intake, TypeOK
  <2>2. \A j \in Indexes, u \in Urls : rows[j][u] = "failed" => u \in bought[j]
    BY DEF RowsBought
  <2>3. \A j \in Indexes : bought[j] \subseteq bought'[j] /\ bought'[j] \subseteq Urls
    BY <1>1 DEF TypeOK
  <2>4. \A j \in Indexes : RefusedPages'[j] = RefusedPages[j]
    BY <2>1, <2>2, <2>3 DEF RefusedPages
  <2>5. QED
    BY <2>4 DEF RefusedPages
<1>4. known \in SUBSET Urls /\ known \subseteq bought[i] \cup pages
  BY <1>1 DEF TypeOK, HeldPages, Held
<1>5. QED
  BY <1>1, <1>2, <1>3, <1>4 DEF Promise!Buy, HeldPages, RefusedPages

LEMMA RetireRefuses ==
  ASSUME TypeOK, NEW w \in Workers, NEW i \in Indexes, runs[w].index = i, Retire(w)
  PROVE  \E pages \in SUBSET bought[i] : Promise!Refuse(i, pages)
<1> DEFINE pages == RefusedPages'[i]
<1>1. /\ \A j \in Indexes \ {i} : rows'[j] = rows[j]
      /\ \A u \in Urls : rows[i][u] = "failed" => rows'[i][u] = "failed"
      /\ UNCHANGED <<bought, members>>
  BY DEF Retire, TypeOK
<1>2. RefusedPages' = [RefusedPages EXCEPT ![i] = @ \cup pages]
  <2>1. \A j \in Indexes \ {i} : RefusedPages'[j] = RefusedPages[j]
    BY <1>1 DEF RefusedPages
  <2>2. RefusedPages'[i] = RefusedPages[i] \cup pages
    BY <1>1 DEF RefusedPages, TypeOK
  <2>3. QED
    BY <2>1, <2>2 DEF RefusedPages
<1>3. HeldPages' = HeldPages
  BY <1>1 DEF HeldPages, Held
<1>4. pages \in SUBSET bought[i]
  BY <1>1 DEF RefusedPages
<1>5. QED
  BY <1>1, <1>2, <1>3, <1>4 DEF Promise!Refuse, HeldPages, RefusedPages

LEMMA NothingSaid ==
  ASSUME UNCHANGED <<bought, members, rows>>
  PROVE  UNCHANGED Promise!vars
BY DEF Promise!vars, Held

LEMMA StepPromise ==
  ASSUME TypeOK, RowsBought, Next
  PROVE  Promise!Next \/ UNCHANGED Promise!vars
<1>1. ASSUME NEW i \in Indexes, NEW pages \in SUBSET Urls \ {{}}, Commission(i, pages)
      PROVE  Promise!Next
  BY <1>1, CommissionBuys DEF Promise!Next
<1>2. ASSUME NEW w \in Workers, Retire(w) PROVE Promise!Next
  <2>1. runs[w].index \in Indexes
    BY <1>2, StageOfRun DEF Retire, TypeOK, Running
  <2>2. QED
    BY <1>2, <2>1, RetireRefuses DEF Promise!Next
<1>3. ASSUME NEW i \in Indexes, NEW u \in Urls, MarkCrawled(i, u)
      PROVE  UNCHANGED Promise!vars
  <2>1. \A j \in Indexes, v \in Urls : rows'[j][v] = "failed" <=> rows[j][v] = "failed"
    BY <1>3 DEF MarkCrawled, TypeOK
  <2>2. UNCHANGED <<bought, members>> /\ \A j \in Indexes : bought[j] \subseteq Urls
    BY <1>3 DEF MarkCrawled, TypeOK
  <2>3. \A j \in Indexes : RefusedPages'[j] = RefusedPages[j]
    BY <2>1, <2>2 DEF RefusedPages
  <2>4. RefusedPages' = RefusedPages /\ HeldPages' = HeldPages
    BY <2>2, <2>3 DEF RefusedPages, HeldPages, Held
  <2>5. QED
    BY <2>2, <2>4 DEF Promise!vars, RefusedPages, HeldPages
<1>4. ASSUME NEW w \in Workers, NEW u \in Urls, FetchContent(w, u)
      PROVE  Promise!Next
  <2>1. runs[w].index \in Indexes /\ {Serves[u]} \in SUBSET Urls
    BY <1>4, StageOfRun, QueueAssumption DEF FetchContent, TypeOK, Running
  <2>2. /\ members' = [members EXCEPT ![runs[w].index] = @ \cup {Serves[u]}]
        /\ UNCHANGED <<bought, rows>>
    BY <1>4 DEF FetchContent
  <2>3. QED
    BY <2>1, <2>2, GrowthDelivers DEF Promise!Next
<1>5. CASE UNCHANGED <<rows, bought, members>>
  BY <1>5, NothingSaid
<1>6. UNCHANGED <<rows, bought>> =>
        \/ UNCHANGED members
        \/ \E i \in Indexes, pages \in SUBSET Urls \ {{}} : Commission(i, pages)
        \/ \E w \in Workers, u \in Urls : FetchContent(w, u)
  <2>1. ASSUME NEW w \in Workers, Process(w),
               ~\E u \in Urls : FetchContent(w, u)
        PROVE  UNCHANGED members
    BY <2>1 DEF Process, Query, FetchThin, FetchFailed, Retire, EmbedIndex, Finish, store
  <2>2. ASSUME NEW w \in Workers, Sweep(w) PROVE UNCHANGED members
    BY <2>2 DEF Sweep, SweepQuery, SweepAsk, SweepLook, SweepClear, SweepAgain, store
  <2>3. ASSUME NEW w \in Workers,
               Throw(w) \/ Crash(w) \/ \E i \in Indexes : Take(w, i)
        PROVE  UNCHANGED members
    BY <2>3 DEF Throw, Crash, Take, store
  <2>4. ASSUME \/ RedisRestart
               \/ Broker
               \/ \E i \in Indexes : RequestCrawl(i) \/ \E u \in Urls : MarkCrawled(i, u)
        PROVE  UNCHANGED members
    BY <2>4 DEF RedisRestart, Broker, BackoffOver, Stalled, AgedOut, RequestCrawl,
                MarkCrawled, store
  <2>5. QED
    BY <2>1, <2>2, <2>3, <2>4 DEF Next, Api
<1>7. QED
  BY <1>1, <1>2, <1>3, <1>4, <1>5, <1>6, RowsWritten

\* Every step of the API, the workers, the sweepers and the broker, faults
\* included, is a purchase, a delivery, a refusal or none of these: what an index
\* was told it holds or does not get is never taken back (queue/crawl.queue.ts).
THEOREM PromiseIsSafe == Spec => PromiseSafe
<1>1. Init => RowsBought
  BY DEF Init, RowsBought
<1>2. TypeOK /\ RowsBought /\ [Next]_vars => [Promise!Next]_(Promise!vars)
  <2>1. ASSUME UNCHANGED vars PROVE UNCHANGED Promise!vars
    BY <2>1, NothingSaid DEF vars
  <2>2. QED
    BY <2>1, StepPromise
<1>3. QED
  BY <1>1, <1>2, InitPromise, QueueTypes, StepRowsBought, PTL
     DEF Spec, PromiseSafe, Promise!Safe

-----------------------------------------------------------------------------
(***************************************************************************)
(* What an index that shares no page with another can count on, for any    *)
(* number of indexes, URLs, workers, commissions and faults, and any       *)
(* redirects.  Indexes that do share one have neither: the crawl of one    *)
(* may bring in a page that the other finds empty, or change one after the *)
(* other's job completed.                                                  *)
(***************************************************************************)

\* The pages an index may come to hold: those it bought, and where they lead.
Reach(i) == bought[i] \cup {Serves[u] : u \in bought[i]}

\* So far, no two indexes have bought into the same pages.
Apart == \A i, j \in Indexes : i # j => Reach(i) \cap Reach(j) = {}

\* An index that is alone shares nothing.
LEMMA AloneIsApart == ASSUME \A i, j \in Indexes : i = j PROVE Apart
BY DEF Apart

\* What is crawled, stored and held was bought.
LeftBought ==
  \A w \in Workers : runs[w] # NotRunning => runs[w].left \subseteq bought[runs[w].index]

StoredBought == \A p \in stored : \E i \in Indexes : p \in Reach(i)

MembersBought == \A i \in Indexes : members[i] \subseteq Reach(i)

BoughtInv == RowsBought /\ LeftBought /\ StoredBought /\ MembersBought

\* A document an index may come to hold is in it.
Joined == \A i \in Indexes : stored \cap Reach(i) \subseteq members[i]

\* Where a page that is out of the queue has gone.
MarksHeld == \A i \in Indexes, u \in Urls : <<i, u>> \in marks => Held(i, u)

ResolvedHeld ==
  \A w \in Workers : runs[w] # NotRunning =>
    \A u \in runs[w].resolved : Held(runs[w].index, u)

CrawledHeld == \A i \in Indexes, u \in Urls : rows[i][u] = "crawled" => Held(i, u)

DebtInv == Joined /\ MarksHeld /\ ResolvedHeld /\ CrawledHeld /\ NothingVanishes

-----------------------------------------------------------------------------
(* Which steps change what.                                                *)

\* The steps that make a document, or a member.
LEMMA StoreWritten ==
  ASSUME Next
  PROVE  \/ UNCHANGED <<stored, members>>
         \/ \E i \in Indexes, pages \in SUBSET Urls \ {{}} : Commission(i, pages)
         \/ \E w \in Workers, u \in Urls : FetchContent(w, u)
<1>1. ASSUME NEW w \in Workers, Process(w), ~\E u \in Urls : FetchContent(w, u)
      PROVE  UNCHANGED <<stored, members>>
  BY <1>1 DEF Process, Query, FetchThin, FetchFailed, Retire, EmbedIndex, Finish, store
<1>2. ASSUME NEW w \in Workers, Sweep(w) PROVE UNCHANGED <<stored, members>>
  BY <1>2 DEF Sweep, SweepQuery, SweepAsk, SweepLook, SweepClear, SweepAgain, store
<1>3. ASSUME NEW w \in Workers, Throw(w) \/ Crash(w) \/ \E i \in Indexes : Take(w, i)
      PROVE  UNCHANGED <<stored, members>>
  BY <1>3 DEF Throw, Crash, Take, store
<1>4. ASSUME \/ RedisRestart
             \/ Broker
             \/ \E i \in Indexes : RequestCrawl(i) \/ \E u \in Urls : MarkCrawled(i, u)
      PROVE  UNCHANGED <<stored, members>>
  BY <1>4 DEF RedisRestart, Broker, BackoffOver, Stalled, AgedOut, RequestCrawl,
              MarkCrawled, store
<1>5. QED
  BY <1>1, <1>2, <1>3, <1>4 DEF Next, Api

\* Which page a fetch is of, and for whom.
LEMMA Fetching ==
  ASSUME TypeOK, NEW w \in Workers, NEW u \in Urls, FetchContent(w, u) \/ FetchThin(w, u)
  PROVE  runs[w] \in Running /\ runs[w].index \in Indexes /\ Serves[u] \in Urls
BY StageOfRun, QueueAssumption DEF FetchContent, FetchThin, TypeOK, Running

LEMMA MembersGrow ==
  ASSUME TypeOK, Next
  PROVE  \A i \in Indexes : members[i] \subseteq members'[i]
<1>1. ASSUME NEW j \in Indexes, NEW pages \in SUBSET Urls \ {{}}, Commission(j, pages)
      PROVE  \A i \in Indexes : members[i] \subseteq members'[i]
  BY <1>1 DEF Commission, TypeOK
<1>2. ASSUME NEW w \in Workers, NEW u \in Urls, FetchContent(w, u)
      PROVE  \A i \in Indexes : members[i] \subseteq members'[i]
  BY <1>2, Fetching DEF FetchContent, TypeOK
<1>3. QED
  BY <1>1, <1>2, StoreWritten

LEMMA HeldStays ==
  ASSUME TypeOK, Next, NEW i \in Indexes, NEW u, Held(i, u) PROVE Held(i, u)'
BY MembersGrow DEF Held

LEMMA BoughtWritten ==
  ASSUME Next
  PROVE  \/ bought' = bought
         \/ \E i \in Indexes, pages \in SUBSET Urls \ {{}} : Commission(i, pages)
BY RowsWritten DEF Retire, MarkCrawled

LEMMA BoughtGrows ==
  ASSUME TypeOK, Next
  PROVE  \A i \in Indexes : bought[i] \subseteq bought'[i] /\ Reach(i) \subseteq Reach(i)'
<1>1. \A i \in Indexes : bought[i] \subseteq bought'[i]
  BY BoughtWritten DEF Commission, TypeOK
<1>2. QED
  BY <1>1 DEF Reach

\* Indexes that share a page have shared it ever since.
LEMMA ApartBefore ==
  ASSUME TypeOK, Next, Apart' PROVE Apart
BY BoughtGrows DEF Apart

\* A worker attempts only what is owed, and what is owed was bought.
LEMMA StepLeft ==
  ASSUME TypeOK, RowsBought, LeftBought, Next PROVE LeftBought'
<1> SUFFICES ASSUME NEW v \in Workers, runs'[v] # NotRunning, NEW x \in runs'[v].left,
                    NEW j, j = runs'[v].index
             PROVE  x \in bought'[j]
  BY DEF LeftBought
<1>1. CASE runs[v] # NotRunning /\ j = runs[v].index /\ x \in runs[v].left
  <2>1. j \in Indexes /\ x \in bought[j]
    BY <1>1 DEF LeftBought, TypeOK, Running
  <2>2. QED
    BY <2>1, BoughtGrows
<1>2. CASE runs'[v] = runs[v]
  BY <1>1, <1>2
<1>3. ASSUME NEW w \in Workers, Process(w) PROVE x \in bought'[j]
  <2>0. /\ w # v => runs'[v] = runs[v]
        /\ runs[w] \in Running /\ runs[w] # NotRunning
    <3>1. runs[w] \in Running
      BY <1>3, StageOfRun DEF Process, Query, FetchContent, FetchThin, FetchFailed, Retire,
         EmbedIndex, Finish, TypeOK
    <3>2. w # v => runs'[v] = runs[v]
      BY <1>3 DEF Process, Query, FetchContent, FetchThin, FetchFailed, Resolved, Retire,
         EmbedIndex, Finish, TypeOK
    <3>3. QED
      BY <3>1, <3>2 DEF Running, NotRunning
  <2>1. CASE w = v /\ Query(v)
    <3>1. /\ runs'[v].index = runs[v].index
          /\ runs'[v].left = {u \in Urls : rows[runs[v].index][u] = "owed"}
      BY <2>0, <2>1 DEF Query, TypeOK, Running
    <3>2. j \in Indexes /\ rows[j][x] = "owed" /\ x \in Urls
      BY <2>0, <2>1, <3>1 DEF Running
    <3>3. x \in bought[j]
      BY <3>2 DEF RowsBought
    <3>4. QED
      BY <3>2, <3>3, BoughtGrows
  <2>2. CASE w = v /\ (Retire(v) \/ EmbedIndex(v))
    <3>1. runs'[v].index = runs[v].index /\ runs'[v].left = runs[v].left
      BY <2>0, <2>2 DEF Retire, EmbedIndex, TypeOK, Running
    <3>2. QED
      BY <1>1, <2>0, <2>2, <3>1
  <2>3. CASE w = v /\ Finish(v)
    BY <2>3 DEF Finish, TypeOK
  <2>4. ASSUME NEW u \in Urls, w = v,
               FetchContent(v, u) \/ FetchThin(v, u) \/ FetchFailed(v, u)
        PROVE  x \in bought'[j]
    <3> DEFINE less == [runs[v] EXCEPT !.left = @ \ {u}]
               more == [runs[v] EXCEPT !.left = @ \ {u}, !.resolved = @ \cup {u}]
    <3>1. runs' = [runs EXCEPT ![v] = less] \/ runs' = [runs EXCEPT ![v] = more]
      BY <2>4 DEF FetchContent, FetchThin, FetchFailed, Resolved
    <3>2. /\ less.left = runs[v].left \ {u} /\ less.index = runs[v].index
          /\ more.left = runs[v].left \ {u} /\ more.index = runs[v].index
      BY <2>0, <2>4 DEF Running
    <3>3. runs'[v] = less \/ runs'[v] = more
      BY <3>1 DEF TypeOK
    <3>4. runs'[v].index = runs[v].index /\ runs'[v].left \subseteq runs[v].left
      BY <3>2, <3>3
    <3>5. QED
      BY <1>1, <2>0, <2>4, <3>4
  <2>5. CASE w # v
    BY <1>2, <2>0, <2>5
  <2>6. QED
    BY <1>3, <2>1, <2>2, <2>3, <2>4, <2>5 DEF Process
<1>4. ASSUME NEW w \in Workers, Throw(w) \/ Crash(w) PROVE x \in bought'[j]
  BY <1>2, <1>4 DEF Throw, Crash, TypeOK
<1>5. ASSUME NEW w \in Workers, NEW i \in Indexes, Take(w, i) PROVE x \in bought'[j]
  <2>1. w = v => runs'[v].left = {}
    BY <1>5 DEF Take, TypeOK
  <2>2. QED
    BY <1>2, <1>5, <2>1 DEF Take, TypeOK
<1>6. ASSUME NEW w \in Workers, Sweep(w) PROVE runs' = runs
  BY <1>6 DEF Sweep, SweepQuery, SweepAsk, SweepLook, SweepClear, SweepAgain
<1>7. ASSUME \/ RedisRestart \/ Broker \/ Api
             \/ \E i \in Indexes, u \in Urls : MarkCrawled(i, u)
      PROVE  runs' = runs
  BY <1>7 DEF RedisRestart, Broker, BackoffOver, Stalled, AgedOut, Api, Commission,
              RequestCrawl, MarkCrawled
<1>8. QED
  BY <1>2, <1>3, <1>4, <1>5, <1>6, <1>7 DEF Next

\* The page a worker fetches is of its index.
LEMMA FetchedReach ==
  ASSUME TypeOK, LeftBought, NEW w \in Workers, NEW u \in Urls,
         FetchContent(w, u) \/ FetchThin(w, u)
  PROVE  Serves[u] \in Reach(runs[w].index)
<1>1. runs[w] # NotRunning /\ u \in runs[w].left
  BY Fetching DEF FetchContent, FetchThin, Running, NotRunning
<1>2. QED
  BY <1>1 DEF LeftBought, Reach

LEMMA StepBought ==
  ASSUME TypeOK, BoughtInv, Next PROVE BoughtInv'
<1>1. RowsBought' /\ LeftBought'
  BY StepRowsBought, StepLeft DEF BoughtInv
<1>2. \A i \in Indexes : Reach(i) \subseteq Reach(i)'
  BY BoughtGrows
<1>3. ASSUME NEW w \in Workers, NEW u \in Urls, FetchContent(w, u)
      PROVE  StoredBought' /\ MembersBought'
  <2>1. runs[w].index \in Indexes /\ Serves[u] \in Reach(runs[w].index)
    BY <1>3, Fetching, FetchedReach DEF BoughtInv
  <2>2. /\ stored' = stored \cup {Serves[u]}
        /\ members' = [members EXCEPT ![runs[w].index] = @ \cup {Serves[u]}]
    BY <1>3 DEF FetchContent
  <2>3. StoredBought'
    BY <1>2, <2>1, <2>2 DEF BoughtInv, StoredBought
  <2>4. MembersBought'
    BY <1>2, <2>1, <2>2 DEF BoughtInv, MembersBought, TypeOK
  <2>5. QED
    BY <2>3, <2>4
<1>4. ASSUME NEW j \in Indexes, NEW pages \in SUBSET Urls \ {{}}, Commission(j, pages)
      PROVE  StoredBought' /\ MembersBought'
  <2>1. /\ stored' = stored
        /\ members' = [members EXCEPT ![j] = @ \cup (pages \cap stored)]
        /\ pages \subseteq Reach(j)'
    BY <1>4 DEF Commission, Reach, TypeOK
  <2>2. StoredBought'
    BY <1>2, <2>1 DEF BoughtInv, StoredBought
  <2>3. MembersBought'
    BY <1>2, <2>1 DEF BoughtInv, MembersBought, TypeOK
  <2>4. QED
    BY <2>2, <2>3
<1>5. ASSUME UNCHANGED <<stored, members>> PROVE StoredBought' /\ MembersBought'
  BY <1>2, <1>5 DEF BoughtInv, StoredBought, MembersBought
<1>6. StoredBought' /\ MembersBought'
  BY <1>3, <1>4, <1>5, StoreWritten
<1>7. QED
  BY <1>1, <1>6 DEF BoughtInv

\* A document joins the index whose page it is: what is fetched joins at once, and
\* what a purchase finds is there under the URL it names, or was there already.
LEMMA StepJoined ==
  ASSUME TypeOK, BoughtInv, Joined, Apart', Next PROVE Joined'
<1>0. Apart /\ \A i \in Indexes : members[i] \subseteq members'[i]
  BY ApartBefore, MembersGrow
<1> SUFFICES ASSUME NEW i \in Indexes, NEW p \in stored', p \in Reach(i)'
             PROVE  p \in members'[i]
  BY DEF Joined
<1>1. ASSUME NEW w \in Workers, NEW u \in Urls, FetchContent(w, u) PROVE p \in members'[i]
  <2>1. runs[w].index \in Indexes /\ Serves[u] \in Reach(runs[w].index)
    BY <1>1, Fetching, FetchedReach DEF BoughtInv
  <2>2. /\ stored' = stored \cup {Serves[u]} /\ bought' = bought
        /\ members' = [members EXCEPT ![runs[w].index] = @ \cup {Serves[u]}]
    BY <1>1 DEF FetchContent
  <2>3. p \in Reach(i)
    BY <2>2 DEF Reach
  <2>4. CASE p \in stored
    BY <1>0, <2>3, <2>4 DEF Joined
  <2>5. CASE p = Serves[u]
    <3>1. i = runs[w].index
      BY <1>0, <2>1, <2>3, <2>5 DEF Apart
    <3>2. QED
      BY <2>2, <2>5, <3>1 DEF TypeOK
  <2>6. QED
    BY <2>2, <2>4, <2>5
<1>2. ASSUME NEW j \in Indexes, NEW pages \in SUBSET Urls \ {{}}, Commission(j, pages)
      PROVE  p \in members'[i]
  <2>1. /\ stored' = stored
        /\ members' = [members EXCEPT ![j] = @ \cup (pages \cap stored)]
        /\ bought' = [bought EXCEPT ![j] = @ \cup pages]
    BY <1>2 DEF Commission
  <2>2. CASE p \in Reach(i)
    BY <1>0, <2>1, <2>2 DEF Joined
  <2>3. CASE p \in pages /\ i = j
    BY <2>1, <2>3 DEF TypeOK
  <2>4. CASE p \notin Reach(i)
    <3>1. PICK k \in Indexes : p \in Reach(k)
      BY <2>1 DEF BoughtInv, StoredBought
    <3>2. p \in Reach(k)'
      BY <3>1, BoughtGrows
    <3>3. k = i
      BY <3>2 DEF Apart
    <3>4. QED
      BY <2>4, <3>1, <3>3
  <2>5. QED
    BY <2>2, <2>4
<1>3. CASE UNCHANGED <<stored, members, bought>>
  BY <1>3 DEF Joined, Reach
<1>4. QED
  BY <1>1, <1>2, <1>3, StoreWritten, BoughtWritten

\* A page that a fetch resolves is held from then on: it has just become a member,
\* or it is a document, hence one already.
LEMMA FetchHolds ==
  ASSUME TypeOK, LeftBought, Joined, NEW w \in Workers, NEW u \in Urls,
         NEW i, i = runs[w].index,
         \/ FetchContent(w, u)
         \/ FetchThin(w, u) /\ Serves[u] \in stored
  PROVE  Held(i, u)'
<1>1. i \in Indexes /\ Serves[u] \in Reach(i)
  BY Fetching, FetchedReach
<1>2. CASE FetchContent(w, u)
  <2>1. Serves[u] \in members'[i]
    BY <1>1, <1>2 DEF FetchContent, TypeOK
  <2>2. QED
    BY <2>1 DEF Held
<1>3. CASE FetchThin(w, u) /\ Serves[u] \in stored
  <2>1. members' = members
    BY <1>3 DEF FetchThin, store
  <2>2. QED
    BY <1>1, <1>3, <2>1 DEF Joined, Held
<1>4. QED
  BY <1>2, <1>3

\* What is marked was resolved.
LEMMA StepMarks ==
  ASSUME TypeOK, LeftBought, Joined, MarksHeld, Next PROVE MarksHeld'
<1>1. \/ marks' \subseteq marks
      \/ \E w \in Workers, u \in Urls :
           /\ FetchContent(w, u) \/ (FetchThin(w, u) /\ Serves[u] \in stored)
           /\ marks' = marks \cup {<<runs[w].index, u>>}
  <2>1. ASSUME NEW w \in Workers, Process(w),
               ~\E u \in Urls : FetchContent(w, u) \/ FetchThin(w, u)
        PROVE  marks' = marks
    BY <2>1 DEF Process, Query, FetchFailed, Retire, EmbedIndex, Finish
  <2>2. ASSUME NEW w \in Workers, Sweep(w) PROVE marks' = marks
    BY <2>2 DEF Sweep, SweepQuery, SweepAsk, SweepLook, SweepClear, SweepAgain
  <2>3. ASSUME NEW w \in Workers, Throw(w) \/ Crash(w) \/ \E i \in Indexes : Take(w, i)
        PROVE  marks' \subseteq marks
    BY <2>3 DEF Throw, Crash, Take
  <2>4. ASSUME RedisRestart \/ Broker \/ Api PROVE marks' = marks
    BY <2>4 DEF RedisRestart, Broker, BackoffOver, Stalled, AgedOut, Api, Commission,
                RequestCrawl
  <2>5. ASSUME NEW i \in Indexes, NEW u \in Urls, MarkCrawled(i, u)
        PROVE  marks' \subseteq marks
    BY <2>5 DEF MarkCrawled
  <2>6. ASSUME NEW w \in Workers, NEW u \in Urls, FetchContent(w, u)
        PROVE  marks' = marks \cup {<<runs[w].index, u>>}
    BY <2>6 DEF FetchContent, Resolved
  <2>7. ASSUME NEW w \in Workers, NEW u \in Urls, FetchThin(w, u)
        PROVE  \/ marks' = marks
               \/ Serves[u] \in stored /\ marks' = marks \cup {<<runs[w].index, u>>}
    BY <2>7 DEF FetchThin, Resolved
  <2>8. QED
    BY <2>1, <2>2, <2>3, <2>4, <2>5, <2>6, <2>7 DEF Next
<1>2. ASSUME NEW i \in Indexes, NEW u \in Urls, <<i, u>> \in marks PROVE Held(i, u)'
  BY <1>2, HeldStays DEF MarksHeld
<1>3. ASSUME NEW i \in Indexes, NEW u \in Urls, <<i, u>> \in marks' PROVE Held(i, u)'
  <2>1. CASE <<i, u>> \in marks
    BY <1>2, <2>1
  <2>2. CASE <<i, u>> \notin marks
    <3>1. PICK w \in Workers, x \in Urls :
            /\ FetchContent(w, x) \/ (FetchThin(w, x) /\ Serves[x] \in stored)
            /\ <<i, u>> = <<runs[w].index, x>>
      BY <1>1, <1>3, <2>2
    <3>2. QED
      BY <3>1, FetchHolds
  <2>3. QED
    BY <2>1, <2>2
<1>4. QED
  BY <1>3 DEF MarksHeld

\* A run resolves only what is held.
LEMMA StepResolved ==
  ASSUME TypeOK, LeftBought, Joined, ResolvedHeld, Next PROVE ResolvedHeld'
<1> SUFFICES ASSUME NEW v \in Workers, runs'[v] # NotRunning, NEW x \in runs'[v].resolved,
                    NEW j, j = runs'[v].index
             PROVE  Held(j, x)'
  BY DEF ResolvedHeld
<1>0. \A run \in Running : run # NotRunning
  BY DEF Running, NotRunning
<1>1. CASE /\ runs[v] # NotRunning
           /\ j = runs[v].index
           /\ x \in runs[v].resolved
  <2>1. j \in Indexes /\ Held(j, x)
    BY <1>1 DEF ResolvedHeld, TypeOK, Running
  <2>2. QED
    BY <1>1, <2>1, HeldStays
<1>2. CASE runs'[v] = runs[v]
  BY <1>1, <1>2
<1>3. ASSUME NEW w \in Workers, Process(w) PROVE Held(j, x)'
  <2>0. /\ w # v => runs'[v] = runs[v]
        /\ runs[w] \in Running
    BY <1>3, StageOfRun DEF Process, Query, FetchContent, FetchThin, FetchFailed, Resolved,
       Retire, EmbedIndex, Finish, TypeOK
  <2>1. CASE w = v /\ (Query(v) \/ Retire(v) \/ EmbedIndex(v))
    <3>1. runs'[v].index = runs[v].index /\ runs'[v].resolved = runs[v].resolved
      <4>1. CASE Query(v)
        BY <2>0, <2>1, <4>1 DEF Query, TypeOK, Running
      <4>2. CASE Retire(v)
        BY <2>0, <2>1, <4>2 DEF Retire, TypeOK, Running
      <4>3. CASE EmbedIndex(v)
        BY <2>0, <2>1, <4>3 DEF EmbedIndex, TypeOK, Running
      <4>4. QED
        BY <2>1, <4>1, <4>2, <4>3
    <3>2. QED
      BY <1>0, <1>1, <2>0, <2>1, <3>1
  <2>2. CASE w = v /\ Finish(v)
    BY <2>2 DEF Finish, TypeOK
  <2>3. ASSUME NEW u \in Urls, w = v, FetchFailed(v, u) PROVE Held(j, x)'
    BY <1>1, <2>0, <2>3 DEF FetchFailed, TypeOK, Running, NotRunning
  <2>4. ASSUME NEW u \in Urls, w = v, Resolved(v, u),
               FetchContent(v, u) \/ (FetchThin(v, u) /\ Serves[u] \in stored)
        PROVE  Held(j, x)'
    <3>1. runs' = [runs EXCEPT ![v] = [runs[v] EXCEPT !.left = @ \ {u},
                                                     !.resolved = @ \cup {u}]]
      BY <2>4 DEF Resolved
    <3>2. /\ runs'[v].index = runs[v].index
          /\ runs'[v].resolved = runs[v].resolved \cup {u}
          /\ runs[v] # NotRunning
      BY <2>0, <2>4, <3>1 DEF TypeOK, Running, NotRunning
    <3>3. CASE x = u
      BY <2>4, <3>2, <3>3, FetchHolds
    <3>4. CASE x \in runs[v].resolved
      BY <1>1, <3>2, <3>4
    <3>5. QED
      BY <3>2, <3>3, <3>4
  <2>5. ASSUME NEW u \in Urls, w = v, FetchThin(v, u), Serves[u] \notin stored
        PROVE  Held(j, x)'
    <3>1. runs' = [runs EXCEPT ![v].left = @ \ {u}]
      BY <2>5 DEF FetchThin
    <3>2. runs'[v].index = runs[v].index /\ runs'[v].resolved = runs[v].resolved
      BY <2>0, <2>5, <3>1 DEF TypeOK, Running
    <3>3. QED
      BY <1>0, <1>1, <2>0, <2>5, <3>2
  <2>6. CASE w # v
    BY <1>2, <2>0, <2>6
  <2>7. QED
    BY <1>3, <2>1, <2>2, <2>3, <2>4, <2>5, <2>6 DEF Process, FetchContent, FetchThin
<1>4. ASSUME NEW w \in Workers, Throw(w) \/ Crash(w) PROVE Held(j, x)'
  BY <1>2, <1>4 DEF Throw, Crash, TypeOK
<1>5. ASSUME NEW w \in Workers, NEW i \in Indexes, Take(w, i) PROVE Held(j, x)'
  <2>1. w = v => runs'[v].resolved = {}
    BY <1>5 DEF Take, TypeOK
  <2>2. QED
    BY <1>2, <1>5, <2>1 DEF Take, TypeOK
<1>6. ASSUME NEW w \in Workers, Sweep(w) PROVE runs' = runs
  BY <1>6 DEF Sweep, SweepQuery, SweepAsk, SweepLook, SweepClear, SweepAgain
<1>7. ASSUME \/ RedisRestart \/ Broker \/ Api
             \/ \E i \in Indexes, u \in Urls : MarkCrawled(i, u)
      PROVE  runs' = runs
  BY <1>7 DEF RedisRestart, Broker, BackoffOver, Stalled, AgedOut, Api, Commission,
              RequestCrawl, MarkCrawled
<1>8. QED
  BY <1>2, <1>3, <1>4, <1>5, <1>6, <1>7 DEF Next

\* A row is retired as crawled only of what is held, and a purchase is a member, a
\* row that is owed, or has a row already.
LEMMA StepRows ==
  ASSUME TypeOK, DebtInv, Next PROVE CrawledHeld' /\ NothingVanishes'
<1>1. \A i \in Indexes, u \in Urls : Held(i, u) => Held(i, u)'
  BY HeldStays
<1>2. \A i \in Indexes : bought[i] \subseteq Urls
  BY DEF TypeOK
<1>3. ASSUME NEW i \in Indexes, NEW pages \in SUBSET Urls \ {{}}, Commission(i, pages)
      PROVE  CrawledHeld' /\ NothingVanishes'
  <2>1. ASSUME NEW j \in Indexes, NEW u \in Urls
        PROVE  rows'[j][u] = rows[j][u] \/ (rows[j][u] = "none" /\ rows'[j][u] = "owed")
    BY <1>3 DEF Commission, Intake, TypeOK
  <2>2. CrawledHeld'
    BY <1>1, <2>1 DEF DebtInv, CrawledHeld
  <2>3. ASSUME NEW j \in Indexes, NEW u \in bought'[j]
        PROVE  Held(j, u)' \/ rows'[j][u] \in {"owed", "failed"}
    <3>1. u \in Urls /\ (u \in bought[j] \/ (j = i /\ u \in pages))
      BY <1>3 DEF Commission, TypeOK
    <3>2. CASE u \in bought[j]
      <4>1. Held(j, u) \/ rows[j][u] \in {"owed", "failed"}
        BY <3>2 DEF DebtInv, NothingVanishes
      <4>2. QED
        BY <1>1, <2>1, <3>1, <4>1
    <3>3. CASE j = i /\ u \in pages /\ u \in stored
      <4>1. u \in members'[j]
        BY <1>3, <3>3 DEF Commission, TypeOK
      <4>2. QED
        BY <4>1 DEF Held
    <3>4. CASE j = i /\ u \in pages /\ u \notin stored
      <4>1. rows[j][u] \in {"none", "owed", "crawled", "failed"}
        BY <3>1 DEF TypeOK
      <4>2. rows[j][u] = "none" => rows'[j][u] = "owed"
        BY <1>3, <3>1, <3>4 DEF Commission, Intake, TypeOK
      <4>3. rows[j][u] = "crawled" => Held(j, u)'
        BY <1>1, <3>1 DEF DebtInv, CrawledHeld
      <4>4. QED
        BY <2>1, <3>1, <4>1, <4>2, <4>3
    <3>5. QED
      BY <3>1, <3>2, <3>3, <3>4
  <2>4. QED
    BY <2>2, <2>3 DEF NothingVanishes
<1>4. ASSUME bought' = bought,
             \A i \in Indexes, u \in Urls :
               \/ rows'[i][u] = rows[i][u]
               \/ rows[i][u] = "owed" /\ rows'[i][u] = "failed"
               \/ rows[i][u] = "owed" /\ rows'[i][u] = "crawled" /\ Held(i, u)
      PROVE  CrawledHeld' /\ NothingVanishes'
  <2>1. CrawledHeld'
    BY <1>1, <1>4 DEF DebtInv, CrawledHeld
  <2>2. ASSUME NEW j \in Indexes, NEW u \in bought[j]
        PROVE  Held(j, u)' \/ rows'[j][u] \in {"owed", "failed"}
    <3>1. u \in Urls /\ (Held(j, u) \/ rows[j][u] \in {"owed", "failed"})
      BY <1>2 DEF DebtInv, NothingVanishes
    <3>2. QED
      BY <1>1, <1>4, <3>1
  <2>3. QED
    BY <1>4, <2>1, <2>2 DEF NothingVanishes
<1>5. ASSUME NEW w \in Workers, Retire(w) PROVE CrawledHeld' /\ NothingVanishes'
  <2>1. runs[w] \in Running /\ runs[w] # NotRunning
    BY <1>5, StageOfRun DEF Retire, TypeOK, NotRunning
  <2>2. \A u \in runs[w].resolved : Held(runs[w].index, u)
    BY <2>1 DEF DebtInv, ResolvedHeld
  <2>3. ASSUME NEW i \in Indexes, NEW u \in Urls
        PROVE  \/ rows'[i][u] = rows[i][u]
               \/ rows[i][u] = "owed" /\ rows'[i][u] = "failed"
               \/ /\ rows[i][u] = "owed" /\ rows'[i][u] = "crawled"
                  /\ i = runs[w].index /\ u \in runs[w].resolved
    BY <1>5 DEF Retire, TypeOK
  <2>4. bought' = bought
    BY <1>5 DEF Retire
  <2>5. QED
    BY <1>4, <2>2, <2>3, <2>4
<1>6. ASSUME NEW i \in Indexes, NEW u \in Urls, MarkCrawled(i, u)
      PROVE  CrawledHeld' /\ NothingVanishes'
  <2>1. Held(i, u)
    BY <1>6 DEF MarkCrawled, DebtInv, MarksHeld
  <2>2. ASSUME NEW j \in Indexes, NEW x \in Urls
        PROVE  \/ rows'[j][x] = rows[j][x]
               \/ rows[j][x] = "owed" /\ rows'[j][x] = "crawled" /\ j = i /\ x = u
    BY <1>6 DEF MarkCrawled, TypeOK
  <2>3. bought' = bought
    BY <1>6 DEF MarkCrawled
  <2>4. QED
    BY <1>4, <2>1, <2>2, <2>3
<1>7. CASE UNCHANGED <<rows, bought>>
  BY <1>4, <1>7
<1>8. QED
  BY <1>3, <1>5, <1>6, <1>7, RowsWritten

LEMMA StepDebt ==
  TypeOK /\ BoughtInv /\ DebtInv /\ Apart' /\ [Next]_vars => DebtInv'
<1> SUFFICES ASSUME TypeOK, BoughtInv, DebtInv, Apart', [Next]_vars PROVE DebtInv'
  OBVIOUS
<1>1. CASE Next
  BY <1>1, StepJoined, StepMarks, StepResolved, StepRows DEF DebtInv, BoughtInv
<1>2. CASE UNCHANGED vars
  BY <1>2 DEF vars, DebtInv, Joined, Reach, MarksHeld, ResolvedHeld, CrawledHeld,
              NothingVanishes, Held
<1>3. QED
  BY <1>1, <1>2

LEMMA InitDebt == Init => BoughtInv /\ DebtInv
BY DEF Init, BoughtInv, RowsBought, LeftBought, StoredBought, MembersBought, Reach,
       DebtInv, Joined, MarksHeld, ResolvedHeld, CrawledHeld, NothingVanishes

LEMMA BoughtStays == TypeOK /\ BoughtInv /\ [Next]_vars => BoughtInv'
<1> SUFFICES ASSUME TypeOK, BoughtInv, [Next]_vars PROVE BoughtInv'
  OBVIOUS
<1>1. CASE UNCHANGED vars
  BY <1>1 DEF vars, BoughtInv, RowsBought, LeftBought, StoredBought, MembersBought, Reach
<1>2. QED
  BY <1>1, StepBought

LEMMA ApartStays == TypeOK /\ Apart' /\ [Next]_vars => Apart
<1> SUFFICES ASSUME TypeOK, Apart', [Next]_vars PROVE Apart
  OBVIOUS
<1>1. CASE UNCHANGED vars
  BY <1>1 DEF vars, Apart, Reach
<1>2. QED
  BY <1>1, ApartBefore

\* Whatever fails, every page bought is owed, held or named as not indexed, as long as
\* no two indexes have bought into the same pages (index-crawl.ts).
THEOREM NothingLost == Spec => [](Apart => NothingVanishes)
<1>1. TypeOK /\ BoughtInv /\ (Apart => DebtInv) /\ [Next]_vars => (Apart' => DebtInv')
  BY StepDebt, ApartStays
<1>2. DebtInv => NothingVanishes
  BY DEF DebtInv
<1>3. QED
  BY <1>1, <1>2, InitDebt, BoughtStays, QueueTypes, PTL DEF Spec

(***************************************************************************)
(* Completed and searchable.  Between the embedding of an index and the    *)
(* completion of its job, and after it, nothing joins the index that is    *)
(* not embedded: the worker that would bring it holds no lock, and the     *)
(* workers of other indexes bring none of its pages.                       *)
(***************************************************************************)
Embedded(i) == members[i] \cap unembedded = {}

Asking(w, i) == Works(w, i) /\ runs[w].stage = "ask"

SearchInv ==
  /\ \A i \in Indexes : jobs[i].state = "completed" => Embedded(i)
  /\ \A w \in Workers, i \in Indexes : Asking(w, i) => Embedded(i)

\* A step that completes nothing, gets no worker further and leaves the store.
LEMMA SearchKept ==
  ASSUME SearchInv, UNCHANGED <<members, unembedded>>,
         \A i \in Indexes : jobs'[i].state = "completed" => jobs[i].state = "completed",
         \A w \in Workers, i \in Indexes : Asking(w, i)' => Asking(w, i)
  PROVE  SearchInv'
<1>1. \A i \in Indexes : Embedded(i) => Embedded(i)'
  BY DEF Embedded
<1>2. QED
  BY <1>1 DEF SearchInv

\* A job that is added is not completed by it.
LEMMA AddedNotCompleted ==
  ASSUME TypeOK, NEW i \in Indexes, jobs' = [jobs EXCEPT ![i] = Added(@)]
  PROVE  \A j \in Indexes : jobs'[j].state = "completed" => jobs[j].state = "completed"
<1>1. jobs'[i] = Added(jobs[i]) /\ \A j \in Indexes \ {i} : jobs'[j] = jobs[j]
  BY DEF TypeOK
<1>2. Added(jobs[i]).state = "completed" => jobs[i].state = "completed"
  BY DEF Added
<1>3. QED
  BY <1>1, <1>2

\* A worker that changes its own run changes no other.
LEMMA OtherRuns ==
  ASSUME TypeOK, NEW w \in Workers, NEW run, runs' = [runs EXCEPT ![w] = run]
  PROVE  runs'[w] = run /\ \A v \in Workers \ {w} : runs'[v] = runs[v]
BY DEF TypeOK

\* Nobody asks for the receipt of an index that another worker crawls.
LEMMA FetchSearches ==
  ASSUME Apart, TypeOK, BoughtInv, Locked, SearchInv, NEW w \in Workers, NEW u \in Urls,
         FetchContent(w, u)
  PROVE  SearchInv'
<1> DEFINE i == runs[w].index
<1>1. runs[w] \in Running /\ i \in Indexes /\ runs[w].stage = "crawl"
  BY Fetching DEF FetchContent
<1>2. Works(w, i)
  BY <1>1 DEF Works, Running, NotRunning
<1>3. Owns(w, i)
  BY <1>1, <1>2 DEF Locked
<1>4. ASSUME NEW j \in Indexes, j # i, Embedded(j) PROVE Embedded(j)'
  <2>1. Serves[u] \notin members[j]
    BY <1>1, <1>4, FetchedReach DEF Apart, BoughtInv, MembersBought
  <2>2. members'[j] = members[j] /\ unembedded' \subseteq unembedded \cup {Serves[u]}
    BY <1>1, <1>4 DEF FetchContent, TypeOK
  <2>3. QED
    BY <1>4, <2>1, <2>2 DEF Embedded
<1>5. ASSUME NEW j \in Indexes, jobs'[j].state = "completed" PROVE Embedded(j)'
  <2>1. jobs[j].state = "completed"
    BY <1>5 DEF FetchContent
  <2>2. j # i
    BY <1>3, <2>1 DEF Owns
  <2>3. QED
    BY <1>4, <2>1, <2>2 DEF SearchInv
<1>6. ASSUME NEW v \in Workers, NEW j \in Indexes, Asking(v, j)' PROVE Embedded(j)'
  <2> DEFINE run == [runs[w] EXCEPT !.left = @ \ {u}, !.resolved = @ \cup {u}]
  <2>0. runs' = [runs EXCEPT ![w] = run]
    BY DEF FetchContent, Resolved
  <2>1. CASE v = w
    <3>1. runs'[w] = run
      BY <2>0, OtherRuns
    <3>2. runs'[w].stage = "crawl"
      BY <1>1, <3>1 DEF Running
    <3>3. QED
      BY <1>6, <2>1, <3>2 DEF Asking
  <2>2. CASE v # w
    <3>1. runs'[v] = runs[v]
      BY <2>0, <2>2, OtherRuns
    <3>2. Asking(v, j)
      BY <1>6, <3>1 DEF Asking, Works
    <3>3. Owns(v, j)
      BY <3>2 DEF Asking, Locked
    <3>4. j # i
      BY <1>3, <2>2, <3>3 DEF Owns
    <3>5. QED
      BY <1>4, <3>2, <3>4 DEF SearchInv
  <2>3. QED
    BY <2>1, <2>2
<1>7. QED
  BY <1>5, <1>6 DEF SearchInv

\* What a purchase finds in the store is in the index.
LEMMA CommissionSearches ==
  ASSUME TypeOK, BoughtInv, Joined, Apart', SearchInv, Next, Api PROVE SearchInv'
<1>1. UNCHANGED <<members, unembedded>>
  <2>1. ASSUME NEW i \in Indexes, NEW pages \in SUBSET Urls \ {{}}, Commission(i, pages)
        PROVE  members' = members
    <3>1. members' = [members EXCEPT ![i] = @ \cup (pages \cap stored)]
      BY <2>1 DEF Commission
    <3>2. ASSUME NEW p \in pages \cap stored PROVE p \in members[i]
      <4>1. PICK k \in Indexes : p \in Reach(k)
        BY DEF BoughtInv, StoredBought
      <4>2. p \in Reach(k)' /\ p \in Reach(i)'
        BY <2>1, <4>1, BoughtGrows DEF Commission, Reach, TypeOK
      <4>3. k = i
        BY <4>2 DEF Apart
      <4>4. QED
        BY <4>1, <4>3 DEF Joined
    <3>3. QED
      BY <3>1, <3>2 DEF TypeOK
  <2>2. QED
    BY <2>1 DEF Api, Commission, RequestCrawl, store
<1>2. \A i \in Indexes : jobs'[i].state = "completed" => jobs[i].state = "completed"
  BY AddedNotCompleted DEF Api, Commission, RequestCrawl
<1>3. runs' = runs
  BY DEF Api, Commission, RequestCrawl
<1>4. QED
  BY <1>1, <1>2, <1>3, SearchKept DEF Asking, Works

\* The worker embeds its index, asks, and completes the job it still holds.
LEMMA ProcessSearches ==
  ASSUME Apart, TypeOK, BoughtInv, Locked, SearchInv, NEW w \in Workers, Process(w)
  PROVE  SearchInv'
<1> DEFINE i == runs[w].index
<1>1. runs[w] \in Running /\ i \in Indexes
  BY StageOfRun DEF Process, Query, FetchContent, FetchThin, FetchFailed, Retire,
                    EmbedIndex, Finish, TypeOK, Running
<1>2. ASSUME NEW u \in Urls, FetchContent(w, u) PROVE SearchInv'
  BY <1>2, FetchSearches
<1>3. ASSUME UNCHANGED <<members, unembedded, jobs>>,
             runs'[w] = NotRunning \/ runs'[w].stage \in {"crawl", "embed"},
             \A v \in Workers \ {w} : runs'[v] = runs[v]
      PROVE  SearchInv'
  <2>1. \A v \in Workers, j \in Indexes : Asking(v, j)' => Asking(v, j)
    BY <1>3 DEF Asking, Works
  <2>2. QED
    BY <1>3, <2>1, SearchKept
<1>4. CASE Query(w) \/ Retire(w)
  <2>1. PICK run : runs' = [runs EXCEPT ![w] = run] /\ run.stage \in {"crawl", "embed"}
    <3>1. CASE Query(w)
      <4> DEFINE owed == {u \in Urls : rows[i][u] = "owed"}
                 run == [runs[w] EXCEPT !.asked = owed, !.left = owed,
                                        !.stage = IF owed = {} THEN "embed" ELSE "crawl"]
      <4>1. runs' = [runs EXCEPT ![w] = run]
        BY <3>1 DEF Query
      <4>2. run.stage \in {"crawl", "embed"}
        BY <1>1 DEF Running
      <4>3. QED
        BY <4>1, <4>2
    <3>2. CASE Retire(w)
      <4>1. runs' = [runs EXCEPT ![w] = [runs[w] EXCEPT !.stage = "embed"]]
        BY <3>2 DEF Retire
      <4>2. [runs[w] EXCEPT !.stage = "embed"].stage = "embed"
        BY <1>1 DEF Running
      <4>3. QED
        BY <4>1, <4>2
    <3>3. QED
      BY <1>4, <3>1, <3>2
  <2>2. UNCHANGED <<members, unembedded, jobs>>
    BY <1>4 DEF Query, Retire, store
  <2>3. QED
    BY <1>3, <2>1, <2>2, OtherRuns
<1>5. ASSUME NEW u \in Urls, FetchThin(w, u) \/ FetchFailed(w, u) PROVE SearchInv'
  <2> DEFINE less == [runs[w] EXCEPT !.left = @ \ {u}]
             more == [runs[w] EXCEPT !.left = @ \ {u}, !.resolved = @ \cup {u}]
  <2>1. runs' = [runs EXCEPT ![w] = less] \/ runs' = [runs EXCEPT ![w] = more]
    BY <1>5 DEF FetchThin, FetchFailed, Resolved
  <2>2. UNCHANGED <<members, unembedded, jobs>>
    BY <1>5 DEF FetchThin, FetchFailed, store
  <2>3. less.stage = "crawl" /\ more.stage = "crawl"
    BY <1>1, <1>5 DEF FetchThin, FetchFailed, Running
  <2>4. runs'[w] = less \/ runs'[w] = more
    BY <2>1, OtherRuns
  <2>5. \A v \in Workers \ {w} : runs'[v] = runs[v]
    BY <2>1, OtherRuns
  <2>6. QED
    BY <1>3, <2>2, <2>3, <2>4, <2>5
<1>6. CASE EmbedIndex(w)
  <2>1. /\ unembedded' = unembedded \ members[i] /\ members' = members /\ jobs' = jobs
        /\ runs' = [runs EXCEPT ![w] = [runs[w] EXCEPT !.stage = "ask"]]
    BY <1>6 DEF EmbedIndex
  <2>2. Embedded(i)' /\ \A j \in Indexes : Embedded(j) => Embedded(j)'
    BY <1>1, <2>1 DEF Embedded
  <2>3. ASSUME NEW v \in Workers, NEW j \in Indexes, Asking(v, j)' PROVE Embedded(j)'
    <3>1. CASE v = w
      <4>1. runs'[w].index = i
        BY <1>1, <2>1 DEF TypeOK, Running
      <4>2. QED
        BY <2>2, <2>3, <3>1, <4>1 DEF Asking, Works
    <3>2. CASE v # w
      <4>1. runs'[v] = runs[v]
        BY <2>1, <3>2, OtherRuns
      <4>2. Asking(v, j)
        BY <2>3, <4>1 DEF Asking, Works
      <4>3. QED
        BY <2>2, <4>2 DEF SearchInv
    <3>3. QED
      BY <3>1, <3>2
  <2>4. QED
    BY <2>1, <2>2, <2>3 DEF SearchInv
<1>7. CASE Finish(w)
  <2>1. /\ UNCHANGED <<members, unembedded>>
        /\ runs' = [runs EXCEPT ![w] = NotRunning]
        /\ runs[w].stage = "ask"
    BY <1>7 DEF Finish, store
  <2>2. Asking(w, i)
    BY <1>1, <2>1 DEF Asking, Works, Running, NotRunning
  <2>3. \A j \in Indexes : Embedded(j) => Embedded(j)'
    BY <2>1 DEF Embedded
  <2>4. ASSUME NEW j \in Indexes, jobs'[j].state = "completed" PROVE Embedded(j)'
    <3>1. CASE j = i
      BY <1>1, <2>2, <2>3, <3>1 DEF SearchInv
    <3>2. CASE j # i
      <4>1. jobs'[j] = jobs[j]
        BY <1>7, <3>2 DEF Finish, TypeOK
      <4>2. QED
        BY <2>3, <2>4, <4>1 DEF SearchInv
    <3>3. QED
      BY <3>1, <3>2
  <2>5. ASSUME NEW v \in Workers, NEW j \in Indexes, Asking(v, j)' PROVE Embedded(j)'
    <3>1. v # w
      BY <2>1, <2>5 DEF Asking, Works, TypeOK
    <3>2. runs'[v] = runs[v]
      BY <2>1, <3>1, OtherRuns
    <3>3. Asking(v, j)
      BY <2>5, <3>2 DEF Asking, Works
    <3>4. QED
      BY <2>3, <3>3 DEF SearchInv
  <2>6. QED
    BY <2>4, <2>5 DEF SearchInv
<1>8. QED
  BY <1>2, <1>4, <1>5, <1>6, <1>7 DEF Process

\* Nobody else completes a job, or gets a worker to the end of one.
LEMMA RestSearches ==
  ASSUME TypeOK, SearchInv,
         \/ \E w \in Workers : Sweep(w) \/ Throw(w) \/ Crash(w) \/ \E i \in Indexes : Take(w, i)
         \/ \E i \in Indexes, u \in Urls : MarkCrawled(i, u)
         \/ Broker
         \/ RedisRestart
  PROVE  SearchInv'
<1>1. UNCHANGED <<members, unembedded>>
  BY DEF Sweep, SweepQuery, SweepAsk, SweepLook, SweepClear, SweepAgain, Throw, Crash, Take,
         MarkCrawled, Broker, BackoffOver, Stalled, AgedOut, RedisRestart, store
<1>2. \A i \in Indexes : jobs'[i].state = "completed" => jobs[i].state = "completed"
  <2>1. ASSUME NEW w \in Workers, Sweep(w)
        PROVE  \A i \in Indexes : jobs'[i].state = "completed" => jobs[i].state = "completed"
    <3>0. ASSUME NEW i \in Indexes, SweepLook(w, i)
          PROVE  \A j \in Indexes : jobs'[j].state = "completed" => jobs[j].state = "completed"
      BY <3>0 DEF SweepLook
    <3>1. CASE SweepQuery(w)
      BY <3>1 DEF SweepQuery
    <3>2. ASSUME NEW i \in Indexes, SweepAsk(w, i) \/ SweepAgain(w, i)
          PROVE  jobs' = [jobs EXCEPT ![i] = Added(@)]
      BY <3>2 DEF SweepAsk, SweepAgain
    <3>3. ASSUME NEW i \in Indexes, SweepClear(w, i)
          PROVE  jobs' = jobs \/ jobs' = [jobs EXCEPT ![i] = Absent]
      BY <3>3 DEF SweepClear
    <3>4. Absent.state = "absent"
      BY DEF Absent
    <3>5. ASSUME NEW i \in Indexes, jobs' = [jobs EXCEPT ![i] = Absent]
          PROVE  \A j \in Indexes : jobs'[j].state = "completed" => jobs[j].state = "completed"
      <4>1. jobs'[i] = Absent /\ \A j \in Indexes \ {i} : jobs'[j] = jobs[j]
        BY <3>5 DEF TypeOK
      <4>2. QED
        BY <3>4, <4>1
    <3>6. QED
      BY <2>1, <3>0, <3>1, <3>2, <3>3, <3>5, AddedNotCompleted DEF Sweep
  <2>2. ASSUME NEW w \in Workers, Throw(w)
        PROVE  \A i \in Indexes : jobs'[i].state = "completed" => jobs[i].state = "completed"
    <3>1. ASSUME NEW job \in Job PROVE AfterThrow(job).state # "completed"
      BY <3>1 DEF AfterThrow, Job, Absent
    <3>2. ASSUME NEW i \in Indexes, jobs'[i] # jobs[i]
          PROVE  jobs[i] \in Job /\ jobs'[i] = AfterThrow(jobs[i])
      BY <2>2, <3>2, StateOfJob DEF Throw, Owns, TypeOK
    <3>3. QED
      BY <3>1, <3>2
  <2>3. ASSUME NEW w \in Workers, Crash(w) \/ \E i \in Indexes, u \in Urls : MarkCrawled(i, u)
        PROVE  jobs' = jobs
    BY <2>3 DEF Crash, MarkCrawled
  <2>4. ASSUME NEW w \in Workers, NEW i \in Indexes, Take(w, i)
        PROVE  \A j \in Indexes : jobs'[j].state = "completed" => jobs[j].state = "completed"
    <3>1. jobs[i] \in Job /\ jobs' = [jobs EXCEPT ![i] = [jobs[i] EXCEPT !.state = "active",
                                                                        !.by = w]]
      BY <2>4, StateOfJob DEF Take, TypeOK
    <3>2. jobs'[i].state = "active"
      BY <3>1 DEF TypeOK, Job
    <3>3. \A j \in Indexes \ {i} : jobs'[j] = jobs[j]
      BY <3>1
    <3>4. QED
      BY <3>2, <3>3
  <2>5. ASSUME NEW i \in Indexes, BackoffOver(i) \/ Stalled(i) \/ AgedOut(i)
        PROVE  \A j \in Indexes : jobs'[j].state = "completed" => jobs[j].state = "completed"
    <3>1. jobs[i] \in Job
      BY <2>5, StateOfJob DEF BackoffOver, Stalled, AgedOut, TypeOK
    <3>2. PICK job : jobs' = [jobs EXCEPT ![i] = job] /\ job.state # "completed"
      <4>1. CASE BackoffOver(i)
        <5>1. jobs' = [jobs EXCEPT ![i] = [jobs[i] EXCEPT !.state = "waiting"]]
          BY <4>1 DEF BackoffOver
        <5>2. [jobs[i] EXCEPT !.state = "waiting"].state = "waiting"
          BY <3>1 DEF Job
        <5>3. QED
          BY <5>1, <5>2
      <4>2. CASE Stalled(i)
        <5> DEFINE again == [jobs[i] EXCEPT !.state = "waiting", !.stalled = TRUE,
                                            !.by = None]
        <5>1. \/ jobs' = [jobs EXCEPT ![i] = Absent]
              \/ jobs' = [jobs EXCEPT ![i] = again]
          <6>1. jobs' = [jobs EXCEPT ![i] = IF jobs[i].stalled THEN Absent ELSE again]
            BY <4>2 DEF Stalled
          <6>2. QED
            BY <6>1
        <5>2. again.state = "waiting" /\ Absent.state = "absent"
          BY <3>1 DEF Job, Absent
        <5>3. QED
          BY <5>1, <5>2
      <4>3. CASE AgedOut(i)
        <5>1. jobs' = [jobs EXCEPT ![i] = Absent]
          BY <4>3 DEF AgedOut
        <5>2. Absent.state # "completed"
          BY DEF Absent
        <5>3. QED
          BY <5>1, <5>2
      <4>4. QED
        BY <2>5, <4>1, <4>2, <4>3
    <3>3. jobs'[i] = job /\ \A j \in Indexes \ {i} : jobs'[j] = jobs[j]
      BY <3>2 DEF TypeOK
    <3>4. QED
      BY <3>2, <3>3
  <2>6. ASSUME RedisRestart
        PROVE  \A i \in Indexes : jobs'[i].state # "completed"
    BY <2>6 DEF RedisRestart, Absent
  <2>7. ASSUME NEW i \in Indexes, NEW u \in Urls, MarkCrawled(i, u) PROVE jobs' = jobs
    BY <2>7 DEF MarkCrawled
  <2>8. QED
    BY <2>1, <2>2, <2>3, <2>4, <2>5, <2>6, <2>7 DEF Broker
<1>3. ASSUME NEW v \in Workers, NEW j \in Indexes, Asking(v, j)' PROVE Asking(v, j)
  <2>1. ASSUME NEW w \in Workers, NEW i \in Indexes, Take(w, i) PROVE runs'[v] = runs[v]
    <3>1. runs' = [runs EXCEPT ![w] = [stage |-> "query", index |-> i, asked |-> {},
                                       left |-> {}, resolved |-> {}]]
      BY <2>1 DEF Take
    <3>2. v # w
      BY <1>3, <3>1 DEF Asking, TypeOK
    <3>3. QED
      BY <3>1, <3>2
  <2>2. ASSUME NEW w \in Workers, Throw(w) \/ Crash(w) PROVE runs'[v] = runs[v]
    <3>1. runs' = [runs EXCEPT ![w] = NotRunning]
      BY <2>2 DEF Throw, Crash
    <3>2. v # w
      BY <1>3, <3>1 DEF Asking, Works, TypeOK
    <3>3. QED
      BY <3>1, <3>2
  <2>3. ASSUME NEW w \in Workers, Sweep(w) PROVE runs' = runs
    BY <2>3 DEF Sweep, SweepQuery, SweepAsk, SweepLook, SweepClear, SweepAgain
  <2>4. ASSUME RedisRestart \/ Broker \/ \E i \in Indexes, u \in Urls : MarkCrawled(i, u)
        PROVE  runs' = runs
    BY <2>4 DEF RedisRestart, Broker, BackoffOver, Stalled, AgedOut, MarkCrawled
  <2>5. runs'[v] = runs[v]
    BY <2>1, <2>2, <2>3, <2>4
  <2>6. QED
    BY <1>3, <2>5 DEF Asking, Works
<1>4. QED
  BY <1>1, <1>2, <1>3, SearchKept

LEMMA StepSearch ==
  TypeOK /\ BoughtInv /\ Joined /\ Locked /\ SearchInv /\ Apart' /\ [Next]_vars => SearchInv'
<1> SUFFICES ASSUME TypeOK, BoughtInv, Joined, Locked, SearchInv, Apart', [Next]_vars
             PROVE  SearchInv'
  OBVIOUS
<1>1. CASE UNCHANGED vars
  BY <1>1, SearchKept DEF vars, Asking, Works
<1>2. CASE Next
  <2>1. Apart
    BY <1>2, ApartBefore
  <2>2. QED
    BY <1>2, <2>1, CommissionSearches, ProcessSearches, RestSearches DEF Next
<1>3. QED
  BY <1>1, <1>2

\* When the job of an index has completed, all that the index holds is embedded,
\* whatever was retried, stalled or bought meanwhile, as long as the broker keeps its
\* locks and no two indexes have bought into the same pages (crawl.processor.ts,
\* embedding before the job ends).
THEOREM CompletedIsSearchable ==
  ASSUME RedisRestarts = FALSE
  PROVE  Spec => [](Apart => CompletedSearchable)
<1>1. Init => SearchInv
  BY DEF Init, SearchInv, Asking, Works, Absent
<1>2. TypeOK /\ Locked /\ [Next]_vars => Locked'
  BY StepLocked
<1>3. TypeOK /\ BoughtInv /\ Locked /\ (Apart => DebtInv /\ SearchInv) /\ [Next]_vars
      => (Apart' => DebtInv' /\ SearchInv')
  BY StepDebt, StepSearch, ApartStays DEF DebtInv
<1>4. SearchInv => CompletedSearchable
  BY DEF SearchInv, Embedded, CompletedSearchable
<1>5. QED
  BY <1>1, <1>2, <1>3, <1>4, InitDebt, BoughtStays, LockedInit, QueueTypes, PTL DEF Spec
=============================================================================
