-------------------------- MODULE AttestQueueProofs --------------------------
(***************************************************************************)
(* Theorems about AttestQueue, for any indexes, whatever documents they    *)
(* share, any number of sweeps, attempts, crawls and faults.         *)
(***************************************************************************)
EXTENDS AttestQueue, TLAPS

(***************************************************************************)
(* Types.                                                                  *)
(***************************************************************************)
LEMMA StateOfJob ==
  \A job \in Job \cup {Absent} :
    job.state \in {"waiting", "active", "delayed", "completed"} => job \in Job
BY DEF Job, Absent

LEMMA JobAdded == \A job \in Job \cup {Absent} : Added(job) \in Job
BY AttestAssumption DEF Job, Absent, Added

LEMMA JobThrown ==
  ASSUME NEW job \in Job
  PROVE  AfterThrow(job) \in Job \cup {Absent}
<1>1. CASE job.tries + 1 < Attempts
  <2>1. job.tries + 1 \in 0..(Attempts - 1)
    BY <1>1, AttestAssumption DEF Job
  <2>2. [job EXCEPT !.state = "delayed", !.tries = @ + 1, !.by = None] \in Job
    BY <2>1 DEF Job
  <2>3. QED
    BY <1>1, <2>2 DEF AfterThrow
<1>2. CASE ~(job.tries + 1 < Attempts)
  BY <1>2 DEF AfterThrow
<1>3. QED
  BY <1>1, <1>2

\* What the actions write in a job that is there.
LEMMA JobMoved ==
  ASSUME NEW job \in Job
  PROVE  /\ \A s \in Slots : [job EXCEPT !.state = "active", !.by = s] \in Job
         /\ [job EXCEPT !.state = "completed", !.by = None] \in Job
         /\ [job EXCEPT !.state = "waiting"] \in Job
         /\ [job EXCEPT !.state = "waiting", !.stalled = TRUE, !.by = None] \in Job
BY DEF Job

\* An index whose job becomes a job, or none, leaves the table one.
LEMMA JobsKept ==
  ASSUME TypeOK, NEW i \in Indexes, NEW job \in Job \cup {Absent},
         jobs' = [jobs EXCEPT ![i] = job]
  PROVE  jobs' \in [Indexes -> Job \cup {Absent}]
BY DEF TypeOK

LEMMA Counted ==
  ASSUME TypeOK
  PROVE  /\ Fault => faults' \in 0..MaxFaults
         /\ crawls < MaxCrawls => crawls + 1 \in 0..MaxCrawls
BY AttestAssumption DEF TypeOK, Fault

LEMMA InitTypes == Init => TypeOK
<1> SUFFICES ASSUME Init PROVE TypeOK
  OBVIOUS
<1>1. NotRunning \in Run /\ NotSweeping \in Sweeping
  BY DEF NotRunning, Run, NotSweeping, Sweeping
<1>2. \A w \in Sweeps : sweeps[w].step = "idle"
  BY DEF Init, NotSweeping
<1>3. 0 \in 0..MaxCrawls /\ 0 \in 0..MaxFaults
  BY AttestAssumption
<1>4. QED
  BY <1>1, <1>2, <1>3 DEF Init, TypeOK

LEMMA WorkerTypes ==
  ASSUME TypeOK, NEW i \in Indexes, Worker(i)
  PROVE  TypeOK'
<1>1. CASE Crawl(i)
  <2>1. crawls' \in 0..MaxCrawls
    BY <1>1, Counted DEF Crawl
  <2>2. QED
    BY <1>1, <2>1 DEF Crawl, TypeOK
<1>2. CASE EmbedPass(i)
  <2>1. embedded' \subseteq Documents
    BY <1>2, AttestAssumption DEF EmbedPass, TypeOK
  <2>2. QED
    BY <1>2, <2>1 DEF EmbedPass, TypeOK
<1>3. CASE Ask(i)
  <2>1. jobs' \in [Indexes -> Job \cup {Absent}]
    BY <1>3, JobAdded, JobsKept DEF Ask, TypeOK
  <2>2. QED
    BY <1>3, <2>1 DEF Ask, TypeOK, store
<1>4. QED
  BY <1>1, <1>2, <1>3 DEF Worker

LEMMA ProcessorTypes ==
  ASSUME TypeOK, NEW s \in Slots
  PROVE  /\ \A i \in Indexes : Take(s, i) => TypeOK'
         /\ Process(s) => TypeOK'
         /\ Throw(s) => TypeOK'
<1>1. ASSUME NEW i \in Indexes, Take(s, i) PROVE TypeOK'
  <2>1. jobs[i] \in Job
    BY <1>1, StateOfJob DEF Take, TypeOK, store
  <2>2. jobs' \in [Indexes -> Job \cup {Absent}]
    BY <1>1, <2>1, JobMoved, JobsKept DEF Take
  <2>3. [index |-> i, pending |-> Debt(i)] \in Run
    BY AttestAssumption DEF Run, Debt, Owed, TypeOK
  <2>4. QED
    BY <1>1, <2>2, <2>3 DEF Take, TypeOK, store
<1>2. CASE AttestBatch(s)
  <2>1. PICK batch \in SUBSET runs[s].pending \ {{}} :
          /\ attested' = attested \cup batch
          /\ runs' = [runs EXCEPT ![s].pending = @ \ batch]
          /\ UNCHANGED <<embedded, crawling, crawls, asks, jobs, up, swept, sweeps, faults>>
    BY <1>2 DEF AttestBatch
  <2>2. runs' \in [Slots -> Run]
    BY <2>1 DEF TypeOK, Run
  <2>3. attested' \subseteq Documents
    BY <2>1 DEF TypeOK, Run
  <2>4. QED
    BY <2>1, <2>2, <2>3 DEF TypeOK
<1>3. NotRunning \in Run
  BY DEF NotRunning, Run
<1>4. CASE Finish(s)
  <2>1. jobs' \in [Indexes -> Job \cup {Absent}]
    <3>1. ASSUME NEW j \in Indexes, Owns(s, j)
          PROVE  [jobs[j] EXCEPT !.state = "completed", !.by = None] \in Job
      BY <3>1, StateOfJob, JobMoved DEF Owns, TypeOK
    <3>2. QED
      BY <1>4, <3>1 DEF Finish, TypeOK, store
  <2>2. QED
    BY <1>3, <1>4, <2>1 DEF Finish, TypeOK, store
<1>5. CASE Throw(s)
  <2>1. jobs' \in [Indexes -> Job \cup {Absent}]
    <3>1. ASSUME NEW j \in Indexes, Owns(s, j)
          PROVE  AfterThrow(jobs[j]) \in Job \cup {Absent}
      BY <3>1, StateOfJob, JobThrown DEF Owns, TypeOK
    <3>2. QED
      BY <1>5, <3>1 DEF Throw, TypeOK, store
  <2>2. faults' \in 0..MaxFaults
    BY <1>5, Counted DEF Throw
  <2>3. QED
    BY <1>3, <1>5, <2>1, <2>2 DEF Throw, TypeOK, store
<1>6. QED
  BY <1>1, <1>2, <1>4, <1>5 DEF Process

LEMMA BrokerTypes ==
  ASSUME TypeOK, NEW i \in Indexes, Broker(i)
  PROVE  TypeOK'
<1>1. jobs[i] \in Job
  BY StateOfJob DEF Broker, BackoffOver, Stalled, AgedOut, TypeOK, store
<1>2. jobs' \in [Indexes -> Job \cup {Absent}]
  <2>1. CASE BackoffOver(i)
    BY <1>1, <2>1, JobMoved, JobsKept DEF BackoffOver
  <2>2. CASE Stalled(i)
    BY <1>1, <2>2, JobMoved, JobsKept DEF Stalled
  <2>3. CASE AgedOut(i)
    BY <2>3, JobsKept DEF AgedOut
  <2>4. QED
    BY <2>1, <2>2, <2>3 DEF Broker
<1>3. QED
  BY <1>2 DEF Broker, BackoffOver, Stalled, AgedOut, TypeOK, store

LEMMA FaultTypes ==
  ASSUME TypeOK, Crash \/ Boot \/ RedisRestart
  PROVE  TypeOK'
<1>1. CASE Crash
  <2>1. NotRunning \in Run /\ NotSweeping \in Sweeping
    BY DEF NotRunning, Run, NotSweeping, Sweeping
  <2>2. faults' \in 0..MaxFaults
    BY <1>1, Counted DEF Crash
  <2>3. \A w \in Sweeps : sweeps'[w].step = "idle"
    BY <1>1 DEF Crash, NotSweeping
  <2>4. QED
    BY <1>1, <2>1, <2>2, <2>3 DEF Crash, TypeOK, store
<1>2. CASE Boot
  BY <1>2 DEF Boot, TypeOK, store
<1>3. CASE RedisRestart
  <2>1. faults' \in 0..MaxFaults
    BY <1>3, Counted DEF RedisRestart
  <2>2. QED
    BY <1>3, <2>1 DEF RedisRestart, TypeOK, store
<1>4. QED
  BY <1>1, <1>2, <1>3

\* What a sweep may become.
SweepAt(sweep) == sweep.step \in {"look", "remove", "again"} => sweep.at \in Indexes

LEMMA SweepKept ==
  ASSUME TypeOK, NEW w \in Sweeps, NEW sweep \in Sweeping, SweepAt(sweep),
         sweeps' = [sweeps EXCEPT ![w] = sweep]
  PROVE  /\ sweeps' \in [Sweeps -> Sweeping]
         /\ \A v \in Sweeps : SweepAt(sweeps'[v])
BY DEF TypeOK, SweepAt

LEMMA SweepTypes ==
  ASSUME TypeOK, NEW w \in Sweeps, Sweep(w)
  PROVE  TypeOK'
<1> DEFINE sweep == sweeps[w]
           Turned(step) == [sweep EXCEPT !.step = step]
<1>1. sweep \in Sweeping /\ SweepAt(sweep)
  BY DEF TypeOK, SweepAt
<1>2. /\ Turned("next") \in Sweeping /\ SweepAt(Turned("next"))
      /\ sweep.at \in Indexes => \A step \in {"remove", "again"} :
           Turned(step) \in Sweeping /\ SweepAt(Turned(step))
  BY <1>1 DEF Sweeping, SweepAt
<1>3. CASE SweepQuery(w)
  <2>1. PICK new : /\ new = [step |-> "next", todo |-> OwedIndexes, at |-> None]
                   /\ sweeps' = [sweeps EXCEPT ![w] = new]
    BY <1>3 DEF SweepQuery
  <2>2. new \in Sweeping /\ SweepAt(new)
    BY <2>1 DEF Sweeping, SweepAt, OwedIndexes
  <2>3. QED
    BY <1>3, <2>1, <2>2, SweepKept DEF SweepQuery, TypeOK, store, SweepAt
<1>4. ASSUME NEW i \in Indexes, SweepAdd(w, i) PROVE TypeOK'
  <2>1. PICK new : /\ new = [step |-> "look", todo |-> sweep.todo \ {i}, at |-> i]
                   /\ sweeps' = [sweeps EXCEPT ![w] = new]
    BY <1>4 DEF SweepAdd
  <2>2. new \in Sweeping /\ SweepAt(new)
    BY <1>1, <2>1 DEF Sweeping, SweepAt
  <2>3. jobs' \in [Indexes -> Job \cup {Absent}]
    BY <1>4, JobAdded, JobsKept DEF SweepAdd, TypeOK, store
  <2>4. QED
    BY <1>4, <2>1, <2>2, <2>3, SweepKept DEF SweepAdd, TypeOK, store, SweepAt
<1>5. CASE SweepLook(w)
  <2>1. sweep.at \in Indexes
    BY <1>1, <1>5 DEF SweepLook, SweepAt
  <2>2. \E step \in {"remove", "next"} : sweeps' = [sweeps EXCEPT ![w] = Turned(step)]
    BY <1>5 DEF SweepLook
  <2>3. QED
    BY <1>2, <1>5, <2>1, <2>2, SweepKept DEF SweepLook, TypeOK, store, SweepAt
<1>6. CASE SweepRemove(w)
  <2>1. sweep.at \in Indexes
    BY <1>1, <1>6 DEF SweepRemove, SweepAt
  <2>2. \E step \in {"next", "again"} : sweeps' = [sweeps EXCEPT ![w] = Turned(step)]
    BY <1>6 DEF SweepRemove
  <2>3. jobs' \in [Indexes -> Job \cup {Absent}]
    BY <1>6, <2>1, JobsKept DEF SweepRemove, TypeOK, store
  <2>4. QED
    BY <1>2, <1>6, <2>1, <2>2, <2>3, SweepKept DEF SweepRemove, TypeOK, store, SweepAt
<1>7. CASE SweepAgain(w)
  <2>1. sweep.at \in Indexes
    BY <1>1, <1>7 DEF SweepAgain, SweepAt
  <2>2. jobs' \in [Indexes -> Job \cup {Absent}]
    BY <1>7, <2>1, JobAdded, JobsKept DEF SweepAgain, TypeOK, store
  <2>3. sweeps' = [sweeps EXCEPT ![w] = Turned("next")]
    BY <1>7 DEF SweepAgain
  <2>4. QED
    BY <1>2, <1>7, <2>2, <2>3, SweepKept DEF SweepAgain, TypeOK, store, SweepAt
<1>8. CASE SweepDone(w)
  <2>1. NotSweeping \in Sweeping /\ SweepAt(NotSweeping)
    BY DEF NotSweeping, Sweeping, SweepAt
  <2>2. QED
    BY <1>8, <2>1, SweepKept DEF SweepDone, TypeOK, store, SweepAt
<1>9. QED
  BY <1>3, <1>4, <1>5, <1>6, <1>7, <1>8 DEF Sweep

LEMMA NextTypes == TypeOK /\ [Next]_vars => TypeOK'
<1> SUFFICES ASSUME TypeOK, [Next]_vars PROVE TypeOK'
  OBVIOUS
<1>1. CASE UNCHANGED vars
  BY <1>1 DEF vars, TypeOK
<1>2. CASE Next
  BY <1>2, WorkerTypes, BrokerTypes, ProcessorTypes, SweepTypes, FaultTypes DEF Next
<1>3. QED
  BY <1>1, <1>2

\* Every variable keeps its type, whatever fails.
THEOREM AttestTypes == Spec => []TypeOK
BY InitTypes, NextTypes, PTL DEF Spec

(***************************************************************************)
(* No document is paid for by a run that another run has paid for.         *)
(***************************************************************************)

\* The one slot there is takes a debt of the moment, and only it pays.
LEMMA RunOwes ==
  ASSUME TypeOK, NeverPaidTwice, NEW s \in Slots
  PROVE  /\ \A i \in Indexes : Take(s, i) => NeverPaidTwice'
         /\ AttestBatch(s) => NeverPaidTwice'
         /\ Finish(s) \/ Throw(s) => NeverPaidTwice'
<1>1. ASSUME NEW i \in Indexes, Take(s, i) PROVE NeverPaidTwice'
  BY <1>1 DEF Take, Debt, Owed, NeverPaidTwice, TypeOK, store
<1>2. CASE AttestBatch(s)
  <2>1. PICK batch \in SUBSET runs[s].pending \ {{}} :
          /\ attested' = attested \cup batch
          /\ runs' = [runs EXCEPT ![s].pending = @ \ batch]
    BY <1>2 DEF AttestBatch
  <2>2. ASSUME NEW other \in Slots PROVE other = s
    BY DEF Slots
  <2>3. runs'[s].pending = runs[s].pending \ batch
    BY <2>1 DEF TypeOK, Run
  <2>4. runs'[s].pending \cap attested' = {}
    BY <2>1, <2>3 DEF NeverPaidTwice
  <2>5. QED
    BY <2>2, <2>4 DEF NeverPaidTwice
<1>3. CASE Finish(s) \/ Throw(s)
  BY <1>3 DEF Finish, Throw, NotRunning, NeverPaidTwice, TypeOK, store
<1>4. QED
  BY <1>1, <1>2, <1>3

\* Nothing else writes a receipt.
LEMMA RestOwes ==
  ASSUME NeverPaidTwice, runs' = runs, attested' \subseteq attested
  PROVE  NeverPaidTwice'
BY DEF NeverPaidTwice

LEMMA NextOwes == TypeOK /\ NeverPaidTwice /\ [Next]_vars => NeverPaidTwice'
<1> SUFFICES ASSUME TypeOK, NeverPaidTwice, [Next]_vars PROVE NeverPaidTwice'
  OBVIOUS
<1>1. CASE UNCHANGED vars
  BY <1>1, RestOwes DEF vars
<1>2. ASSUME NEW i \in Indexes, Worker(i) \/ Broker(i) PROVE NeverPaidTwice'
  BY <1>2, RestOwes DEF Worker, Crawl, EmbedPass, Ask, Broker, BackoffOver, Stalled,
                        AgedOut, store
<1>3. ASSUME NEW w \in Sweeps, Sweep(w) PROVE NeverPaidTwice'
  BY <1>3, RestOwes DEF Sweep, SweepQuery, SweepAdd, SweepLook, SweepRemove, SweepAgain,
                        SweepDone, store
<1>4. CASE Crash
  BY <1>4 DEF Crash, NotRunning, NeverPaidTwice, store
<1>5. CASE Boot \/ RedisRestart
  BY <1>5, RestOwes DEF Boot, RedisRestart, store
<1>6. ASSUME NEW s \in Slots, Process(s) PROVE NeverPaidTwice'
  BY <1>6, RunOwes DEF Process
<1>7. QED
  BY <1>1, <1>2, <1>3, <1>4, <1>5, <1>6, RunOwes DEF Next

\* Over indexes that share documents, with jobs that stall, fail, are forgotten and
\* are asked for again, what a run is about to pay for has no receipt.  It rests on
\* Slots having one member, the processor's concurrency of 1.
THEOREM PaidOnce == Spec => []NeverPaidTwice
<1>1. Init => NeverPaidTwice
  BY DEF Init, NotRunning, NeverPaidTwice
<1>2. QED
  BY <1>1, NextOwes, AttestTypes, PTL DEF Spec
=============================================================================
