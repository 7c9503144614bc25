------------------------------ MODULE Crawler ------------------------------
(***************************************************************************)
(* One crawl (crawl/crawler.ts): what it may ask which host for, when, and *)
(* what it writes down about it.  Sitemaps give the first URLs, robots.txt *)
(* and a budget per host decide which are approved, Crawlee hands them to  *)
(* its workers, and each worker waits its turn at the host, follows        *)
(* redirects (crawl/http.ts), records the answer and offers the page's     *)
(* links to the same approval.                                             *)
(*                                                                         *)
(* The main program is one more process, which works only while nobody     *)
(* else does.  The workers interleave at every await.  What recording does *)
(* to a document is Pipeline's; here it leaves a line in the trail and an  *)
(* age for the freshness test.                                             *)
(***************************************************************************)
EXTENDS Integers, FiniteSets, Sequences

CONSTANTS
  Urls,           \* URLs met with, fragments dropped
  HostOf,         \* the host of each
  OriginOf,       \* the origin of each: a host has one for http, one for https
  Fetchable,      \* those with an http(s) scheme
  Seeds,
  Serves,         \* the answers each URL may give; a URL is a redirect to it
  LinksOf,        \* the anchors of each page
  RobotsOf,       \* what robots.txt of each origin may come to: the URLs it allows
  Detours,        \* the origins that the request for it is redirected to
  Sitemaps,       \* by sitemap: the sitemaps it indexes or the pages it lists, and
                  \* the origins that are asked on the way to it, redirects included
  Declared,       \* the sitemaps the seeds' origins declare, or the usual one
  NewerSays,      \* URLs whose sitemap claims an edit since they were fetched
  AgeOf,          \* of each URL, what the store knew before the crawl
  Discover,       \* FALSE for a commissioned crawl
  RefetchAll,     \* TRUE for a commissioned crawl, and with --all
  MaxPerHost,     \* --max-per-host
  MaxRequests,    \* maxRequestsPerCrawl
  MaxRetries,     \* Crawlee's maxRequestRetries
  MAX_REDIRECTS,
  MAX_DEPTH,
  Interval,       \* minHostIntervalMs, in ticks
  Workers,        \* maxConcurrency
  Main,
  None,
  MaxFaults       \* bound: failures of the database

Ages == {"unknown", "evicted", "old", "fresh"}

Answers == {"page", "markdown", "thin", "refused", "unusable", "coded", "dead"}

Hosts == {HostOf[u] : u \in Urls}

Origins == {OriginOf[u] : u \in Urls}

ASSUME CrawlerAssumption ==
  /\ Seeds \subseteq Urls /\ Fetchable \subseteq Urls /\ NewerSays \subseteq Urls
  /\ IsFiniteSet(Urls)
  /\ Urls \cap Answers = {}
  /\ Serves \in [Urls -> SUBSET (Urls \cup Answers)]
  /\ LinksOf \in [Urls -> SUBSET Urls]
  /\ RobotsOf \in [Origins -> SUBSET SUBSET Urls]
  /\ Detours \in [Origins -> SUBSET Origins]
  /\ \A s \in DOMAIN Sitemaps : Sitemaps[s].index = {} \/ Sitemaps[s].pages = {}
  /\ AgeOf \in [Urls -> Ages]
  /\ Discover \in BOOLEAN /\ RefetchAll \in BOOLEAN
  /\ {MaxPerHost, MaxRequests, MaxRetries, MAX_REDIRECTS, MAX_DEPTH, Interval,
      MaxFaults} \subseteq Nat
  /\ Main \notin Workers
  /\ None \notin Urls

VARIABLES
  phase,      \* of the crawl
  policies,   \* the robots policy kept for each origin
  heard,      \* every policy its robots.txt has answered
  probed,     \* origins asked for a sitemap, or by a redirect of robots.txt
  approved,   \* URLs the budget was spent on
  requests,   \* Crawlee's request queue
  procs,      \* what each process is doing
  turns,      \* the workers waiting for each host
  elapsed,    \* ticks since the first of them began to wait
  since,      \* ticks since a page of the host was last asked for
  age,        \* of each URL, what the store knows
  trail,      \* fetch_log rows of this crawl
  asked,      \* pages asked for
  moved,      \* those that answered with a redirect
  tally,      \* which counts of the summary are not zero
  faults      \* faults so far

scope == <<policies, heard, probed, approved>>
manners == <<turns, elapsed, since>>
record == <<age, trail, tally>>
vars == <<phase, scope, requests, procs, manners, record, asked, moved, faults>>

-----------------------------------------------------------------------------
NotQueued == [state |-> "absent", tries |-> 0]

Idle == [step |-> "idle", url |-> None, at |-> None, hop |-> 0, next |-> None,
         links |-> {}, kept |-> {}, loading |-> None]

\* The seeds whose robots.txt and sitemaps are read.
Explored == IF Discover THEN Seeds ELSE {}

\* The sitemaps asked for at each depth of nesting, if at depth d those in
\* readable[d] can be read; a cycle ends at MAX_DEPTH.
SitemapsAt(readable) ==
  LET at[depth \in 0..MAX_DEPTH] ==
        IF depth = 0
        THEN IF Discover THEN Declared ELSE {}
        ELSE UNION {Sitemaps[s].index : s \in at[depth - 1] \cap readable[depth - 1]}
  IN at

\* What they list, and the origins they are asked from.
Listed(readable) ==
  {u \in Urls : \E depth \in 0..MAX_DEPTH :
                  \E s \in SitemapsAt(readable)[depth] \cap readable[depth] :
                    u \in Sitemaps[s].pages}

SitemapOrigins(readable) ==
  {o \in Origins : \E depth \in 0..MAX_DEPTH :
                     \E s \in SitemapsAt(readable)[depth] \cap DOMAIN Sitemaps :
                       o \in Sitemaps[s].at}

SeedHosts == {HostOf[s] : s \in Seeds}

Used(host) == Cardinality({u \in approved : HostOf[u] = host})

\* Mutant of Affordable: one page too many.
OneMore(u) == u \in approved \/ Used(HostOf[u]) <= MaxPerHost

Affordable(u) == u \in approved \/ Used(HostOf[u]) < MaxPerHost

\* What is decided without robots.txt.
Eligible(u) == u \in Fetchable /\ HostOf[u] \in SeedHosts

\* The budget is spent on approval.  A policy is the set of URLs it allows.
Approves(u, policy) == u \in policy /\ Affordable(u)

Becomes(w, proc) == procs' = [procs EXCEPT ![w] = proc]

At(w, step) == procs[w].step = step /\ procs[w].loading = None

Row(url, what) == [url |-> url, what |-> what]

Init ==
  /\ phase = "start"
  /\ policies = [o \in Origins |-> None]
  /\ heard = [o \in Origins |-> {}]
  /\ probed = {}
  /\ approved = {}
  /\ requests = [u \in Urls |-> NotQueued]
  /\ procs = [w \in Workers \cup {Main} |-> Idle]
  /\ turns = [h \in Hosts |-> <<>>]
  /\ elapsed = [h \in Hosts |-> 0]
  /\ since = [h \in Hosts |-> Interval]
  /\ age = AgeOf
  /\ trail = {}
  /\ asked = {}
  /\ moved = {}
  /\ tally = {}
  /\ faults = 0

Fault ==
  /\ faults < MaxFaults
  /\ faults' = faults + 1

-----------------------------------------------------------------------------
(* Approval: inScope, called by the main program for the seeds, by a       *)
(* worker for each link of a page and by its fetcher for each redirect.    *)

\* discoverSeeds: the seeds, and what their sitemaps list, each of which may fail on
\* its own.  These requests pass no guard, nor is the robots.txt read here the policy
\* of its origin.  In which order the URLs are offered, and so which of a host's get
\* its budget, is left open.
DiscoverSeeds ==
  /\ phase = "start"
  /\ phase' = "seeding"
  /\ \E answer \in [Explored -> UNION {RobotsOf[o] : o \in Origins}] :
       /\ \A s \in Explored : answer[s] \in RobotsOf[OriginOf[s]]
       /\ heard' = [o \in Origins |->
                      heard[o] \cup {answer[s] : s \in {t \in Explored : OriginOf[t] = o}}]
  /\ \E readable \in [0..MAX_DEPTH -> SUBSET DOMAIN Sitemaps] :
       /\ probed' = SitemapOrigins(readable) \cup UNION {Detours[OriginOf[s]] : s \in Explored}
       /\ Becomes(Main, [Idle EXCEPT !.step = "links", !.links = Seeds \cup Listed(readable)])
  /\ UNCHANGED <<policies, approved, requests, manners, record, asked, moved, faults>>

Offered(w) ==
  CASE At(w, "guard") -> {procs[w].next}
    [] At(w, "links") -> procs[w].links
    [] OTHER -> {}

Finished(w, u) ==
  /\ requests' = [requests EXCEPT ![u].state = "done"]
  /\ Becomes(w, Idle)

\* The hop is made, unless it is one too many.
Hopped(p, u) ==
  IF p.hop < MAX_REDIRECTS
  THEN [p EXCEPT !.step = "ask", !.at = u, !.hop = p.hop + 1, !.next = None, !.loading = None]
  ELSE [p EXCEPT !.step = "loop", !.at = u, !.next = None, !.loading = None]

\* A link is kept or dropped.  A redirect is followed, or blocked, which ends the
\* request.
Decided(w, u, ok) ==
  LET p == procs[w] IN
  IF p.step = "links"
  THEN /\ Becomes(w, [p EXCEPT !.links = @ \ {u}, !.loading = None,
                               !.kept = IF ok THEN @ \cup {u} ELSE @])
       /\ UNCHANGED <<requests, record>>
  ELSE IF ok
  THEN /\ Becomes(w, Hopped(p, u))
       /\ UNCHANGED <<requests, record>>
  ELSE /\ Finished(w, p.url)
       /\ tally' = tally \cup {"skipped"}
       /\ UNCHANGED <<age, trail>>

Approve(w, u, policy) ==
  /\ approved' = IF Approves(u, policy) THEN approved \cup {u} ELSE approved
  /\ Decided(w, u, Approves(u, policy))

\* The policy of the origin may have to be loaded first; another process may be
\* loading it as well.
InScope(w, u) ==
  /\ u \in Offered(w)
  /\ \/ /\ ~Eligible(u)
        /\ Decided(w, u, FALSE)
        /\ UNCHANGED scope
     \/ /\ Eligible(u)
        /\ policies[OriginOf[u]] # None
        /\ Approve(w, u, policies[OriginOf[u]])
        /\ UNCHANGED <<policies, heard, probed>>
     \/ /\ Eligible(u)
        /\ policies[OriginOf[u]] = None
        /\ Becomes(w, [procs[w] EXCEPT !.loading = u])
        /\ UNCHANGED <<scope, requests, record>>
  /\ UNCHANGED <<phase, manners, asked, moved, faults>>

\* robots.txt has answered, or not; of two who asked the last to hear is kept.
LoadRobots(w) ==
  LET u == procs[w].loading
      o == OriginOf[u]
  IN
  /\ u # None
  /\ \E policy \in RobotsOf[o] :
       /\ policies' = [policies EXCEPT ![o] = policy]
       /\ heard' = [heard EXCEPT ![o] = @ \cup {policy}]
       /\ Approve(w, u, policy)
  /\ probed' = probed \cup Detours[o]
  /\ UNCHANGED <<phase, manners, asked, moved, faults>>

\* dropFreshUrls: only a sitemap claims an edit.
Worth(w, u) ==
  \/ RefetchAll
  \/ age[u] # "fresh"
  \/ w = Main /\ u \in NewerSays \ Seeds

\* The URLs worth fetching are queued.  Crawlee queues a URL once.
Enqueue(w) ==
  LET p     == procs[w]
      worth == {u \in p.kept : Worth(w, u)}
  IN
  /\ At(w, "links")
  /\ p.links = {}
  /\ requests' = [u \in Urls |->
       CASE u \in worth /\ requests[u] = NotQueued -> [NotQueued EXCEPT !.state = "queued"]
         [] u = p.url -> [requests[u] EXCEPT !.state = "done"]
         [] OTHER -> requests[u]]
  /\ Becomes(w, Idle)
  /\ phase' = IF phase = "seeding" THEN "running" ELSE phase
  /\ tally' = IF w = Main /\ worth # p.kept THEN tally \cup {"fresh"} ELSE tally
  /\ UNCHANGED <<scope, manners, age, trail, asked, moved, faults>>

-----------------------------------------------------------------------------
(* A worker.                                                               *)

Handled == Cardinality({u \in Urls : requests[u].state = "done"})

\* Crawlee starts a request unless the crawl has handled enough, and the fetcher
\* joins those waiting for the host.
Start(w, u) ==
  LET h == HostOf[u] IN
  /\ phase = "running"
  /\ procs[w] = Idle
  /\ requests[u].state = "queued"
  /\ Handled < MaxRequests
  /\ requests' = [requests EXCEPT ![u].state = "active"]
  /\ Becomes(w, [Idle EXCEPT !.step = "turn", !.url = u, !.at = u])
  /\ turns' = [turns EXCEPT ![h] = Append(@, w)]
  /\ elapsed' = IF turns[h] = <<>> THEN [elapsed EXCEPT ![h] = 0] ELSE elapsed
  /\ UNCHANGED <<phase, scope, since, record, asked, moved, faults>>

\* Mutant of NextTimer: each request waits from when it came, not from the turn
\* before its own.
OwnTimer(h) == elapsed

\* The timer of the next in line starts with the turn before it.
NextTimer(h) == [elapsed EXCEPT ![h] = 0]

Turn(w) ==
  LET h == HostOf[procs[w].url] IN
  /\ At(w, "turn")
  /\ Head(turns[h]) = w
  /\ elapsed[h] >= Interval
  /\ turns' = [turns EXCEPT ![h] = Tail(@)]
  /\ elapsed' = NextTimer(h)
  /\ since' = [since EXCEPT ![h] = 0]
  /\ Becomes(w, [procs[w] EXCEPT !.step = "ask"])
  /\ UNCHANGED <<phase, scope, requests, record, asked, moved, faults>>

Tick ==
  /\ \E h \in Hosts : turns[h] # <<>> /\ elapsed[h] < Interval
  /\ elapsed' = [h \in Hosts |-> IF elapsed[h] < Interval THEN elapsed[h] + 1 ELSE Interval]
  /\ since' = [h \in Hosts |-> IF since[h] < Interval THEN since[h] + 1 ELSE Interval]
  /\ UNCHANGED <<phase, scope, requests, procs, turns, record, asked, moved, faults>>

\* The request goes out.
Ask(w) ==
  /\ At(w, "ask")
  /\ asked' = asked \cup {procs[w].at}
  /\ Becomes(w, [procs[w] EXCEPT !.step = "wait"])
  /\ UNCHANGED <<phase, scope, requests, manners, record, moved, faults>>

\* Mutant of AfterRedirect: the guard is not asked.
Followed(p, target) == [p EXCEPT !.step = "ask", !.at = target, !.hop = p.hop + 1]

\* The guard is asked before the hop is made.
AfterRedirect(p, target) == [p EXCEPT !.step = "guard", !.next = target]

Redirected(w) ==
  LET p == procs[w] IN
  /\ At(w, "wait")
  /\ \E target \in Serves[p.at] \cap Urls : Becomes(w, AfterRedirect(p, target))
  /\ moved' = moved \cup {p.at}
  /\ UNCHANGED <<phase, scope, requests, manners, record, asked, faults>>

\* Mutant of Counted: whatever is not a page is skipped.
RefusalSkipped(answer) == "skipped"

\* A refusal fails; an answer that is not a page is merely skipped.
Counted(answer) == IF answer = "refused" THEN "failed" ELSE "skipped"

\* recordFailedFetch, or recordFetch of a page without enough text.
NotAPage(w) ==
  LET p == procs[w] IN
  /\ At(w, "wait")
  /\ \E answer \in Serves[p.at] \cap {"refused", "unusable", "thin"} :
       /\ trail' = trail \cup {Row(p.at, answer)}
       /\ tally' = tally \cup {Counted(answer)}
       /\ age' = IF answer = "thin" /\ age[p.at] # "unknown"
                 THEN [age EXCEPT ![p.at] = "evicted"] ELSE age
       /\ IF answer = "thin" /\ Discover
          THEN /\ Becomes(w, [p EXCEPT !.step = "links", !.links = LinksOf[p.at]])
               /\ UNCHANGED requests
          ELSE Finished(w, p.url)
  /\ UNCHANGED <<phase, scope, manners, asked, moved, faults>>

Content(w) ==
  LET p == procs[w] IN
  /\ At(w, "wait")
  /\ \E answer \in Serves[p.at] \cap {"page", "markdown"} :
       /\ trail' = trail \cup {Row(p.at, "content")}
       /\ tally' = tally \cup {"landed"}
       /\ age' = [age EXCEPT ![p.at] = "fresh"]
       /\ IF answer = "page" /\ Discover
          THEN /\ Becomes(w, [p EXCEPT !.step = "links", !.links = LinksOf[p.at]])
               /\ UNCHANGED requests
          ELSE Finished(w, p.url)
  /\ UNCHANGED <<phase, scope, manners, asked, moved, faults>>

\* One redirect too many is a failure of the URL that was not asked any more.
Loop(w) ==
  LET p == procs[w] IN
  /\ At(w, "loop")
  /\ trail' = trail \cup {Row(p.at, "loop")}
  /\ tally' = tally \cup {"failed"}
  /\ Finished(w, p.url)
  /\ UNCHANGED <<phase, scope, manners, age, asked, moved, faults>>

\* Mutant of Retried: the retry is not counted.
Uncounted(tries) == tries

Retried(tries) == tries + 1

\* Mutant of GivesUp: one retry too many.
GivesUpLate(tries, retryable) == ~retryable \/ tries > MaxRetries

GivesUp(tries, retryable) == ~retryable \/ tries >= MaxRetries

\* The handler throws: Crawlee queues the request again, or counts it as handled and
\* calls failedRequestHandler.
Thrown(w, retryable) ==
  LET u == procs[w].url IN
  /\ IF GivesUp(requests[u].tries, retryable)
     THEN /\ requests' = [requests EXCEPT ![u].state = "done"]
          /\ Becomes(w, [Idle EXCEPT !.step = "lost", !.url = u])
     ELSE /\ requests' = [requests EXCEPT ![u] = [state |-> "queued", tries |-> Retried(@.tries)]]
          /\ Becomes(w, Idle)
  /\ UNCHANGED record

Dead(w) ==
  /\ At(w, "wait")
  /\ \/ "dead" \in Serves[procs[w].at] /\ Thrown(w, TRUE)
     \/ "coded" \in Serves[procs[w].at] /\ Thrown(w, FALSE)
  /\ UNCHANGED <<phase, scope, manners, asked, moved, faults>>

\* Mutant of LostRow: a request that never got an answer leaves no row.
NoRow(u) == {}

LostRow(u) == {Row(u, "lost")}

\* failedRequestHandler writes the request down under the URL that was queued.
Lost(w) ==
  /\ At(w, "lost")
  /\ trail' = trail \cup LostRow(procs[w].url)
  /\ tally' = tally \cup {"failed"}
  /\ Becomes(w, Idle)
  /\ UNCHANGED <<phase, scope, requests, manners, age, asked, moved, faults>>

\* dropFreshUrls has something to look up.
LooksUp(w) == At(w, "links") /\ procs[w].links = {} /\ procs[w].kept # {} /\ ~RefetchAll

\* The database fails a worker that records an answer or looks up its page's links.
Throw(w) ==
  /\ Fault
  /\ At(w, "wait") \/ At(w, "loop") \/ LooksUp(w)
  /\ Thrown(w, TRUE)
  /\ UNCHANGED <<phase, scope, manners, asked, moved>>

\* It fails failedRequestHandler, or the look-up before the first request: nobody
\* catches that, and crawl() rejects.  Workers go on with what they have.
Abort(w) ==
  /\ Fault
  /\ At(w, "lost") \/ (w = Main /\ LooksUp(w))
  /\ phase' = "aborted"
  /\ Becomes(w, Idle)
  /\ UNCHANGED <<scope, requests, manners, record, asked, moved>>

\* The queue is empty, or enough has been handled.
Over ==
  /\ phase = "running"
  /\ \A w \in Workers : procs[w] = Idle
  /\ \/ \A u \in Urls : requests[u].state # "queued"
     \/ Handled >= MaxRequests
  /\ phase' = "over"
  /\ UNCHANGED <<scope, requests, procs, manners, record, asked, moved, faults>>

\* crawlExitCode: nothing landed, and something went wrong.
ExitCode == IF tally \cap {"landed", "fresh"} = {} /\ "failed" \in tally THEN 1 ELSE 0

-----------------------------------------------------------------------------
Approval(w) == LoadRobots(w) \/ Enqueue(w) \/ \E u \in Urls : InScope(w, u)

Work(w) ==
  \/ \E u \in Urls : Start(w, u)
  \/ Turn(w) \/ Ask(w) \/ Redirected(w) \/ NotAPage(w) \/ Content(w) \/ Loop(w)
  \/ Dead(w) \/ Lost(w) \/ Approval(w)

Next ==
  \/ DiscoverSeeds
  \/ Approval(Main)
  \/ \E w \in Workers : Work(w) \/ Throw(w)
  \/ \E w \in Workers \cup {Main} : Abort(w)
  \/ Tick
  \/ Over

Spec == Init /\ [][Next]_vars

\* A process goes on when what it awaits is there, every request is answered or
\* fails, and time passes.
Fairness ==
  /\ WF_vars(DiscoverSeeds) /\ WF_vars(Approval(Main))
  /\ \A w \in Workers : WF_vars(Work(w))
  /\ WF_vars(Tick) /\ WF_vars(Over)

FairSpec == Spec /\ Fairness

-----------------------------------------------------------------------------
(* Properties.                                                             *)

Proc == [step : {"idle", "turn", "ask", "wait", "guard", "links", "loop", "lost"},
         url : Urls \cup {None}, at : Urls \cup {None}, hop : 0..MAX_REDIRECTS,
         next : Urls \cup {None}, links : SUBSET Urls, kept : SUBSET Urls,
         loading : Urls \cup {None}]

TypeOK ==
  /\ phase \in {"start", "seeding", "running", "over", "aborted"}
  /\ policies \in [Origins -> (SUBSET Urls) \cup {None}]
  /\ heard \in [Origins -> SUBSET SUBSET Urls]
  /\ probed \subseteq Origins
  /\ approved \subseteq Urls
  /\ requests \in [Urls -> [state : {"absent", "queued", "active", "done"},
                            tries : 0..MaxRetries]]
  /\ procs \in [Workers \cup {Main} -> Proc]
  /\ turns \in [Hosts -> Seq(Workers)]
  /\ elapsed \in [Hosts -> 0..Interval]
  /\ since \in [Hosts -> 0..Interval]
  /\ age \in [Urls -> Ages]
  /\ trail \subseteq [url : Urls, what : {"content", "thin", "refused", "unusable",
                                          "loop", "lost"}]
  /\ asked \subseteq Urls /\ moved \subseteq asked
  /\ tally \subseteq {"landed", "fresh", "skipped", "failed"}
  /\ faults \in 0..MaxFaults

\* Whatever is asked for - seed, sitemap entry, link or redirect, by however many
\* workers at once and on however many retries - a host is never asked for more
\* URLs than its budget (CrawlOptions.maxPerHost, "Ceiling per host").
WithinBudget ==
  \A h \in Hosts : Cardinality({u \in asked : HostOf[u] = h}) <= MaxPerHost

\* The origins that discovery may ask: those of sitemaps, and those to which a
\* robots.txt that was read is redirected.
Discoverable ==
  {o \in Origins : \/ \E s \in DOMAIN Sitemaps : o \in Sitemaps[s].at
                   \/ \E p \in Origins : heard[p] # {} /\ o \in Detours[p]}

\* No page is asked for off the seeds' hosts, or that no robots.txt its origin has
\* answered to this crawl allows - not even of two that answered at once - redirects
\* included (crawl/http.ts, "the check has to happen before each hop, not after the
\* fact").  The requests of discovery are not pages and pass no guard: they go where
\* a sitemap is, or a robots.txt redirects.
StaysWhereAllowed ==
  /\ \A u \in asked :
       /\ HostOf[u] \in SeedHosts
       /\ \E policy \in heard[OriginOf[u]] : u \in policy
  /\ probed \subseteq Discoverable

\* Two pages of one host are never asked for within the interval, however many
\* workers want it (politely).  The hops of a redirect are not pages.
Spaced ==
  [][\A h \in Hosts : Len(turns'[h]) < Len(turns[h]) => since[h] >= Interval]_vars

\* Unless the crawl was aborted, a request that is done with is in the trail under
\* its own URL, is about to be, or was answered with a redirect (failedRequestHandler,
\* "it is part of the trail even though nothing usable came back"); and a page that is
\* found fresh later was recorded.
TrailComplete ==
  /\ phase # "aborted" =>
       \A u \in Urls :
         requests[u].state = "done" =>
           \/ u \in moved
           \/ \E row \in trail : row.url = u
           \/ \E w \in Workers : procs[w].step = "lost" /\ procs[w].url = u
  /\ \A u \in Urls :
       age[u] = "fresh" => AgeOf[u] = "fresh" \/ Row(u, "content") \in trail

\* A run that is over is reported failed exactly when its trail has nothing to show and
\* something in it went wrong, though a page may be recorded and then fail.
FailedRunHasNothing ==
  phase = "over" =>
    (ExitCode = 1 <=>
       /\ "fresh" \notin tally
       /\ \A row \in trail : row.what # "content"
       /\ \E row \in trail : row.what \in {"refused", "loop", "lost"})

\* The crawl ends: links, redirects, sitemaps and retries that lead back to where
\* they came from run out, and nobody waits for a turn that never comes.
Ends == <>(phase \in {"over", "aborted"})
=============================================================================
