--------------------------- MODULE CrawlerProofs ---------------------------
(***************************************************************************)
(* What a crawl may ask for, proved for any number of hosts, workers and   *)
(* URLs, whatever robots.txt, sitemaps, links and redirects come to.       *)
(*                                                                         *)
(* Everything asked for was approved before, and approval keeps the budget *)
(* and the policy.  The invariant adds what is on its way from approval to *)
(* a request: the URLs kept, queued, waiting for a turn or about to be     *)
(* asked, and the URL whose policy is being loaded.                        *)
(***************************************************************************)
EXTENDS Crawler, FiniteSetTheorems, SequenceTheorems, TLAPS

Procs == Workers \cup {Main}

-----------------------------------------------------------------------------
(* The inductive invariant.                                                *)

\* Where process w can be, with the URLs approved and asked for so far.
ProcAt(w, p, approvedSoFar, askedSoFar) ==
  /\ p \in Proc
  /\ p.step \in {"turn", "ask", "wait", "guard", "loop"} => p.at \in approvedSoFar
  /\ p.step = "guard" => p.next \in Urls
  /\ p.step = "wait" => p.at \in askedSoFar
  /\ p.kept \subseteq approvedSoFar
  /\ p.loading # None => p.step \in {"guard", "links"} /\ Eligible(p.loading)
  /\ w \in Workers /\ p.step # "idle" => p.url \in approvedSoFar
  /\ w = Main => p.step \in {"idle", "links"} /\ p.url = None

ProcsInv ==
  /\ procs \in [Procs -> Proc]
  /\ \A w \in Procs : ProcAt(w, procs[w], approved, asked)

PoliciesInv ==
  /\ policies \in [Origins -> (SUBSET Urls) \cup {None}]
  /\ heard \in [Origins -> SUBSET SUBSET Urls]
  /\ probed \subseteq Origins \cap Discoverable
  /\ \A o \in Origins : policies[o] # None => policies[o] \in heard[o]

Permitted(u) ==
  /\ HostOf[u] \in SeedHosts
  /\ \E policy \in heard[OriginOf[u]] : u \in policy

ApprovedInv ==
  /\ approved \subseteq Urls
  /\ \A u \in approved : Permitted(u)
  /\ \A h \in Hosts : Used(h) <= MaxPerHost

Request == [state : {"absent", "queued", "active", "done"}, tries : 0..MaxRetries]

RequestsInv ==
  /\ requests \in [Urls -> Request]
  /\ \A u \in Urls : requests[u].state # "absent" => u \in approved

AskedInv == asked \subseteq approved

ScopeInv == ProcsInv /\ PoliciesInv /\ ApprovedInv /\ RequestsInv /\ AskedInv

-----------------------------------------------------------------------------
(* One process moves.                                                      *)

\* A process that moves to a good place leaves the others where they were, more
\* being approved and asked for than before.
LEMMA OneProc ==
  ASSUME NEW f \in [Procs -> Proc], NEW A, NEW B, NEW Q, NEW R,
         A \subseteq B, Q \subseteq R,
         \A v \in Procs : ProcAt(v, f[v], A, Q),
         NEW w \in Procs, NEW p, ProcAt(w, p, B, R)
  PROVE  /\ [f EXCEPT ![w] = p] \in [Procs -> Proc]
         /\ \A v \in Procs : ProcAt(v, [f EXCEPT ![w] = p][v], B, R)
<1>1. p \in Proc
  BY DEF ProcAt
<1>2. ASSUME NEW v \in Procs, v # w PROVE ProcAt(v, [f EXCEPT ![w] = p][v], B, R)
  <2>1. [f EXCEPT ![w] = p][v] = f[v]
    BY <1>2
  <2>2. ProcAt(v, f[v], A, Q)
    OBVIOUS
  <2> QED BY <2>1, <2>2 DEF ProcAt
<1>3. [f EXCEPT ![w] = p][w] = p
  OBVIOUS
<1> QED BY <1>1, <1>2, <1>3

\* The same for a step that makes the move.
LEMMA Moves ==
  ASSUME ProcsInv, NEW w \in Procs, NEW p, procs' = [procs EXCEPT ![w] = p],
         approved \subseteq approved', asked \subseteq asked',
         ProcAt(w, p, approved', asked')
  PROVE  ProcsInv'
<1>1. procs \in [Procs -> Proc]
  BY DEF ProcsInv
<1>2. \A v \in Procs : ProcAt(v, procs[v], approved, asked)
  BY DEF ProcsInv
<1>3. /\ [procs EXCEPT ![w] = p] \in [Procs -> Proc]
      /\ \A v \in Procs : ProcAt(v, [procs EXCEPT ![w] = p][v], approved', asked')
  BY <1>1, <1>2, OneProc
<1> QED BY <1>3 DEF ProcsInv

\* One that moves nothing.
LEMMA Stays ==
  ASSUME ProcsInv, procs' = procs, approved' = approved, asked' = asked
  PROVE  ProcsInv'
BY DEF ProcsInv

\* The fields of an idle process.
LEMMA IdleFields ==
  /\ Idle \in Proc
  /\ Idle.step = "idle" /\ Idle.url = None /\ Idle.at = None /\ Idle.hop = 0
  /\ Idle.next = None /\ Idle.links = {} /\ Idle.kept = {} /\ Idle.loading = None
BY CrawlerAssumption DEF Idle, Proc

LEMMA IdleAt ==
  ASSUME NEW w \in Procs, NEW A, NEW Q PROVE ProcAt(w, Idle, A, Q)
BY CrawlerAssumption DEF ProcAt, Idle, Proc, Procs

-----------------------------------------------------------------------------
(* Approval.                                                               *)

\* Spending the budget on one URL more keeps it, and the URL is a permitted one.
LEMMA ApprovalKeeps ==
  ASSUME ApprovedInv, \A o \in Origins : heard[o] \subseteq heard'[o],
         NEW u \in Urls, NEW policy \in heard'[OriginOf[u]], Eligible(u),
         approved' = IF Approves(u, policy) THEN approved \cup {u} ELSE approved
  PROVE  /\ ApprovedInv'
         /\ approved \subseteq approved'
         /\ Approves(u, policy) => u \in approved'
<1>0. ASSUME NEW x \in approved PROVE Permitted(x)'
  <2>1. Permitted(x) /\ OriginOf[x] \in Origins
    BY DEF ApprovedInv, Origins
  <2> QED BY <2>1 DEF Permitted
<1>1. CASE ~Approves(u, policy) \/ u \in approved
  <2>1. approved' = approved
    BY <1>1
  <2> QED BY <2>1, <1>0, <1>1 DEF ApprovedInv, Used
<1>2. CASE Approves(u, policy) /\ u \notin approved
  <2>1. approved' = approved \cup {u}
    BY <1>2
  <2>2. Permitted(u)'
    BY <1>2 DEF Permitted, Approves, Eligible
  <2>3. ASSUME NEW h \in Hosts PROVE Used(h)' <= MaxPerHost
    <3> DEFINE mine == {x \in approved : HostOf[x] = h}
    <3>1. mine \subseteq Urls /\ IsFiniteSet(Urls)
      BY CrawlerAssumption DEF ApprovedInv
    <3>2. IsFiniteSet(mine)
      BY <3>1, FS_Subset
    <3>3. CASE HostOf[u] = h
      <4>1. {x \in approved' : HostOf[x] = h} = mine \cup {u}
        BY <2>1, <3>3
      <4>2. Cardinality(mine \cup {u}) = Cardinality(mine) + 1
        BY <3>2, <1>2, FS_AddElement
      <4>3. Cardinality(mine) < MaxPerHost
        BY <1>2, <3>3 DEF Approves, Affordable, Used
      <4>4. Cardinality(mine) \in Nat /\ MaxPerHost \in Nat
        BY <3>2, FS_CardinalityType, CrawlerAssumption
      <4>5. Used(h)' = Cardinality({x \in approved' : HostOf[x] = h})
        BY DEF Used
      <4>6. Cardinality(mine) + 1 <= MaxPerHost
        BY <4>3, <4>4
      <4> HIDE DEF mine
      <4> QED BY <4>1, <4>2, <4>5, <4>6
    <3>4. CASE HostOf[u] # h
      <4>1. {x \in approved' : HostOf[x] = h} = mine
        BY <2>1, <3>4
      <4> QED BY <4>1 DEF Used, ApprovedInv
    <3> QED BY <3>3, <3>4
  <2> QED BY <1>0, <2>1, <2>2, <2>3 DEF ApprovedInv
<1> QED BY <1>1, <1>2

-----------------------------------------------------------------------------
(* Each action.                                                            *)

\* The hop after a redirect, and the one too many.
LEMMA HoppedFields ==
  ASSUME NEW p \in Proc, NEW u \in Urls
  PROVE  /\ Hopped(p, u) \in Proc
         /\ Hopped(p, u).step \in {"ask", "loop"} /\ Hopped(p, u).at = u
         /\ Hopped(p, u).url = p.url /\ Hopped(p, u).kept = p.kept
         /\ Hopped(p, u).loading = None
<1>1. p.hop \in 0..MAX_REDIRECTS /\ MAX_REDIRECTS \in Nat
  BY CrawlerAssumption DEF Proc
<1>2. CASE p.hop < MAX_REDIRECTS
  <2>1. p.hop + 1 \in 0..MAX_REDIRECTS
    BY <1>1, <1>2
  <2> QED BY <1>2, <2>1 DEF Hopped, Proc
<1>3. CASE ~(p.hop < MAX_REDIRECTS)
  BY <1>3 DEF Hopped, Proc
<1> QED BY <1>2, <1>3

\* Deciding about an offered URL leaves everybody in a good place: what is kept,
\* or gone on to, was approved.
LEMMA DecidedKeeps ==
  ASSUME ProcsInv, RequestsInv, approved' \subseteq Urls, approved \subseteq approved',
         asked' = asked,
         NEW w \in Procs, procs[w].step \in {"guard", "links"},
         NEW u \in Urls, NEW ok \in BOOLEAN, ok => u \in approved',
         Decided(w, u, ok)
  PROVE  ProcsInv' /\ RequestsInv'
<1> DEFINE p == procs[w]
<1>1. ProcAt(w, p, approved, asked) /\ p \in Proc
  BY DEF ProcsInv
<1>2. CASE p.step = "links"
  <2> DEFINE next == [p EXCEPT !.links = @ \ {u}, !.loading = None,
                               !.kept = IF ok THEN @ \cup {u} ELSE @]
  <2>1. procs' = [procs EXCEPT ![w] = next] /\ requests' = requests
    BY <1>2 DEF Decided, Becomes
  <2>2. next \in Proc
    BY <1>1 DEF Proc
  <2>3. ProcAt(w, next, approved', asked')
    BY <1>1, <1>2, <2>2 DEF ProcAt, Proc
  <2>4. ProcsInv'
    BY <2>1, <2>3, Moves
  <2>5. RequestsInv'
    BY <2>1 DEF RequestsInv
  <2> QED BY <2>4, <2>5
<1>3. CASE p.step = "guard"
  <2>1. p.url \in approved /\ w \in Workers /\ p.url \in Urls
    BY <1>1, <1>3 DEF ProcAt, Procs
  <2>2. CASE ok
    <3> DEFINE next == Hopped(p, u)
    <3>1. procs' = [procs EXCEPT ![w] = next] /\ requests' = requests
      BY <1>3, <2>2 DEF Decided, Becomes
    <3>2. ProcAt(w, next, approved', asked')
      BY <1>1, <1>3, <2>1, <2>2, HoppedFields DEF ProcAt
    <3> HIDE DEF next
    <3>3. ProcsInv'
      BY <3>1, <3>2, Moves
    <3>4. RequestsInv'
      BY <3>1 DEF RequestsInv
    <3> QED BY <3>3, <3>4
  <2>3. CASE ~ok
    <3>1. Finished(w, p.url)
      BY <1>3, <2>3 DEF Decided
    <3>2. ProcsInv'
      BY <3>1, IdleAt, Moves DEF Finished, Becomes
    <3>3. RequestsInv'
      BY <2>1, <3>1 DEF Finished, RequestsInv, Request
    <3> QED BY <3>2, <3>3
  <2> QED BY <2>2, <2>3
<1> QED BY <1>2, <1>3

LEMMA OfferedIsUrl ==
  ASSUME ProcsInv, NEW w \in Procs, NEW u \in Offered(w)
  PROVE  u \in Urls /\ procs[w].step \in {"guard", "links"} /\ procs[w].loading = None
<1>1. ProcAt(w, procs[w], approved, asked)
  BY DEF ProcsInv
<1>2. CASE At(w, "guard")
  BY <1>1, <1>2 DEF Offered, At, ProcAt
<1>3. CASE ~At(w, "guard") /\ At(w, "links")
  BY <1>1, <1>3 DEF Offered, At, ProcAt, Proc
<1>4. CASE ~At(w, "guard") /\ ~At(w, "links")
  BY <1>4 DEF Offered
<1> QED BY <1>2, <1>3, <1>4

\* A policy that is known or just loaded decides.
LEMMA ApproveKeeps ==
  ASSUME ProcsInv, RequestsInv, ApprovedInv, AskedInv, asked' = asked,
         \A o \in Origins : heard[o] \subseteq heard'[o],
         NEW w \in Procs, procs[w].step \in {"guard", "links"},
         NEW u \in Urls, Eligible(u), NEW policy \in heard'[OriginOf[u]],
         Approve(w, u, policy)
  PROVE  ProcsInv' /\ RequestsInv' /\ ApprovedInv' /\ AskedInv'
<1>1. approved' = IF Approves(u, policy) THEN approved \cup {u} ELSE approved
  BY DEF Approve
<1>2. /\ ApprovedInv'
      /\ approved \subseteq approved'
      /\ Approves(u, policy) => u \in approved'
  BY <1>1, ApprovalKeeps
<1>3. Decided(w, u, Approves(u, policy)) /\ Approves(u, policy) \in BOOLEAN
  BY DEF Approve, Approves, Affordable
<1>4. approved' \subseteq Urls
  BY <1>2 DEF ApprovedInv
<1>5. ProcsInv' /\ RequestsInv'
  BY <1>2, <1>3, <1>4, DecidedKeeps
<1>6. AskedInv'
  BY <1>2 DEF AskedInv
<1> QED BY <1>2, <1>5, <1>6

LEMMA InScopeKeeps ==
  ASSUME ScopeInv, NEW w \in Procs, NEW u, InScope(w, u) PROVE ScopeInv'
<1> USE DEF ScopeInv
<1>1. /\ u \in Offered(w) /\ u \in Urls
      /\ procs[w].step \in {"guard", "links"}
      /\ procs[w].loading = None
  BY OfferedIsUrl DEF InScope
<1>2. asked' = asked
  BY DEF InScope
<1>3. CASE ~Eligible(u) /\ Decided(w, u, FALSE) /\ UNCHANGED scope
  <2>1. UNCHANGED <<policies, heard, probed, approved>>
    BY <1>3 DEF scope
  <2>2. approved' \subseteq Urls
    BY <2>1 DEF ApprovedInv
  <2>3. ProcsInv' /\ RequestsInv'
    BY <1>1, <1>2, <1>3, <2>1, <2>2, DecidedKeeps
  <2> QED BY <1>2, <2>1, <2>3 DEF PoliciesInv, ApprovedInv, AskedInv, Permitted, Used, Discoverable
<1>4. CASE /\ Eligible(u)
           /\ policies[OriginOf[u]] # None
           /\ Approve(w, u, policies[OriginOf[u]])
           /\ UNCHANGED <<policies, heard, probed>>
  <2>1. policies[OriginOf[u]] \in heard'[OriginOf[u]]
    BY <1>1, <1>4 DEF PoliciesInv, Origins
  <2>2. ProcsInv' /\ RequestsInv' /\ ApprovedInv' /\ AskedInv'
    BY <1>1, <1>2, <1>4, <2>1, ApproveKeeps
  <2> QED BY <1>4, <2>2 DEF PoliciesInv, Discoverable
<1>5. CASE /\ Eligible(u)
           /\ policies[OriginOf[u]] = None
           /\ Becomes(w, [procs[w] EXCEPT !.loading = u])
           /\ UNCHANGED <<scope, requests, record>>
  <2> DEFINE next == [procs[w] EXCEPT !.loading = u]
  <2>1. procs' = [procs EXCEPT ![w] = next] /\ UNCHANGED <<policies, heard, probed, approved, requests>>
    BY <1>5 DEF Becomes, scope
  <2>2. ProcAt(w, next, approved', asked')
    BY <1>1, <1>2, <1>5, <2>1 DEF ProcsInv, ProcAt, Proc
  <2>3. ProcsInv'
    BY <1>2, <2>1, <2>2, Moves
  <2> QED BY <1>2, <2>1, <2>3 DEF PoliciesInv, ApprovedInv, AskedInv, RequestsInv, Permitted, Used, Discoverable
<1> QED BY <1>3, <1>4, <1>5 DEF InScope

\* What has answered once is not forgotten, and opens what it redirects to.
LEMMA HeardGrows ==
  ASSUME \A o \in Origins : heard[o] \subseteq heard'[o]
  PROVE  /\ Discoverable \subseteq Discoverable'
         /\ \A o \in Origins : heard'[o] # {} => Detours[o] \subseteq Discoverable'
<1>1. \A o \in Origins : Detours[o] \subseteq Origins
  BY CrawlerAssumption
<1>2. \A o \in Origins : heard[o] # {} => heard'[o] # {}
  OBVIOUS
<1> QED BY <1>1, <1>2 DEF Discoverable

LEMMA LoadRobotsKeeps ==
  ASSUME ScopeInv, NEW w \in Procs, LoadRobots(w) PROVE ScopeInv'
<1> USE DEF ScopeInv
<1> DEFINE u == procs[w].loading
<1>1. ProcAt(w, procs[w], approved, asked) /\ u # None /\ asked' = asked
  BY DEF ProcsInv, LoadRobots
<1>2. u \in Urls /\ Eligible(u) /\ procs[w].step \in {"guard", "links"}
  BY <1>1 DEF ProcAt, Proc
<1>3. PICK policy \in RobotsOf[OriginOf[u]] :
        /\ policies' = [policies EXCEPT ![OriginOf[u]] = policy]
        /\ heard' = [heard EXCEPT ![OriginOf[u]] = heard[OriginOf[u]] \cup {policy}]
        /\ Approve(w, u, policy)
  BY DEF LoadRobots
<1>4. policy \in SUBSET Urls /\ OriginOf[u] \in Origins
  BY <1>2, CrawlerAssumption DEF Origins
<1>5. /\ \A o \in Origins : heard[o] \subseteq heard'[o]
      /\ policy \in heard'[OriginOf[u]]
      /\ heard' \in [Origins -> SUBSET SUBSET Urls]
  BY <1>3, <1>4 DEF PoliciesInv
<1>6. ProcsInv' /\ RequestsInv' /\ ApprovedInv' /\ AskedInv'
  BY <1>1, <1>2, <1>3, <1>5, ApproveKeeps
<1>7. probed' \subseteq Origins \cap Discoverable'
  <2>1. probed' = probed \cup Detours[OriginOf[u]] /\ Detours[OriginOf[u]] \subseteq Origins
    BY <1>4, CrawlerAssumption DEF LoadRobots
  <2>2. Discoverable \cup Detours[OriginOf[u]] \subseteq Discoverable'
    BY <1>4, <1>5, HeardGrows
  <2> QED BY <2>1, <2>2 DEF PoliciesInv
<1>8. PoliciesInv'
  BY <1>3, <1>4, <1>5, <1>7 DEF PoliciesInv
<1> QED BY <1>6, <1>8

\* Steps that change none of what the invariant speaks of.
LEMMA Unmoved ==
  ASSUME ScopeInv, UNCHANGED <<policies, heard, probed, approved, requests, procs, asked>> PROVE ScopeInv'
BY DEF ScopeInv, ProcsInv, PoliciesInv, ApprovedInv, RequestsInv, AskedInv, Permitted, Used, Discoverable

\* Steps of one process that change only where it is.
LEMMA Moved ==
  ASSUME ScopeInv, NEW w \in Procs, NEW p, procs' = [procs EXCEPT ![w] = p],
         UNCHANGED <<policies, heard, probed, approved, requests, asked>>,
         ProcAt(w, p, approved, asked)
  PROVE  ScopeInv'
<1>1. ProcAt(w, p, approved', asked')
  OBVIOUS
<1>2. ProcsInv'
  BY <1>1, Moves DEF ScopeInv
<1> QED BY <1>2 DEF ScopeInv, PoliciesInv, ApprovedInv, RequestsInv, AskedInv, Permitted, Used, Discoverable

LEMMA DiscoverSeedsKeeps ==
  ASSUME ScopeInv, DiscoverSeeds PROVE ScopeInv'
<1>1. PICK readable :
        /\ probed' = SitemapOrigins(readable) \cup UNION {Detours[OriginOf[s]] : s \in Explored}
        /\ procs' = [procs EXCEPT ![Main] = [Idle EXCEPT !.step = "links",
                                            !.links = Seeds \cup Listed(readable)]]
  BY DEF DiscoverSeeds, Becomes
<1>2. PICK answer :
        /\ \A s \in Explored : answer[s] \in RobotsOf[OriginOf[s]]
        /\ heard' = [o \in Origins |->
                       heard[o] \cup {answer[s] : s \in {t \in Explored : OriginOf[t] = o}}]
  BY DEF DiscoverSeeds
<1>3. UNCHANGED <<policies, approved, requests, asked>> /\ phase = "start"
  BY DEF DiscoverSeeds
<1>4. Explored \subseteq Urls /\ \A s \in Explored : OriginOf[s] \in Origins
  BY CrawlerAssumption DEF Explored, Origins
<1> DEFINE links == Seeds \cup Listed(readable)
           p == [Idle EXCEPT !.step = "links", !.links = links]
<1>5. ProcsInv'
  <2>1. links \in SUBSET Urls
    BY CrawlerAssumption DEF Listed
  <2>2. Main \notin Workers
    BY CrawlerAssumption
  <2> HIDE DEF links
  <2>3. ProcAt(Main, p, approved', asked')
    BY <2>1, <2>2, IdleFields DEF ProcAt, Proc
  <2> QED BY <1>1, <1>3, <2>3, Moves DEF ScopeInv, Procs, links
<1>6. /\ \A o \in Origins : heard[o] \subseteq heard'[o]
      /\ heard' \in [Origins -> SUBSET SUBSET Urls]
  <2>1. ASSUME NEW o \in Origins PROVE heard'[o] \in SUBSET SUBSET Urls
    <3>1. heard[o] \in SUBSET SUBSET Urls
      BY DEF ScopeInv, PoliciesInv
    <3>2. \A s \in Explored : answer[s] \in SUBSET Urls
      BY <1>2, <1>4, CrawlerAssumption
    <3> QED BY <1>2, <3>1, <3>2
  <2> QED BY <1>2, <2>1
<1>7. PoliciesInv'
  <2>1. probed' \subseteq Origins
    BY <1>1, <1>4, CrawlerAssumption DEF SitemapOrigins
  <2>2. SitemapOrigins(readable) \subseteq Discoverable'
    BY DEF SitemapOrigins, Discoverable
  <2>3. ASSUME NEW s \in Explored PROVE Detours[OriginOf[s]] \subseteq Discoverable'
    <3>1. answer[s] \in heard'[OriginOf[s]]
      BY <1>2, <1>4
    <3> QED BY <1>4, <1>6, <3>1, HeardGrows
  <2>4. probed' \subseteq Origins \cap Discoverable'
    BY <1>1, <2>1, <2>2, <2>3
  <2> QED BY <1>3, <1>6, <2>4 DEF ScopeInv, PoliciesInv
<1>8. ApprovedInv'
  <2>1. \A u \in approved : Permitted(u) /\ OriginOf[u] \in Origins
    BY DEF ScopeInv, ApprovedInv, Origins
  <2>2. \A u \in approved : Permitted(u)'
    BY <1>6, <2>1 DEF Permitted
  <2> QED BY <1>3, <2>2 DEF ScopeInv, ApprovedInv, Used
<1>9. RequestsInv' /\ AskedInv'
  BY <1>3 DEF ScopeInv, RequestsInv, AskedInv
<1> QED BY <1>5, <1>7, <1>8, <1>9 DEF ScopeInv

\* What is queued was kept, and what was kept was approved.
LEMMA EnqueueKeeps ==
  ASSUME ScopeInv, NEW w \in Procs, Enqueue(w) PROVE ScopeInv'
<1> USE DEF ScopeInv
<1> DEFINE p == procs[w]
           worth == {u \in p.kept : Worth(w, u)}
<1>1. UNCHANGED <<policies, heard, probed, approved, asked>> /\ procs' = [procs EXCEPT ![w] = Idle]
  BY DEF Enqueue, scope, Becomes
<1>2. /\ p \in Proc
      /\ p.kept \subseteq approved
      /\ w \in Workers => p.url \in approved
      /\ w \notin Workers => p.url = None
  <2>1. ProcAt(w, p, approved, asked) /\ p.step = "links"
    BY DEF ProcsInv, Enqueue, At
  <2> QED BY <2>1 DEF ProcAt, Procs
<1>3. requests' = [u \in Urls |->
        CASE u \in worth /\ requests[u] = NotQueued -> [NotQueued EXCEPT !.state = "queued"]
          [] u = p.url -> [requests[u] EXCEPT !.state = "done"]
          [] OTHER -> requests[u]]
  BY DEF Enqueue
<1>4. ASSUME NEW u \in Urls
      PROVE  /\ requests'[u] \in Request
             /\ requests'[u].state # "absent" => u \in approved
  <2>0. requests[u] \in Request /\ (requests[u].state # "absent" => u \in approved)
    BY DEF RequestsInv
  <2>1. CASE u \in worth /\ requests[u] = NotQueued
    <3>1. u # p.url \/ u = p.url
      OBVIOUS
    <3>2. u \in approved
      BY <1>2, <2>1
    <3>3. \/ requests'[u] = [NotQueued EXCEPT !.state = "queued"]
          \/ requests'[u] = [requests[u] EXCEPT !.state = "done"]
      BY <1>3, <2>1
    <3>4. requests'[u] \in Request
      BY <2>0, <3>3, CrawlerAssumption DEF NotQueued, Request
    <3> QED BY <3>2, <3>4
  <2>2. CASE ~(u \in worth /\ requests[u] = NotQueued) /\ u = p.url
    <3>1. u \in approved
      BY <1>2, <2>2, CrawlerAssumption
    <3>2. requests'[u] = [requests[u] EXCEPT !.state = "done"]
      BY <1>3, <2>2
    <3> QED BY <2>0, <3>1, <3>2 DEF Request
  <2>3. CASE ~(u \in worth /\ requests[u] = NotQueued) /\ u # p.url
    <3>1. requests'[u] = requests[u]
      BY <1>3, <2>3
    <3> QED BY <2>0, <3>1
  <2> QED BY <2>1, <2>2, <2>3
<1>5. RequestsInv'
  <2>1. requests' \in [Urls -> Request]
    BY <1>3, <1>4
  <2> QED BY <1>1, <1>4, <2>1 DEF RequestsInv
<1>6. ProcsInv'
  <2>1. ProcAt(w, Idle, approved', asked')
    BY IdleAt
  <2> QED BY <1>1, <2>1, Moves
<1> QED BY <1>1, <1>5, <1>6 DEF PoliciesInv, ApprovedInv, AskedInv, Permitted, Used, Discoverable

\* A request's state changes; only queued requests and those of workers do.
LEMMA RequestChanged ==
  ASSUME RequestsInv, NEW u \in approved, u \in Urls, NEW request \in Request,
         requests' = [requests EXCEPT ![u] = request], approved' = approved
  PROVE  RequestsInv'
BY DEF RequestsInv

LEMMA StartKeeps ==
  ASSUME ScopeInv, NEW w \in Workers, NEW u \in Urls, Start(w, u) PROVE ScopeInv'
<1> USE DEF ScopeInv
<1>1. /\ requests[u].state = "queued"
      /\ requests' = [requests EXCEPT ![u].state = "active"]
      /\ procs' = [procs EXCEPT ![w] = [Idle EXCEPT !.step = "turn", !.url = u, !.at = u]]
      /\ UNCHANGED <<policies, heard, probed, approved, asked>>
  BY DEF Start, Becomes, scope
<1>2. u \in approved /\ requests[u] \in Request
  BY <1>1 DEF RequestsInv
<1>3. RequestsInv'
  <2> DEFINE request == [requests[u] EXCEPT !.state = "active"]
  <2>1. request \in Request
    BY <1>2 DEF Request
  <2>2. requests' = [requests EXCEPT ![u] = request]
    BY <1>1
  <2> HIDE DEF request
  <2> QED BY <1>1, <1>2, <2>1, <2>2, RequestChanged
<1>4. ProcsInv'
  <2> DEFINE p == [Idle EXCEPT !.step = "turn", !.url = u, !.at = u]
  <2>1. ProcAt(w, p, approved', asked')
    <3>1. w # Main
      BY CrawlerAssumption
    <3> QED BY <1>1, <1>2, <3>1, IdleFields DEF ProcAt, Proc
  <2>2. w \in Procs
    BY DEF Procs
  <2> QED BY <1>1, <2>1, <2>2, Moves
<1> QED BY <1>1, <1>3, <1>4 DEF PoliciesInv, ApprovedInv, AskedInv, Permitted, Used, Discoverable

\* A worker at one of these steps: its URL, and where it is, are approved.
LEMMA WorkerAt ==
  ASSUME ScopeInv, NEW w \in Workers, procs[w].step \in {"turn", "ask", "wait", "loop", "lost", "links"}
  PROVE  /\ w \in Procs /\ w # Main
         /\ procs[w] \in Proc
         /\ ProcAt(w, procs[w], approved, asked)
         /\ procs[w].url \in approved /\ procs[w].url \in Urls
         /\ procs[w].step \notin {"lost", "links"} => procs[w].at \in approved /\ procs[w].at \in Urls
<1>1. ProcAt(w, procs[w], approved, asked) /\ w \in Procs
  BY DEF ScopeInv, ProcsInv, Procs
<1>2. approved \subseteq Urls
  BY DEF ScopeInv, ApprovedInv
<1> QED BY <1>1, <1>2, CrawlerAssumption DEF ProcAt

LEMMA TurnKeeps ==
  ASSUME ScopeInv, NEW w \in Workers, Turn(w) PROVE ScopeInv'
<1> DEFINE p == [procs[w] EXCEPT !.step = "ask"]
<1>1. /\ procs[w].step = "turn" /\ procs' = [procs EXCEPT ![w] = p]
      /\ UNCHANGED <<policies, heard, probed, approved, requests, asked>>
  BY DEF Turn, At, Becomes, scope
<1>2. ProcAt(w, p, approved, asked)
  BY <1>1, WorkerAt DEF ProcAt, Proc
<1> QED BY <1>1, <1>2, Moved, WorkerAt

LEMMA AskKeeps ==
  ASSUME ScopeInv, NEW w \in Workers, Ask(w) PROVE ScopeInv'
<1> DEFINE p == [procs[w] EXCEPT !.step = "wait"]
<1>1. /\ procs[w].step = "ask" /\ procs' = [procs EXCEPT ![w] = p]
      /\ asked' = asked \cup {procs[w].at}
      /\ UNCHANGED <<policies, heard, probed, approved, requests>>
  BY DEF Ask, At, Becomes, scope
<1>2. ProcAt(w, p, approved', asked')
  BY <1>1, WorkerAt DEF ProcAt, Proc
<1>3. ProcsInv'
  BY <1>1, <1>2, Moves, WorkerAt DEF ScopeInv
<1>4. AskedInv'
  BY <1>1, WorkerAt DEF ScopeInv, AskedInv
<1> QED BY <1>1, <1>3, <1>4 DEF ScopeInv, PoliciesInv, ApprovedInv, RequestsInv, Permitted, Used, Discoverable

LEMMA RedirectedKeeps ==
  ASSUME ScopeInv, NEW w \in Workers, Redirected(w) PROVE ScopeInv'
<1>1. PICK target \in Urls :
        procs' = [procs EXCEPT ![w] = [procs[w] EXCEPT !.step = "guard", !.next = target]]
  BY DEF Redirected, AfterRedirect, Becomes
<1> DEFINE p == [procs[w] EXCEPT !.step = "guard", !.next = target]
<1>2. procs[w].step = "wait" /\ procs[w].loading = None
      /\ UNCHANGED <<policies, heard, probed, approved, requests, asked>>
  BY DEF Redirected, At, scope
<1>3. ProcAt(w, p, approved, asked)
  BY <1>2, WorkerAt DEF ProcAt, Proc
<1> QED BY <1>1, <1>2, <1>3, Moved, WorkerAt

\* A worker is done with its request, or offers its page's links for approval.
LEMMA FinishedKeeps ==
  ASSUME ScopeInv, NEW w \in Workers, procs[w].step \in {"wait", "links", "loop"},
         UNCHANGED <<policies, heard, probed, approved, asked>>,
         NEW request \in Request,
         requests' = [requests EXCEPT ![procs[w].url] = request],
         NEW p, ProcAt(w, p, approved, asked),
         procs' = [procs EXCEPT ![w] = p]
  PROVE  ScopeInv'
<1>1. RequestsInv'
  BY WorkerAt, RequestChanged DEF ScopeInv
<1>2. ProcsInv'
  BY Moves, WorkerAt DEF ScopeInv
<1> QED BY <1>1, <1>2 DEF ScopeInv, PoliciesInv, ApprovedInv, AskedInv, Permitted, Used, Discoverable

LEMMA AnsweredKeeps ==
  ASSUME ScopeInv, NEW w \in Workers, procs[w].step = "wait", procs[w].loading = None,
         UNCHANGED <<policies, heard, probed, approved, asked>>,
         \/ /\ Becomes(w, [procs[w] EXCEPT !.step = "links", !.links = LinksOf[procs[w].at]])
            /\ UNCHANGED requests
         \/ Finished(w, procs[w].url)
  PROVE  ScopeInv'
<1> DEFINE p == [procs[w] EXCEPT !.step = "links", !.links = LinksOf[procs[w].at]]
<1>1. CASE Becomes(w, p) /\ UNCHANGED requests
  <2>1. LinksOf[procs[w].at] \in SUBSET Urls
    BY WorkerAt, CrawlerAssumption
  <2>2. ProcAt(w, p, approved, asked)
    BY <2>1, WorkerAt DEF ProcAt, Proc
  <2> QED BY <1>1, <2>2, Moved, WorkerAt DEF Becomes
<1>2. CASE Finished(w, procs[w].url)
  <2> DEFINE request == [requests[procs[w].url] EXCEPT !.state = "done"]
  <2>1. request \in Request
    BY WorkerAt DEF ScopeInv, RequestsInv, Request
  <2>2. requests' = [requests EXCEPT ![procs[w].url] = request]
        /\ procs' = [procs EXCEPT ![w] = Idle]
    BY <1>2 DEF Finished, Becomes
  <2> HIDE DEF request
  <2> QED BY <2>1, <2>2, IdleAt, FinishedKeeps, WorkerAt
<1> QED BY <1>1, <1>2

LEMMA NotAPageKeeps ==
  ASSUME ScopeInv, NEW w \in Workers, NotAPage(w) PROVE ScopeInv'
<1>1. procs[w].step = "wait" /\ procs[w].loading = None /\ UNCHANGED <<policies, heard, probed, approved, asked>>
  BY DEF NotAPage, At, scope
<1>2. \/ /\ Becomes(w, [procs[w] EXCEPT !.step = "links", !.links = LinksOf[procs[w].at]])
         /\ UNCHANGED requests
      \/ Finished(w, procs[w].url)
  BY DEF NotAPage
<1> QED BY <1>1, <1>2, AnsweredKeeps

LEMMA ContentKeeps ==
  ASSUME ScopeInv, NEW w \in Workers, Content(w) PROVE ScopeInv'
<1>1. procs[w].step = "wait" /\ procs[w].loading = None /\ UNCHANGED <<policies, heard, probed, approved, asked>>
  BY DEF Content, At, scope
<1>2. \/ /\ Becomes(w, [procs[w] EXCEPT !.step = "links", !.links = LinksOf[procs[w].at]])
         /\ UNCHANGED requests
      \/ Finished(w, procs[w].url)
  BY DEF Content
<1> QED BY <1>1, <1>2, AnsweredKeeps

\* Where a worker is whose request Crawlee has given up.
LEMMA GivenUp ==
  ASSUME NEW w \in Workers, NEW u \in Urls
  PROVE  LET p == [Idle EXCEPT !.step = "lost", !.url = u] IN
         /\ p.step = "lost" /\ p.url = u
         /\ \A A, Q : u \in A => ProcAt(w, p, A, Q)
<1> DEFINE p == [Idle EXCEPT !.step = "lost", !.url = u]
<1>1. w # Main /\ p \in Proc
  BY CrawlerAssumption, IdleFields DEF Proc
<1>2. /\ p.step = "lost" /\ p.url = u /\ p.kept = {} /\ p.loading = None
  BY IdleFields DEF Proc
<1> HIDE DEF p
<1>3. \A A, Q : u \in A => ProcAt(w, p, A, Q)
  BY <1>1, <1>2 DEF ProcAt
<1> QED BY <1>2, <1>3 DEF p

LEMMA ThrownKeeps ==
  ASSUME ScopeInv, NEW w \in Workers, procs[w].step \in {"wait", "links", "loop"},
         NEW retryable \in BOOLEAN, Thrown(w, retryable),
         UNCHANGED <<policies, heard, probed, approved, asked>>
  PROVE  ScopeInv'
<1> DEFINE u == procs[w].url
<1>1. u \in Urls /\ u \in approved /\ requests[u] \in Request /\ w \in Procs
  BY WorkerAt DEF ScopeInv, RequestsInv
<1>2. CASE GivesUp(requests[u].tries, retryable)
  <2> DEFINE request == [requests[u] EXCEPT !.state = "done"]
             p == [Idle EXCEPT !.step = "lost", !.url = u]
  <2>1. request \in Request
    BY <1>1 DEF Request
  <2>2. /\ requests' = [requests EXCEPT ![u] = request]
        /\ procs' = [procs EXCEPT ![w] = p]
    BY <1>2 DEF Thrown, Becomes
  <2>3. ProcAt(w, p, approved, asked)
    BY <1>1, GivenUp
  <2> HIDE DEF request, p
  <2> QED BY <2>1, <2>2, <2>3, FinishedKeeps
<1>3. CASE ~GivesUp(requests[u].tries, retryable)
  <2> DEFINE request == [state |-> "queued", tries |-> requests[u].tries + 1]
  <2>1. request \in Request
    BY <1>1, <1>3, CrawlerAssumption DEF Request, GivesUp
  <2>2. /\ requests' = [requests EXCEPT ![u] = request]
        /\ procs' = [procs EXCEPT ![w] = Idle]
    BY <1>3 DEF Thrown, Retried, Becomes
  <2>3. ProcAt(w, Idle, approved, asked)
    BY <1>1, IdleAt
  <2> HIDE DEF request
  <2> QED BY <2>1, <2>2, <2>3, FinishedKeeps
<1> QED BY <1>2, <1>3

LEMMA LoopKeeps ==
  ASSUME ScopeInv, NEW w \in Workers, Loop(w) PROVE ScopeInv'
<1> DEFINE request == [requests[procs[w].url] EXCEPT !.state = "done"]
<1>1. procs[w].step = "loop" /\ UNCHANGED <<policies, heard, probed, approved, asked>>
  BY DEF Loop, At, scope
<1>2. request \in Request
  BY <1>1, WorkerAt DEF ScopeInv, RequestsInv, Request
<1>3. /\ requests' = [requests EXCEPT ![procs[w].url] = request]
      /\ procs' = [procs EXCEPT ![w] = Idle]
  BY DEF Loop, Finished, Becomes
<1> HIDE DEF request
<1> QED BY <1>1, <1>2, <1>3, IdleAt, FinishedKeeps, WorkerAt

\* A process stops with no request of its own.
LEMMA StoppedKeeps ==
  ASSUME ScopeInv, NEW w \in Procs, Becomes(w, Idle),
         UNCHANGED <<policies, heard, probed, approved, requests, asked>>
  PROVE  ScopeInv'
BY IdleAt, Moved DEF Becomes

-----------------------------------------------------------------------------
LEMMA WorkKeeps ==
  ASSUME ScopeInv, NEW w \in Workers, Work(w) \/ Throw(w) PROVE ScopeInv'
<1>1. ASSUME NEW u \in Urls, Start(w, u) PROVE ScopeInv'
  BY <1>1, StartKeeps
<1>2. CASE Turn(w)
  BY <1>2, TurnKeeps
<1>3. CASE Ask(w)
  BY <1>3, AskKeeps
<1>4. CASE Redirected(w)
  BY <1>4, RedirectedKeeps
<1>5. CASE NotAPage(w)
  BY <1>5, NotAPageKeeps
<1>6. CASE Content(w)
  BY <1>6, ContentKeeps
<1>7. CASE Dead(w)
  BY <1>7, ThrownKeeps DEF Dead, At, scope
<1>8. CASE Throw(w)
  BY <1>8, ThrownKeeps DEF Throw, At, LooksUp, scope
<1>10. CASE Loop(w)
  BY <1>10, LoopKeeps
<1>11. CASE Lost(w)
  BY <1>11, StoppedKeeps DEF Lost, scope, Procs
<1>9. CASE Approval(w)
  BY <1>9, LoadRobotsKeeps, EnqueueKeeps, InScopeKeeps DEF Approval, Procs
<1> QED BY <1>1, <1>2, <1>3, <1>4, <1>5, <1>6, <1>7, <1>8, <1>9, <1>10, <1>11
    DEF Work

LEMMA ScopeInvInit == ASSUME Init PROVE ScopeInv
<1>1. \A w \in Procs : ProcAt(w, Idle, approved, asked)
  BY IdleAt
<1>2. procs = [w \in Procs |-> Idle] /\ Idle \in Proc
  BY CrawlerAssumption DEF Init, Procs, Idle, Proc
<1>3. ProcsInv
  BY <1>1, <1>2 DEF ProcsInv
<1>4. PoliciesInv
  <2>1. policies = [o \in Origins |-> None]
    BY DEF Init
  <2>2. policies \in [Origins -> (SUBSET Urls) \cup {None}]
    BY <2>1
  <2>3. \A o \in Origins : policies[o] = None
    BY <2>1
  <2> QED BY <2>2, <2>3 DEF PoliciesInv, Init
<1>5. ApprovedInv
  <2>1. approved = {}
    BY DEF Init
  <2>2. ASSUME NEW h \in Hosts PROVE Used(h) <= MaxPerHost
    <3>1. {u \in approved : HostOf[u] = h} = {}
      BY <2>1
    <3>2. Used(h) = Cardinality({})
      BY <3>1 DEF Used
    <3>3. Cardinality({}) = 0
      BY FS_EmptySet
    <3>4. 0 <= MaxPerHost
      BY CrawlerAssumption
    <3> QED BY <3>2, <3>3, <3>4
  <2> QED BY <2>1, <2>2 DEF ApprovedInv
<1>6. RequestsInv
  BY CrawlerAssumption DEF Init, RequestsInv, Request, NotQueued
<1>7. AskedInv
  BY DEF Init, AskedInv
<1> QED BY <1>3, <1>4, <1>5, <1>6, <1>7 DEF ScopeInv

LEMMA ScopeInvNext == ASSUME ScopeInv, [Next]_vars PROVE ScopeInv'
<1>1. CASE DiscoverSeeds
  BY <1>1, DiscoverSeedsKeeps
<1>2. CASE Approval(Main)
  BY <1>2, LoadRobotsKeeps, EnqueueKeeps, InScopeKeeps DEF Approval, Procs
<1>3. ASSUME NEW w \in Workers, Work(w) \/ Throw(w) PROVE ScopeInv'
  BY <1>3, WorkKeeps
<1>4. CASE Tick
  BY <1>4, Unmoved DEF Tick, scope
<1>5. CASE Over
  BY <1>5, Unmoved DEF Over, scope
<1>6. CASE UNCHANGED vars
  BY <1>6, Unmoved DEF vars, scope
<1>7. ASSUME NEW w \in Procs, Abort(w) PROVE ScopeInv'
  BY <1>7, StoppedKeeps DEF Abort, scope
<1> QED BY <1>1, <1>2, <1>3, <1>4, <1>5, <1>6, <1>7 DEF Next, Procs

-----------------------------------------------------------------------------
(* The trail and the summary.                                              *)

\* What the summary counts and what the trail shows go together.
TallyInv ==
  /\ "landed" \in tally <=> \E row \in trail : row.what = "content"
  /\ "failed" \in tally <=> \E row \in trail : row.what \in {"refused", "loop", "lost"}

\* A URL that the trail or a redirect speaks of.
ReachedIn(u, movedSoFar, trailSoFar) == u \in movedSoFar \/ \E row \in trailSoFar : row.url = u

\* While a worker has a request, the trail gets to it, or a redirect has led away.
TrailAt(p, movedSoFar, trailSoFar) ==
  /\ p.step \in {"turn", "ask", "wait"} => p.at = p.url \/ p.url \in movedSoFar
  /\ p.step \in {"guard", "loop"} => p.url \in movedSoFar
  /\ p.step = "links" => ReachedIn(p.url, movedSoFar, trailSoFar)

\* A URL whose request was given up and is not written down yet.
LostBy(p, u) == p.step = "lost" /\ p.url = u

DoneInv ==
  phase # "aborted" =>
    \A u \in Urls :
      requests[u].state = "done" =>
        ReachedIn(u, moved, trail) \/ \E w \in Workers : LostBy(procs[w], u)

TrailInv ==
  /\ DoneInv
  /\ \A w \in Workers : TrailAt(procs[w], moved, trail)
  /\ age \in [Urls -> Ages]
  /\ \A u \in Urls : age[u] = "fresh" => AgeOf[u] = "fresh" \/ Row(u, "content") \in trail

RecordInv == TallyInv /\ TrailInv

\* What holds of a place goes on holding of it, the record only growing.
LEMMA TrailGrows ==
  ASSUME TrailInv, moved \subseteq moved', trail \subseteq trail'
  PROVE  /\ \A u : ReachedIn(u, moved, trail) => ReachedIn(u, moved', trail')
         /\ \A w \in Workers : TrailAt(procs[w], moved', trail')
BY DEF TrailInv, TrailAt, ReachedIn

\* The requests a step ends, all but perhaps one that process w now has to write down.
NewlyDone(w, p, M, T) ==
  \A u \in Urls : requests'[u].state = "done" =>
    requests[u].state = "done" \/ ReachedIn(u, M, T) \/ (w \in Workers /\ LostBy(p, u))

\* A step that moves one process, to a place that is recorded.
LEMMA RecordMoved ==
  ASSUME ScopeInv, TrailInv, moved \subseteq moved', trail \subseteq trail',
         phase = "aborted" => phase' = "aborted",
         age' \in [Urls -> Ages],
         \A u \in Urls : age'[u] = "fresh" => age[u] = "fresh" \/ Row(u, "content") \in trail',
         NEW w \in Procs, NEW p, procs' = [procs EXCEPT ![w] = p],
         w \in Workers => TrailAt(p, moved', trail'),
         \/ phase' = "aborted"
         \/ procs[w].step # "lost"
         \/ ReachedIn(procs[w].url, moved', trail'),
         NewlyDone(w, p, moved', trail')
  PROVE  TrailInv'
<1>1. /\ \A u : ReachedIn(u, moved, trail) => ReachedIn(u, moved', trail')
      /\ \A v \in Workers : TrailAt(procs[v], moved', trail')
  BY TrailGrows
<1>2. procs \in [Procs -> Proc] /\ Workers \subseteq Procs
  BY DEF ScopeInv, ProcsInv, Procs
<1>3. ASSUME NEW v \in Workers PROVE TrailAt(procs'[v], moved', trail')
  <2>1. CASE v = w
    BY <1>2, <2>1
  <2>2. CASE v # w
    <3>1. procs'[v] = procs[v]
      BY <1>2, <2>2
    <3> QED BY <1>1, <3>1
  <2> QED BY <2>1, <2>2
<1>4. \A u \in Urls : age'[u] = "fresh" => AgeOf[u] = "fresh" \/ Row(u, "content") \in trail'
  BY DEF TrailInv
<1>5. ASSUME phase' # "aborted", NEW u \in Urls, requests'[u].state = "done"
      PROVE  ReachedIn(u, moved', trail') \/ \E v \in Workers : LostBy(procs'[v], u)
  <2>1. CASE w \in Workers /\ LostBy(p, u)
    BY <1>2, <2>1
  <2>2. CASE requests[u].state = "done"
    <3>1. ReachedIn(u, moved, trail) \/ \E v \in Workers : LostBy(procs[v], u)
      BY <1>5, <2>2 DEF TrailInv, DoneInv
    <3>2. ASSUME NEW v \in Workers, LostBy(procs[v], u), v # w
          PROVE  LostBy(procs'[v], u)
      <4>1. procs'[v] = procs[v]
        BY <1>2, <3>2
      <4> QED BY <3>2, <4>1
    <3>3. ASSUME w \in Workers, LostBy(procs[w], u) PROVE ReachedIn(u, moved', trail')
      BY <1>5, <3>3 DEF LostBy
    <3> QED BY <1>1, <3>1, <3>2, <3>3
  <2> QED BY <1>5, <2>1, <2>2 DEF NewlyDone
<1> QED BY <1>3, <1>4, <1>5 DEF TrailInv, DoneInv

\* A step that writes nothing.
LEMMA RecordSame ==
  ASSUME ScopeInv, RecordInv, moved \subseteq moved', UNCHANGED record,
         phase = "aborted" => phase' = "aborted",
         NEW w \in Procs, NEW p, procs' = [procs EXCEPT ![w] = p],
         w \in Workers => TrailAt(p, moved', trail'),
         phase' = "aborted" \/ procs[w].step # "lost",
         NewlyDone(w, p, moved', trail')
  PROVE  RecordInv'
<1>1. trail' = trail /\ tally' = tally /\ age' = age
  BY DEF record
<1>2. /\ age' \in [Urls -> Ages]
      /\ \A u \in Urls : age'[u] = "fresh" => age[u] = "fresh" \/ Row(u, "content") \in trail'
  BY <1>1 DEF RecordInv, TrailInv
<1>3. TrailInv'
  BY <1>1, <1>2, RecordMoved DEF RecordInv
<1> QED BY <1>1, <1>3 DEF RecordInv, TallyInv

\* Ending a request that is in the trail.
LEMMA DoneReached ==
  ASSUME ScopeInv, NEW url \in Urls, requests' = [requests EXCEPT ![url].state = "done"],
         NEW M, NEW T, NEW w, NEW p,
         ReachedIn(url, M, T) \/ (w \in Workers /\ LostBy(p, url))
  PROVE  NewlyDone(w, p, M, T)
<1>1. requests \in [Urls -> Request]
  BY DEF ScopeInv, RequestsInv
<1> QED BY <1>1 DEF NewlyDone

\* Ending none.
LEMMA NoneDone ==
  ASSUME \A u \in Urls : requests'[u].state = "done" => requests[u].state = "done",
         NEW M, NEW T, NEW w, NEW p
  PROVE  NewlyDone(w, p, M, T)
BY DEF NewlyDone

\* A row and its count are written together.
LEMMA Tallied ==
  ASSUME TallyInv, NEW u, NEW what, NEW tag,
         trail' = trail \cup {Row(u, what)}, tally' = tally \cup {tag},
         tag = "landed" <=> what = "content",
         tag = "failed" <=> what \in {"refused", "loop", "lost"}
  PROVE  TallyInv'
<1> DEFINE new == Row(u, what)
<1>1. new.what = what
  BY DEF Row
<1>2. \A row : row \in trail' <=> row \in trail \/ row = new
  OBVIOUS
<1>3. (\E row \in trail' : row.what = "content")
        <=> (\E row \in trail : row.what = "content") \/ what = "content"
  BY <1>1, <1>2
<1>4. (\E row \in trail' : row.what \in {"refused", "loop", "lost"})
        <=> (\E row \in trail : row.what \in {"refused", "loop", "lost"})
            \/ what \in {"refused", "loop", "lost"}
  BY <1>1, <1>2
<1>5. /\ "landed" \in tally' <=> "landed" \in tally \/ tag = "landed"
      /\ "failed" \in tally' <=> "failed" \in tally \/ tag = "failed"
  OBVIOUS
<1> HIDE DEF new
<1> QED BY <1>3, <1>4, <1>5 DEF TallyInv

LEMMA IdleTrail == ASSUME NEW M, NEW T PROVE TrailAt(Idle, M, T)
BY IdleFields DEF TrailAt

LEMMA DecidedRecords ==
  ASSUME ScopeInv, RecordInv, moved' = moved, UNCHANGED <<phase, asked>>,
         NEW w \in Procs, procs[w].step \in {"guard", "links"},
         NEW u \in Urls, NEW ok \in BOOLEAN, Decided(w, u, ok)
  PROVE  RecordInv'
<1> DEFINE p == procs[w]
<1>1. ProcAt(w, p, approved, asked) /\ p \in Proc /\ approved \subseteq Urls
  BY DEF ScopeInv, ProcsInv, ApprovedInv
<1>2. w \in Workers => TrailAt(p, moved, trail)
  BY DEF RecordInv, TrailInv
<1>3. CASE p.step = "links"
  <2> DEFINE next == [p EXCEPT !.links = @ \ {u}, !.loading = None,
                               !.kept = IF ok THEN @ \cup {u} ELSE @]
  <2>1. procs' = [procs EXCEPT ![w] = next] /\ requests' = requests /\ UNCHANGED record
    BY <1>3 DEF Decided, Becomes
  <2>2. w \in Workers => TrailAt(next, moved', trail')
    BY <1>1, <1>2, <1>3, <2>1 DEF TrailAt, Proc, record
  <2>3. NewlyDone(w, next, moved', trail')
    BY <2>1, NoneDone
  <2> HIDE DEF next
  <2> QED BY <1>3, <2>1, <2>2, <2>3, RecordSame
<1>4. CASE p.step = "guard"
  <2>1. p.url \in moved /\ w \in Workers /\ p.url \in Urls
    BY <1>1, <1>2, <1>4 DEF ProcAt, TrailAt, Procs
  <2>2. CASE ok
    <3> DEFINE next == Hopped(p, u)
    <3>1. procs' = [procs EXCEPT ![w] = next] /\ requests' = requests /\ UNCHANGED record
      BY <1>4, <2>2 DEF Decided, Becomes
    <3>2. TrailAt(next, moved', trail')
      BY <1>1, <2>1, HoppedFields DEF TrailAt
    <3>3. NewlyDone(w, next, moved', trail')
      BY <3>1, NoneDone
    <3> HIDE DEF next
    <3> QED BY <1>4, <3>1, <3>2, <3>3, RecordSame
  <2>3. CASE ~ok
    <3>1. Finished(w, p.url) /\ tally' = tally \cup {"skipped"} /\ UNCHANGED <<age, trail>>
      BY <1>4, <2>3 DEF Decided
    <3>2. TallyInv'
      BY <3>1 DEF RecordInv, TallyInv
    <3>3. NewlyDone(w, Idle, moved', trail')
      BY <2>1, <3>1, DoneReached DEF Finished, ReachedIn
    <3>4. /\ age' \in [Urls -> Ages]
          /\ \A x \in Urls : age'[x] = "fresh" => age[x] = "fresh" \/ Row(x, "content") \in trail'
      BY <3>1 DEF RecordInv, TrailInv
    <3>5. TrailInv'
      BY <1>4, <3>1, <3>3, <3>4, IdleTrail, RecordMoved DEF Finished, Becomes, RecordInv
    <3> QED BY <3>2, <3>5 DEF RecordInv
  <2> QED BY <2>2, <2>3
<1> QED BY <1>3, <1>4

LEMMA ApprovalRecords ==
  ASSUME ScopeInv, RecordInv, NEW w \in Procs, Approval(w) PROVE RecordInv'
<1>1. ASSUME NEW u \in Urls, InScope(w, u) PROVE RecordInv'
  <2>1. /\ procs[w].step \in {"guard", "links"} /\ procs[w].loading = None
        /\ moved' = moved /\ asked' = asked /\ phase' = phase
    BY <1>1, OfferedIsUrl DEF InScope, ScopeInv
  <2>2. CASE Becomes(w, [procs[w] EXCEPT !.loading = u]) /\ UNCHANGED <<scope, requests, record>>
    <3> DEFINE p == [procs[w] EXCEPT !.loading = u]
    <3>1. procs[w] \in Proc /\ (w \in Workers => TrailAt(procs[w], moved, trail))
      BY DEF ScopeInv, ProcsInv, RecordInv, TrailInv
    <3>2. w \in Workers => TrailAt(p, moved', trail')
      BY <2>1, <2>2, <3>1 DEF TrailAt, Proc, record
    <3>3. NewlyDone(w, p, moved', trail')
      BY <2>2, NoneDone
    <3> HIDE DEF p
    <3>4. procs' = [procs EXCEPT ![w] = p]
      BY <2>2 DEF Becomes, p
    <3> QED BY <2>1, <2>2, <3>2, <3>3, <3>4, RecordSame
  <2>3. CASE \E ok \in BOOLEAN : Decided(w, u, ok)
    BY <2>1, <2>3, DecidedRecords
  <2>4. Approves(u, policies[OriginOf[u]]) \in BOOLEAN
    BY DEF Approves
  <2> QED BY <1>1, <2>2, <2>3, <2>4 DEF InScope, Approve
<1>2. CASE LoadRobots(w)
  <2> DEFINE u == procs[w].loading
  <2>1. ProcAt(w, procs[w], approved, asked) /\ u # None
        /\ asked' = asked /\ moved' = moved /\ phase' = phase
    BY <1>2 DEF ScopeInv, ProcsInv, LoadRobots
  <2>2. u \in Urls /\ procs[w].step \in {"guard", "links"}
    BY <2>1 DEF ProcAt, Proc
  <2>3. PICK policy \in RobotsOf[OriginOf[u]] : Approve(w, u, policy)
    BY <1>2 DEF LoadRobots
  <2>4. Approves(u, policy) \in BOOLEAN
    BY DEF Approves
  <2> QED BY <2>1, <2>2, <2>3, <2>4, DecidedRecords DEF Approve
<1>3. CASE Enqueue(w)
  <2> DEFINE worth == {u \in procs[w].kept : Worth(w, u)}
  <2>1. /\ procs[w].step = "links"
        /\ procs' = [procs EXCEPT ![w] = Idle]
        /\ UNCHANGED <<age, trail, moved>>
        /\ tally' = tally \/ tally' = tally \cup {"fresh"}
        /\ requests' = [u \in Urls |->
             CASE u \in worth /\ requests[u] = NotQueued -> [NotQueued EXCEPT !.state = "queued"]
               [] u = procs[w].url -> [requests[u] EXCEPT !.state = "done"]
               [] OTHER -> requests[u]]
    BY <1>3 DEF Enqueue, At, Becomes
  <2>2. TallyInv'
    BY <2>1 DEF RecordInv, TallyInv
  <2>3. ASSUME NEW u \in Urls, requests'[u].state = "done"
        PROVE  requests[u].state = "done" \/ ReachedIn(u, moved', trail')
    <3>1. CASE u = procs[w].url
      <4>1. w \in Workers
        BY <3>1, CrawlerAssumption DEF ScopeInv, ProcsInv, ProcAt, Procs
      <4>2. ReachedIn(u, moved, trail)
        BY <2>1, <3>1, <4>1 DEF RecordInv, TrailInv, TrailAt
      <4> QED BY <2>1, <4>2
    <3>2. CASE u # procs[w].url
      <4>1. \/ requests'[u] = [NotQueued EXCEPT !.state = "queued"]
            \/ requests'[u] = requests[u]
        BY <2>1, <3>2
      <4>2. [NotQueued EXCEPT !.state = "queued"].state = "queued"
        BY DEF NotQueued
      <4> QED BY <2>3, <4>1, <4>2
    <3> QED BY <3>1, <3>2
  <2>4. /\ age' \in [Urls -> Ages]
        /\ \A u \in Urls : age'[u] = "fresh" => age[u] = "fresh" \/ Row(u, "content") \in trail'
    BY <2>1 DEF RecordInv, TrailInv
  <2>5. NewlyDone(w, Idle, moved', trail')
    BY <2>3 DEF NewlyDone
  <2>6. phase = "aborted" => phase' = "aborted"
    BY <1>3 DEF Enqueue
  <2>7. TrailInv'
    BY <2>1, <2>4, <2>5, <2>6, IdleTrail, RecordMoved DEF RecordInv
  <2> QED BY <2>2, <2>7 DEF RecordInv
<1> QED BY <1>1, <1>2, <1>3 DEF Approval

\* Starting, waiting, asking and following a redirect write nothing.
LEMMA TravelRecords ==
  ASSUME ScopeInv, RecordInv, NEW w \in Workers,
         (\E u \in Urls : Start(w, u)) \/ Turn(w) \/ Ask(w) \/ Redirected(w)
  PROVE  RecordInv'
<1>1. procs[w] \in Proc /\ w \in Procs /\ TrailAt(procs[w], moved, trail)
  BY DEF ScopeInv, ProcsInv, Procs, RecordInv, TrailInv
<1>2. ASSUME NEW u \in Urls, Start(w, u) PROVE RecordInv'
  <2> DEFINE p == [Idle EXCEPT !.step = "turn", !.url = u, !.at = u]
  <2>1. /\ procs' = [procs EXCEPT ![w] = p] /\ UNCHANGED <<phase, moved>> /\ UNCHANGED record
        /\ requests' = [requests EXCEPT ![u].state = "active"]
        /\ procs[w].step # "lost"
    BY <1>2, IdleFields DEF Start, Becomes
  <2>2. TrailAt(p, moved', trail')
    BY IdleFields DEF TrailAt, Proc
  <2>3. requests \in [Urls -> Request]
    BY DEF ScopeInv, RequestsInv
  <2>4. \A x \in Urls : requests'[x].state = "done" => requests[x].state = "done"
    BY <2>1, <2>3 DEF Request
  <2>5. NewlyDone(w, p, moved', trail')
    BY <2>4, NoneDone
  <2> HIDE DEF p
  <2> QED BY <1>1, <2>1, <2>2, <2>5, RecordSame
<1>3. CASE Turn(w)
  <2> DEFINE p == [procs[w] EXCEPT !.step = "ask"]
  <2>1. /\ procs' = [procs EXCEPT ![w] = p] /\ procs[w].step = "turn"
        /\ UNCHANGED <<phase, moved, requests, record>>
    BY <1>3 DEF Turn, Becomes, At
  <2>2. TrailAt(p, moved', trail')
    BY <1>1, <2>1 DEF TrailAt, Proc
  <2>3. NewlyDone(w, p, moved', trail')
    BY <2>1, NoneDone
  <2> HIDE DEF p
  <2> QED BY <1>1, <2>1, <2>2, <2>3, RecordSame
<1>4. CASE Ask(w)
  <2> DEFINE p == [procs[w] EXCEPT !.step = "wait"]
  <2>1. /\ procs' = [procs EXCEPT ![w] = p] /\ procs[w].step = "ask"
        /\ UNCHANGED <<phase, moved, requests, record>>
    BY <1>4 DEF Ask, Becomes, At
  <2>2. TrailAt(p, moved', trail')
    BY <1>1, <2>1 DEF TrailAt, Proc
  <2>3. NewlyDone(w, p, moved', trail')
    BY <2>1, NoneDone
  <2> HIDE DEF p
  <2> QED BY <1>1, <2>1, <2>2, <2>3, RecordSame
<1>5. CASE Redirected(w)
  <2>1. PICK target \in Urls :
          procs' = [procs EXCEPT ![w] = [procs[w] EXCEPT !.step = "guard", !.next = target]]
    BY <1>5 DEF Redirected, AfterRedirect, Becomes
  <2> DEFINE p == [procs[w] EXCEPT !.step = "guard", !.next = target]
  <2>2. /\ procs[w].step = "wait" /\ moved' = moved \cup {procs[w].at}
        /\ UNCHANGED <<phase, requests, record>>
    BY <1>5 DEF Redirected, At
  <2>3. TrailAt(p, moved', trail')
    BY <1>1, <2>2 DEF TrailAt, Proc
  <2>4. NewlyDone(w, p, moved', trail')
    BY <2>2, NoneDone
  <2>5. procs' = [procs EXCEPT ![w] = p]
    BY <2>1
  <2> HIDE DEF p
  <2> QED BY <1>1, <2>2, <2>3, <2>4, <2>5, RecordSame
<1> QED BY <1>2, <1>3, <1>4, <1>5

\* An answer is written down under the URL that gave it, which is the one that was
\* queued unless a redirect led to it.
LEMMA AnswerRecords ==
  ASSUME ScopeInv, RecordInv, NEW w \in Workers, procs[w].step = "wait",
         UNCHANGED <<phase, moved>>, NEW what, NEW tag,
         trail' = trail \cup {Row(procs[w].at, what)}, tally' = tally \cup {tag},
         tag = "landed" <=> what = "content",
         tag = "failed" <=> what \in {"refused", "loop", "lost"},
         age' \in [Urls -> Ages],
         \A u \in Urls : age'[u] = "fresh" => age[u] = "fresh" \/ Row(u, "content") \in trail',
         \/ /\ Becomes(w, [procs[w] EXCEPT !.step = "links", !.links = LinksOf[procs[w].at]])
            /\ UNCHANGED requests
         \/ Finished(w, procs[w].url)
  PROVE  RecordInv'
<1> DEFINE p == procs[w]
<1>1. /\ p \in Proc /\ w \in Procs /\ TrailAt(p, moved, trail)
      /\ p.url \in Urls /\ LinksOf[p.at] \in SUBSET Urls
  BY WorkerAt, CrawlerAssumption DEF RecordInv, TrailInv
<1>2. TallyInv'
  BY Tallied DEF RecordInv
<1>3. ReachedIn(p.url, moved', trail')
  <2>1. Row(p.at, what).url = p.at /\ Row(p.at, what) \in trail'
    BY DEF Row
  <2> QED BY <1>1, <2>1 DEF TrailAt, ReachedIn
<1>4. CASE Finished(w, p.url)
  <2>1. NewlyDone(w, Idle, moved', trail')
    BY <1>1, <1>3, <1>4, DoneReached DEF Finished
  <2>2. TrailInv'
    BY <1>1, <1>4, <2>1, IdleTrail, RecordMoved DEF Finished, Becomes, RecordInv
  <2> QED BY <1>2, <2>2 DEF RecordInv
<1>5. CASE Becomes(w, [p EXCEPT !.step = "links", !.links = LinksOf[p.at]]) /\ UNCHANGED requests
  <2> DEFINE next == [p EXCEPT !.step = "links", !.links = LinksOf[p.at]]
  <2>1. TrailAt(next, moved', trail')
    BY <1>1, <1>3 DEF TrailAt, Proc
  <2>2. procs' = [procs EXCEPT ![w] = next] /\ requests' = requests
    BY <1>5 DEF Becomes
  <2>3. NewlyDone(w, next, moved', trail')
    BY <2>2, NoneDone
  <2> HIDE DEF next
  <2>4. TrailInv'
    BY <1>1, <2>1, <2>2, <2>3, RecordMoved DEF RecordInv
  <2> QED BY <1>2, <2>4 DEF RecordInv
<1> QED BY <1>4, <1>5

LEMMA NotAPageRecords ==
  ASSUME ScopeInv, RecordInv, NEW w \in Workers, NotAPage(w) PROVE RecordInv'
<1>1. procs[w].step = "wait" /\ UNCHANGED <<phase, moved>>
  BY DEF NotAPage, At
<1>2. PICK answer \in {"refused", "unusable", "thin"} :
        /\ trail' = trail \cup {Row(procs[w].at, answer)}
        /\ tally' = tally \cup {Counted(answer)}
        /\ age' = IF answer = "thin" /\ age[procs[w].at] # "unknown"
                  THEN [age EXCEPT ![procs[w].at] = "evicted"] ELSE age
        /\ \/ /\ Becomes(w, [procs[w] EXCEPT !.step = "links", !.links = LinksOf[procs[w].at]])
              /\ UNCHANGED requests
           \/ Finished(w, procs[w].url)
  BY DEF NotAPage
<1>3. /\ Counted(answer) = "landed" <=> answer = "content"
      /\ Counted(answer) = "failed" <=> answer \in {"refused", "loop", "lost"}
  BY DEF Counted
<1>4. /\ age' \in [Urls -> Ages]
      /\ \A u \in Urls : age'[u] = "fresh" => age[u] = "fresh"
  BY <1>2 DEF RecordInv, TrailInv, Ages
<1> QED BY <1>1, <1>2, <1>3, <1>4, AnswerRecords

LEMMA ContentRecords ==
  ASSUME ScopeInv, RecordInv, NEW w \in Workers, Content(w) PROVE RecordInv'
<1>1. procs[w].step = "wait" /\ UNCHANGED <<phase, moved>>
  BY DEF Content, At
<1>2. /\ trail' = trail \cup {Row(procs[w].at, "content")}
      /\ tally' = tally \cup {"landed"}
      /\ age' = [age EXCEPT ![procs[w].at] = "fresh"]
      /\ \/ /\ Becomes(w, [procs[w] EXCEPT !.step = "links", !.links = LinksOf[procs[w].at]])
            /\ UNCHANGED requests
         \/ Finished(w, procs[w].url)
  BY DEF Content
<1>3. /\ age' \in [Urls -> Ages]
      /\ \A u \in Urls : age'[u] = "fresh" => age[u] = "fresh" \/ Row(u, "content") \in trail'
  BY <1>2 DEF RecordInv, TrailInv, Ages
<1> QED BY <1>1, <1>2, <1>3, AnswerRecords

\* A redirect too many is written down under the URL it led to; the one that was
\* queued was answered.
LEMMA LoopRecords ==
  ASSUME ScopeInv, RecordInv, NEW w \in Workers, Loop(w) PROVE RecordInv'
<1>1. /\ procs[w].step = "loop" /\ UNCHANGED <<phase, moved>>
      /\ trail' = trail \cup {Row(procs[w].at, "loop")}
      /\ tally' = tally \cup {"failed"} /\ age' = age
      /\ requests' = [requests EXCEPT ![procs[w].url].state = "done"]
      /\ procs' = [procs EXCEPT ![w] = Idle]
  BY DEF Loop, At, Finished, Becomes
<1>2. w \in Procs /\ procs[w].url \in Urls /\ procs[w].url \in moved
  BY <1>1, WorkerAt DEF RecordInv, TrailInv, TrailAt
<1>3. TallyInv'
  BY <1>1, Tallied DEF RecordInv
<1>4. NewlyDone(w, Idle, moved', trail')
  BY <1>1, <1>2, DoneReached DEF ReachedIn
<1>5. /\ age' \in [Urls -> Ages]
      /\ \A x \in Urls : age'[x] = "fresh" => age[x] = "fresh" \/ Row(x, "content") \in trail'
  BY <1>1 DEF RecordInv, TrailInv
<1>6. TrailInv'
  BY <1>1, <1>2, <1>4, <1>5, IdleTrail, RecordMoved DEF RecordInv
<1> QED BY <1>3, <1>6 DEF RecordInv

\* A request that is given up waits to be written down.
LEMMA ThrownRecords ==
  ASSUME ScopeInv, RecordInv, NEW w \in Workers, procs[w].step \in {"wait", "links", "loop"},
         NEW retryable \in BOOLEAN, Thrown(w, retryable), UNCHANGED <<phase, moved>>
  PROVE  RecordInv'
<1> DEFINE u == procs[w].url
<1>1. w \in Procs /\ u \in Urls /\ requests \in [Urls -> Request] /\ UNCHANGED record
  BY WorkerAt DEF ScopeInv, RequestsInv, Thrown
<1>2. CASE GivesUp(requests[u].tries, retryable)
  <2> DEFINE p == [Idle EXCEPT !.step = "lost", !.url = u]
  <2>1. /\ requests' = [requests EXCEPT ![u].state = "done"]
        /\ procs' = [procs EXCEPT ![w] = p]
    BY <1>2 DEF Thrown, Becomes
  <2>2. p.step = "lost" /\ p.url = u
    BY <1>1, GivenUp
  <2> HIDE DEF p
  <2>3. NewlyDone(w, p, moved', trail')
    BY <1>1, <2>1, <2>2, DoneReached DEF LostBy
  <2>4. TrailAt(p, moved', trail')
    BY <2>2 DEF TrailAt
  <2> QED BY <1>1, <2>1, <2>3, <2>4, RecordSame
<1>3. CASE ~GivesUp(requests[u].tries, retryable)
  <2> DEFINE request == [state |-> "queued", tries |-> requests[u].tries + 1]
  <2>1. /\ requests' = [requests EXCEPT ![u] = request]
        /\ procs' = [procs EXCEPT ![w] = Idle]
    BY <1>3 DEF Thrown, Retried, Becomes
  <2>2. request.state = "queued"
    OBVIOUS
  <2> HIDE DEF request
  <2>3. \A x \in Urls : requests'[x].state = "done" => requests[x].state = "done"
    BY <1>1, <2>1, <2>2
  <2>4. NewlyDone(w, Idle, moved', trail')
    BY <2>3, NoneDone
  <2> QED BY <1>1, <2>1, <2>4, IdleTrail, RecordSame
<1> QED BY <1>2, <1>3

\* ... and is written down under its own URL.
LEMMA LostRecords ==
  ASSUME ScopeInv, RecordInv, NEW w \in Workers, Lost(w) PROVE RecordInv'
<1> DEFINE u == procs[w].url
<1>1. /\ procs[w].step = "lost" /\ UNCHANGED <<phase, moved, requests, age>>
      /\ trail' = trail \cup {Row(u, "lost")}
      /\ tally' = tally \cup {"failed"}
      /\ procs' = [procs EXCEPT ![w] = Idle]
  BY DEF Lost, LostRow, At, Becomes
<1>2. Row(u, "lost") \in trail' /\ Row(u, "lost").url = u /\ w \in Procs
  BY <1>1 DEF Row, Procs
<1>3. ReachedIn(u, moved', trail')
  BY <1>2 DEF ReachedIn
<1>4. TallyInv'
  BY <1>1, Tallied DEF RecordInv
<1>5. NewlyDone(w, Idle, moved', trail')
  BY <1>1, NoneDone
<1>6. /\ age' \in [Urls -> Ages]
      /\ \A x \in Urls : age'[x] = "fresh" => age[x] = "fresh" \/ Row(x, "content") \in trail'
  BY <1>1 DEF RecordInv, TrailInv
<1>7. TrailInv'
  BY <1>1, <1>2, <1>3, <1>5, <1>6, IdleTrail, RecordMoved DEF RecordInv
<1> QED BY <1>4, <1>7 DEF RecordInv

\* A crawl that rejects has written nothing that is not so.
LEMMA AbortRecords ==
  ASSUME ScopeInv, RecordInv, NEW w \in Procs, Abort(w) PROVE RecordInv'
<1>1. /\ phase' = "aborted" /\ UNCHANGED <<moved, requests, record>>
      /\ procs' = [procs EXCEPT ![w] = Idle]
  BY DEF Abort, Becomes
<1>2. NewlyDone(w, Idle, moved', trail')
  BY <1>1, NoneDone
<1> QED BY <1>1, <1>2, IdleTrail, RecordSame

LEMMA RecordUnmoved ==
  ASSUME RecordInv, UNCHANGED <<requests, procs, record, moved>>,
         phase = "aborted" => phase' = "aborted"
  PROVE  RecordInv'
BY DEF RecordInv, TallyInv, TrailInv, DoneInv, record

LEMMA RecordInvInit == ASSUME Init PROVE RecordInv
<1>1. TallyInv
  BY DEF Init, TallyInv
<1>2. \A w \in Workers : TrailAt(procs[w], moved, trail)
  BY IdleTrail DEF Init
<1>3. \A u \in Urls : requests[u].state = "absent"
  BY DEF Init, NotQueued
<1> QED BY <1>1, <1>2, <1>3, CrawlerAssumption DEF RecordInv, TrailInv, DoneInv, Init

LEMMA RecordInvNext == ASSUME ScopeInv, RecordInv, [Next]_vars PROVE RecordInv'
<1>1. CASE DiscoverSeeds
  <2>1. PICK p : procs' = [procs EXCEPT ![Main] = p]
    BY <1>1 DEF DiscoverSeeds, Becomes
  <2>2. /\ UNCHANGED <<requests, record, moved>> /\ phase # "aborted"
        /\ Main \notin Workers /\ Main \in Procs
    BY <1>1, CrawlerAssumption DEF DiscoverSeeds, Procs
  <2>3. procs[Main].step # "lost"
    BY <2>2 DEF ScopeInv, ProcsInv, ProcAt
  <2>4. NewlyDone(Main, p, moved', trail')
    BY <2>2, NoneDone
  <2> QED BY <2>1, <2>2, <2>3, <2>4, RecordSame
<1>2. CASE Approval(Main)
  BY <1>2, ApprovalRecords DEF Procs
<1>3. ASSUME NEW w \in Workers, Work(w) \/ Throw(w) PROVE RecordInv'
  <2>1. CASE (\E u \in Urls : Start(w, u)) \/ Turn(w) \/ Ask(w) \/ Redirected(w)
    BY <2>1, TravelRecords
  <2>2. CASE NotAPage(w)
    BY <2>2, NotAPageRecords
  <2>3. CASE Content(w)
    BY <2>3, ContentRecords
  <2>4. CASE Dead(w)
    BY <2>4, ThrownRecords DEF Dead, At
  <2>5. CASE Throw(w)
    BY <2>5, ThrownRecords DEF Throw, At, LooksUp
  <2>6. CASE Approval(w)
    BY <2>6, ApprovalRecords DEF Procs
  <2>7. CASE Loop(w)
    BY <2>7, LoopRecords
  <2>8. CASE Lost(w)
    BY <2>8, LostRecords
  <2> QED BY <1>3, <2>1, <2>2, <2>3, <2>4, <2>5, <2>6, <2>7, <2>8 DEF Work
<1>4. CASE Tick
  BY <1>4, RecordUnmoved DEF Tick
<1>5. CASE Over
  BY <1>5, RecordUnmoved DEF Over
<1>6. CASE UNCHANGED vars
  BY <1>6, RecordUnmoved DEF vars
<1>7. ASSUME NEW w \in Procs, Abort(w) PROVE RecordInv'
  BY <1>7, AbortRecords
<1> QED BY <1>1, <1>2, <1>3, <1>4, <1>5, <1>6, <1>7 DEF Next, Procs

-----------------------------------------------------------------------------
(* The theorems.                                                           *)

\* What the invariant is for: a host is never asked for more pages than its budget,
\* and none is asked for off the seeds' hosts or against robots.txt.
LEMMA ScopeInvSuffices == ASSUME ScopeInv PROVE WithinBudget /\ StaysWhereAllowed
<1>1. asked \subseteq approved /\ approved \subseteq Urls
  BY DEF ScopeInv, AskedInv, ApprovedInv
<1>2. ASSUME NEW h \in Hosts
      PROVE  Cardinality({u \in asked : HostOf[u] = h}) <= MaxPerHost
  <2> DEFINE some == {u \in asked : HostOf[u] = h}
             all == {u \in approved : HostOf[u] = h}
  <2>1. some \subseteq all /\ all \subseteq Urls
    BY <1>1
  <2>2. IsFiniteSet(all)
    BY <2>1, FS_Subset, CrawlerAssumption
  <2>3. IsFiniteSet(some) /\ Cardinality(some) <= Cardinality(all)
    BY <2>1, <2>2, FS_Subset
  <2>4. Cardinality(all) <= MaxPerHost
    BY DEF ScopeInv, ApprovedInv, Used
  <2>5. Cardinality(some) \in Nat /\ Cardinality(all) \in Nat /\ MaxPerHost \in Nat
    BY <2>2, <2>3, FS_CardinalityType, CrawlerAssumption
  <2> HIDE DEF some, all
  <2>6. Cardinality(some) <= MaxPerHost
    BY <2>3, <2>4, <2>5
  <2> QED BY <2>6 DEF some
<1>3. StaysWhereAllowed
  BY <1>1 DEF ScopeInv, ApprovedInv, PoliciesInv, Permitted, StaysWhereAllowed
<1> QED BY <1>2, <1>3 DEF WithinBudget

\* However many workers follow links and redirects at once, and however often a
\* request is retried, no host is asked for more URLs than --max-per-host.
THEOREM BudgetHolds == Spec => []WithinBudget
<1>1. Init => ScopeInv
  BY ScopeInvInit
<1>2. ScopeInv /\ [Next]_vars => ScopeInv'
  BY ScopeInvNext
<1>3. ScopeInv => WithinBudget
  BY ScopeInvSuffices
<1> QED BY <1>1, <1>2, <1>3, PTL DEF Spec

\* No page is asked for off the seeds' hosts, or that no robots.txt its origin has
\* answered to this crawl allows, at any hop of any redirect.
THEOREM PolicyHolds == Spec => []StaysWhereAllowed
<1>1. Init => ScopeInv
  BY ScopeInvInit
<1>2. ScopeInv /\ [Next]_vars => ScopeInv'
  BY ScopeInvNext
<1>3. ScopeInv => StaysWhereAllowed
  BY ScopeInvSuffices
<1> QED BY <1>1, <1>2, <1>3, PTL DEF Spec


\* What the second invariant is for: the trail is complete, and the exit code says
\* what the trail says.
LEMMA RecordInvSuffices == ASSUME RecordInv PROVE TrailComplete /\ FailedRunHasNothing
<1>1. TrailComplete
  BY DEF RecordInv, TrailInv, DoneInv, LostBy, TrailComplete, ReachedIn
<1>2. ExitCode = 1 <=> tally \cap {"landed", "fresh"} = {} /\ "failed" \in tally
  BY DEF ExitCode
<1>3. FailedRunHasNothing
  BY <1>2 DEF RecordInv, TallyInv, FailedRunHasNothing
<1> QED BY <1>1, <1>3

\* Unless the crawl rejected, a request that is done with left a row or a redirect
\* behind or is being written down, and a page found fresh was recorded, whatever
\* failed and was retried in between.
THEOREM TrailHolds == Spec => []TrailComplete
<1>1. Init => ScopeInv /\ RecordInv
  BY ScopeInvInit, RecordInvInit
<1>2. ScopeInv /\ RecordInv /\ [Next]_vars => (ScopeInv /\ RecordInv)'
  BY ScopeInvNext, RecordInvNext
<1>3. ScopeInv /\ RecordInv => TrailComplete
  BY RecordInvSuffices
<1> QED BY <1>1, <1>2, <1>3, PTL DEF Spec

\* The exit code of a crawl, kept as a few counts, says what its whole trail says.
THEOREM FailureHolds == Spec => []FailedRunHasNothing
<1>1. Init => ScopeInv /\ RecordInv
  BY ScopeInvInit, RecordInvInit
<1>2. ScopeInv /\ RecordInv /\ [Next]_vars => (ScopeInv /\ RecordInv)'
  BY ScopeInvNext, RecordInvNext
<1>3. ScopeInv /\ RecordInv => FailedRunHasNothing
  BY RecordInvSuffices
<1> QED BY <1>1, <1>2, <1>3, PTL DEF Spec

-----------------------------------------------------------------------------
(***************************************************************************)
(* When a crawl may ask a host, and the types, proved for any number of    *)
(* hosts, workers and URLs and any interval.                               *)
(*                                                                         *)
(* The timer that a turn waits for starts no earlier than the last page of *)
(* its host was asked for, and a worker that waits is in its host's line.  *)
(***************************************************************************)

\* Worker w is somewhere in a line.
InLine(w, line) == \E k \in 1..Len(line) : line[k] = w

TurnsInv ==
  /\ turns \in [Hosts -> Seq(Workers)]
  /\ elapsed \in [Hosts -> 0..Interval]
  /\ since \in [Hosts -> 0..Interval]
  /\ \A h \in Hosts : elapsed[h] <= since[h]
  /\ \A w \in Workers : procs[w].step = "turn" => InLine(w, turns[HostOf[procs[w].url]])

-----------------------------------------------------------------------------
(* Lines.                                                                  *)

\* Joining a line leaves everybody in it, and the one who joins too.
LEMMA Joined ==
  ASSUME NEW line \in Seq(Workers), NEW w \in Workers
  PROVE  /\ Append(line, w) \in Seq(Workers)
         /\ InLine(w, Append(line, w))
         /\ \A v \in Workers : InLine(v, line) => InLine(v, Append(line, w))
<1>1. Len(line) \in Nat
  BY LenProperties
<1>2. /\ Append(line, w) \in Seq(Workers)
      /\ Len(Append(line, w)) = Len(line) + 1
      /\ \A k \in 1..Len(line) : Append(line, w)[k] = line[k]
      /\ Append(line, w)[Len(line) + 1] = w
  BY AppendProperties
<1>3. InLine(w, Append(line, w))
  BY <1>1, <1>2 DEF InLine
<1>4. ASSUME NEW v \in Workers, InLine(v, line) PROVE InLine(v, Append(line, w))
  <2>1. PICK k \in 1..Len(line) : line[k] = v
    BY <1>4 DEF InLine
  <2>2. k \in 1..Len(Append(line, w)) /\ Append(line, w)[k] = v
    BY <1>1, <1>2, <2>1
  <2> QED BY <2>2 DEF InLine
<1> QED BY <1>2, <1>3, <1>4

\* Whoever is not its head stays in a line that moves on.
LEMMA MovedOn ==
  ASSUME NEW line \in Seq(Workers), NEW w \in Workers, InLine(w, line)
  PROVE  /\ Tail(line) \in Seq(Workers)
         /\ \A v \in Workers : InLine(v, line) /\ v # Head(line) => InLine(v, Tail(line))
<1>1. Len(line) \in Nat
  BY LenProperties
<1>2. line # <<>>
  BY <1>1, EmptySeq DEF InLine
<1>3. /\ Tail(line) \in Seq(Workers)
      /\ Len(Tail(line)) = Len(line) - 1
      /\ \A k \in 1..Len(Tail(line)) : Tail(line)[k] = line[k + 1]
  BY <1>2, HeadTailProperties
<1>4. Head(line) = line[1]
  BY <1>2
<1>5. ASSUME NEW v \in Workers, InLine(v, line), v # Head(line) PROVE InLine(v, Tail(line))
  <2>1. PICK k \in 1..Len(line) : line[k] = v
    BY <1>5 DEF InLine
  <2>2. k # 1
    BY <1>4, <1>5, <2>1
  <2>3. k - 1 \in 1..Len(Tail(line)) /\ (k - 1) + 1 = k
    BY <1>1, <1>3, <2>2
  <2>4. Tail(line)[k - 1] = v
    BY <1>3, <2>1, <2>3
  <2> QED BY <2>3, <2>4 DEF InLine
<1> QED BY <1>3, <1>5

\* The two timers of a host, as numbers.
LEMMA Timers ==
  ASSUME TurnsInv, NEW h \in Hosts
  PROVE  /\ elapsed[h] \in Nat /\ since[h] \in Nat /\ Interval \in Nat
         /\ elapsed[h] <= since[h] /\ since[h] <= Interval
BY CrawlerAssumption DEF TurnsInv

-----------------------------------------------------------------------------
(* Each action.                                                            *)

\* Only those who waited before wait now.
LEMMA TurnsKept ==
  ASSUME TurnsInv, UNCHANGED manners,
         \A v \in Workers : procs'[v].step = "turn" => procs'[v] = procs[v]
  PROVE  TurnsInv'
BY DEF TurnsInv, manners

\* A process that moves anywhere but into a line.
LEMMA LeavesTurns ==
  ASSUME ScopeInv, TurnsInv, UNCHANGED manners,
         NEW w, NEW p, procs' = [procs EXCEPT ![w] = p], p.step # "turn"
  PROVE  TurnsInv'
<1>1. procs \in [Procs -> Proc] /\ Workers \subseteq Procs
  BY DEF ScopeInv, ProcsInv, Procs
<1>2. \A v \in Workers : procs'[v].step = "turn" => procs'[v] = procs[v]
  BY <1>1
<1> QED BY <1>2, TurnsKept

\* Deciding about a URL puts nobody in a line.
LEMMA DecidedMoves ==
  ASSUME ScopeInv, NEW w \in Procs, procs[w].step \in {"guard", "links"},
         NEW u \in Urls, NEW ok \in BOOLEAN, Decided(w, u, ok)
  PROVE  \E p : procs' = [procs EXCEPT ![w] = p] /\ p.step # "turn"
<1> DEFINE p == procs[w]
<1>1. p \in Proc
  BY DEF ScopeInv, ProcsInv
<1>2. CASE p.step = "links"
  <2> DEFINE next == [p EXCEPT !.links = @ \ {u}, !.loading = None,
                               !.kept = IF ok THEN @ \cup {u} ELSE @]
  <2>1. procs' = [procs EXCEPT ![w] = next]
    BY <1>2 DEF Decided, Becomes
  <2>2. next.step = "links"
    BY <1>1, <1>2 DEF Proc
  <2> QED BY <2>1, <2>2
<1>3. CASE p.step = "guard"
  <2>1. CASE ok
    <3>1. procs' = [procs EXCEPT ![w] = Hopped(p, u)]
      BY <1>3, <2>1 DEF Decided, Becomes
    <3>2. Hopped(p, u).step # "turn"
      BY <1>1, HoppedFields
    <3> QED BY <3>1, <3>2
  <2>2. CASE ~ok
    <3>1. Finished(w, p.url)
      BY <1>3, <2>2 DEF Decided
    <3> QED BY <3>1, IdleFields DEF Finished, Becomes
  <2> QED BY <2>1, <2>2
<1> QED BY <1>2, <1>3

\* Nor does any step of approval.
LEMMA ApprovalMoves ==
  ASSUME ScopeInv, NEW w \in Procs, Approval(w)
  PROVE  /\ UNCHANGED <<manners, asked, moved, faults>>
         /\ \E p : procs' = [procs EXCEPT ![w] = p] /\ p.step # "turn"
<1>1. ASSUME NEW u \in Urls, InScope(w, u)
      PROVE  \E p : procs' = [procs EXCEPT ![w] = p] /\ p.step # "turn"
  <2>1. procs[w].step \in {"guard", "links"} /\ procs[w] \in Proc
    BY <1>1, OfferedIsUrl DEF InScope, ScopeInv, ProcsInv
  <2>2. CASE Becomes(w, [procs[w] EXCEPT !.loading = u])
    <3> DEFINE p == [procs[w] EXCEPT !.loading = u]
    <3>1. p.step \in {"guard", "links"}
      BY <2>1 DEF Proc
    <3> QED BY <2>2, <3>1 DEF Becomes
  <2>3. CASE \E ok \in BOOLEAN : Decided(w, u, ok)
    BY <2>1, <2>3, DecidedMoves
  <2>4. Approves(u, policies[OriginOf[u]]) \in BOOLEAN
    BY DEF Approves
  <2> QED BY <1>1, <2>2, <2>3, <2>4 DEF InScope, Approve
<1>2. ASSUME LoadRobots(w)
      PROVE  \E p : procs' = [procs EXCEPT ![w] = p] /\ p.step # "turn"
  <2> DEFINE u == procs[w].loading
  <2>1. ProcAt(w, procs[w], approved, asked) /\ u # None
    BY <1>2 DEF ScopeInv, ProcsInv, LoadRobots
  <2>2. procs[w].step \in {"guard", "links"} /\ u \in Urls
    BY <2>1 DEF ProcAt, Proc
  <2>3. PICK policy \in RobotsOf[OriginOf[u]] : Approve(w, u, policy)
    BY <1>2 DEF LoadRobots
  <2>4. Approves(u, policy) \in BOOLEAN
    BY DEF Approves
  <2> QED BY <2>2, <2>3, <2>4, DecidedMoves DEF Approve
<1>3. ASSUME Enqueue(w) PROVE \E p : procs' = [procs EXCEPT ![w] = p] /\ p.step # "turn"
  BY <1>3, IdleFields DEF Enqueue, Becomes
<1>4. UNCHANGED <<manners, asked, moved, faults>>
  BY DEF Approval, LoadRobots, Enqueue, InScope
<1> QED BY <1>1, <1>2, <1>3, <1>4 DEF Approval

\* A worker joins the line; the timer starts with the first of it.
LEMMA StartTurns ==
  ASSUME ScopeInv, TurnsInv, NEW w \in Workers, NEW u \in Urls, Start(w, u)
  PROVE  TurnsInv'
<1> DEFINE h == HostOf[u]
           p == [Idle EXCEPT !.step = "turn", !.url = u, !.at = u]
<1>1. /\ procs' = [procs EXCEPT ![w] = p]
      /\ turns' = [turns EXCEPT ![h] = Append(turns[h], w)]
      /\ elapsed' = IF turns[h] = <<>> THEN [elapsed EXCEPT ![h] = 0] ELSE elapsed
      /\ since' = since
  BY DEF Start, Becomes
<1>2. h \in Hosts /\ turns[h] \in Seq(Workers)
  BY DEF Hosts, TurnsInv
<1>3. /\ Append(turns[h], w) \in Seq(Workers)
      /\ InLine(w, Append(turns[h], w))
      /\ \A v \in Workers : InLine(v, turns[h]) => InLine(v, Append(turns[h], w))
  BY <1>2, Joined
<1>4. turns' \in [Hosts -> Seq(Workers)]
  BY <1>1, <1>3 DEF TurnsInv
<1>5. /\ elapsed' \in [Hosts -> 0..Interval]
      /\ \A g \in Hosts : elapsed'[g] <= since'[g]
  <2>1. ASSUME NEW g \in Hosts PROVE elapsed'[g] \in 0..Interval /\ elapsed'[g] <= since'[g]
    <3>1. elapsed'[g] = elapsed[g] \/ elapsed'[g] = 0
      BY <1>1 DEF TurnsInv
    <3> QED BY <1>1, <3>1, Timers
  <2>2. 0 \in 0..Interval
    BY CrawlerAssumption
  <2>3. elapsed' \in [Hosts -> 0..Interval]
    BY <1>1, <2>2 DEF TurnsInv
  <2> QED BY <2>1, <2>3
<1>6. ASSUME NEW v \in Workers, procs'[v].step = "turn"
      PROVE  InLine(v, turns'[HostOf[procs'[v].url]])
  <2>1. procs \in [Procs -> Proc] /\ v \in Procs
    BY DEF ScopeInv, ProcsInv, Procs
  <2>2. turns'[h] = Append(turns[h], w)
    BY <1>1, <1>2 DEF TurnsInv
  <2>3. CASE v = w
    <3>1. procs'[v] = p /\ p.url = u
      BY <1>1, <2>1, <2>3, IdleFields DEF Proc
    <3> QED BY <1>3, <2>2, <2>3, <3>1
  <2>4. CASE v # w
    <3>1. procs'[v] = procs[v]
      BY <1>1, <2>1, <2>4
    <3> DEFINE g == HostOf[procs[v].url]
    <3>2. InLine(v, turns[g])
      BY <1>6, <3>1 DEF TurnsInv
    <3>3. CASE g = h
      BY <1>3, <2>2, <3>1, <3>2, <3>3
    <3>4. CASE g # h
      <4>1. turns'[g] = turns[g]
        BY <1>1, <3>4 DEF TurnsInv
      <4> QED BY <3>1, <3>2, <4>1
    <3> QED BY <3>3, <3>4
  <2> QED BY <2>3, <2>4
<1> QED BY <1>1, <1>4, <1>5, <1>6 DEF TurnsInv

\* The head of the line goes, and the next timer starts as the page is asked for.
LEMMA TurnTurns ==
  ASSUME ScopeInv, TurnsInv, NEW w \in Workers, Turn(w)
  PROVE  TurnsInv'
<1> DEFINE h == HostOf[procs[w].url]
           p == [procs[w] EXCEPT !.step = "ask"]
<1>1. /\ procs' = [procs EXCEPT ![w] = p] /\ procs[w].step = "turn"
      /\ Head(turns[h]) = w
      /\ turns' = [turns EXCEPT ![h] = Tail(turns[h])]
      /\ elapsed' = [elapsed EXCEPT ![h] = 0]
      /\ since' = [since EXCEPT ![h] = 0]
  BY DEF Turn, At, NextTimer, Becomes
<1>2. procs[w].url \in Urls /\ procs[w] \in Proc
  BY <1>1, WorkerAt
<1>3. h \in Hosts /\ turns[h] \in Seq(Workers) /\ InLine(w, turns[h])
  BY <1>1, <1>2 DEF Hosts, TurnsInv
<1>4. /\ Tail(turns[h]) \in Seq(Workers)
      /\ \A v \in Workers : InLine(v, turns[h]) /\ v # w => InLine(v, Tail(turns[h]))
  BY <1>1, <1>3, MovedOn
<1>5. turns' \in [Hosts -> Seq(Workers)]
  BY <1>1, <1>4 DEF TurnsInv
<1>6. /\ elapsed' \in [Hosts -> 0..Interval]
      /\ since' \in [Hosts -> 0..Interval]
      /\ \A g \in Hosts : elapsed'[g] <= since'[g]
  <2>1. 0 \in 0..Interval
    BY CrawlerAssumption
  <2>2. /\ elapsed' \in [Hosts -> 0..Interval]
        /\ since' \in [Hosts -> 0..Interval]
    BY <1>1, <2>1 DEF TurnsInv
  <2>3. ASSUME NEW g \in Hosts PROVE elapsed'[g] <= since'[g]
    <3>1. \/ elapsed'[g] = elapsed[g] /\ since'[g] = since[g]
          \/ elapsed'[g] = 0 /\ since'[g] = 0
      BY <1>1 DEF TurnsInv
    <3> QED BY <3>1, Timers
  <2> QED BY <2>2, <2>3
<1>7. ASSUME NEW v \in Workers, procs'[v].step = "turn"
      PROVE  InLine(v, turns'[HostOf[procs'[v].url]])
  <2>1. procs \in [Procs -> Proc] /\ v \in Procs
    BY DEF ScopeInv, ProcsInv, Procs
  <2>2. v # w
    BY <1>1, <1>2, <1>7, <2>1 DEF Proc
  <2>3. procs'[v] = procs[v]
    BY <1>1, <2>1, <2>2
  <2> DEFINE g == HostOf[procs[v].url]
  <2>4. InLine(v, turns[g])
    BY <1>7, <2>3 DEF TurnsInv
  <2>5. CASE g = h
    <3>1. turns'[g] = Tail(turns[h])
      BY <1>1, <1>3, <2>5 DEF TurnsInv
    <3> QED BY <1>4, <2>2, <2>3, <2>4, <2>5, <3>1
  <2>6. CASE g # h
    <3>1. turns'[g] = turns[g]
      BY <1>1, <2>6 DEF TurnsInv
    <3> QED BY <2>3, <2>4, <3>1
  <2> QED BY <2>5, <2>6
<1> QED BY <1>5, <1>6, <1>7 DEF TurnsInv

LEMMA TickTurns == ASSUME TurnsInv, Tick PROVE TurnsInv'
<1>1. /\ elapsed' = [h \in Hosts |-> IF elapsed[h] < Interval THEN elapsed[h] + 1 ELSE Interval]
      /\ since' = [h \in Hosts |-> IF since[h] < Interval THEN since[h] + 1 ELSE Interval]
      /\ turns' = turns /\ procs' = procs
  BY DEF Tick
<1>2. ASSUME NEW h \in Hosts
      PROVE  elapsed'[h] \in 0..Interval /\ since'[h] \in 0..Interval /\ elapsed'[h] <= since'[h]
  <2>1. /\ elapsed'[h] = IF elapsed[h] < Interval THEN elapsed[h] + 1 ELSE Interval
        /\ since'[h] = IF since[h] < Interval THEN since[h] + 1 ELSE Interval
    BY <1>1
  <2> QED BY <2>1, Timers
<1>3. elapsed' \in [Hosts -> 0..Interval] /\ since' \in [Hosts -> 0..Interval]
  BY <1>1, <1>2
<1> QED BY <1>1, <1>2, <1>3 DEF TurnsInv

\* Every other step of a worker leaves the lines alone.
LEMMA WorkMoves ==
  ASSUME ScopeInv, NEW w \in Workers,
         \/ Ask(w) \/ Redirected(w) \/ NotAPage(w) \/ Content(w) \/ Loop(w)
         \/ Dead(w) \/ Lost(w) \/ Throw(w)
  PROVE  UNCHANGED manners /\ \E p : procs' = [procs EXCEPT ![w] = p] /\ p.step # "turn"
<1>1. UNCHANGED manners
  BY DEF Ask, Redirected, NotAPage, Content, Loop, Dead, Lost, Throw
<1> SUFFICES \E p : procs' = [procs EXCEPT ![w] = p] /\ p.step # "turn"
  BY <1>1
<1>2. procs[w] \in Proc
  BY DEF ScopeInv, ProcsInv, Procs
<1>3. CASE Ask(w)
  <2> DEFINE p == [procs[w] EXCEPT !.step = "wait"]
  <2>1. procs' = [procs EXCEPT ![w] = p] /\ p.step = "wait"
    BY <1>2, <1>3 DEF Ask, Becomes, Proc
  <2> QED BY <2>1
<1>4. CASE Redirected(w)
  <2>1. PICK target \in Urls :
          procs' = [procs EXCEPT ![w] = [procs[w] EXCEPT !.step = "guard", !.next = target]]
    BY <1>4 DEF Redirected, AfterRedirect, Becomes
  <2>2. [procs[w] EXCEPT !.step = "guard", !.next = target].step = "guard"
    BY <1>2 DEF Proc
  <2> QED BY <2>1, <2>2
<1>5. CASE NotAPage(w) \/ Content(w)
  <2> DEFINE p == [procs[w] EXCEPT !.step = "links", !.links = LinksOf[procs[w].at]]
  <2>1. procs' = [procs EXCEPT ![w] = p] \/ procs' = [procs EXCEPT ![w] = Idle]
    BY <1>5 DEF NotAPage, Content, Finished, Becomes
  <2>2. p.step = "links"
    BY <1>2 DEF Proc
  <2> QED BY <2>1, <2>2, IdleFields
<1>6. CASE Dead(w) \/ Throw(w)
  <2> DEFINE p == [Idle EXCEPT !.step = "lost", !.url = procs[w].url]
  <2>1. procs' = [procs EXCEPT ![w] = p] \/ procs' = [procs EXCEPT ![w] = Idle]
    BY <1>6 DEF Dead, Throw, Thrown, Becomes
  <2>2. p.step = "lost"
    BY DEF Idle
  <2> QED BY <2>1, <2>2, IdleFields
<1>7. CASE Loop(w) \/ Lost(w)
  BY <1>7, IdleFields DEF Loop, Lost, Finished, Becomes
<1> QED BY <1>1, <1>3, <1>4, <1>5, <1>6, <1>7

LEMMA TurnsInvInit == ASSUME Init PROVE TurnsInv
<1>1. \A w \in Workers : procs[w].step = "idle"
  BY IdleFields DEF Init
<1>2. 0 \in 0..Interval /\ Interval \in 0..Interval /\ 0 <= Interval
  BY CrawlerAssumption
<1>3. <<>> \in Seq(Workers)
  BY EmptySeq
<1> QED BY <1>1, <1>2, <1>3 DEF Init, TurnsInv

LEMMA TurnsInvNext == ASSUME ScopeInv, TurnsInv, [Next]_vars PROVE TurnsInv'
<1>1. CASE DiscoverSeeds
  <2>1. PICK links : procs' = [procs EXCEPT ![Main] = [Idle EXCEPT !.step = "links", !.links = links]]
    BY <1>1 DEF DiscoverSeeds, Becomes
  <2>2. UNCHANGED manners
    BY <1>1 DEF DiscoverSeeds
  <2>3. [Idle EXCEPT !.step = "links", !.links = links].step = "links"
    BY DEF Idle
  <2> QED BY <2>1, <2>2, <2>3, LeavesTurns
<1>2. ASSUME NEW w \in Procs, Approval(w) PROVE TurnsInv'
  BY <1>2, ApprovalMoves, LeavesTurns
<1>3. ASSUME NEW w \in Workers, Work(w) \/ Throw(w) PROVE TurnsInv'
  BY <1>2, <1>3, StartTurns, TurnTurns, WorkMoves, LeavesTurns DEF Work, Procs
<1>4. CASE Tick
  BY <1>4, TickTurns
<1>5. CASE Over
  BY <1>5, TurnsKept DEF Over
<1>6. CASE UNCHANGED vars
  BY <1>6, TurnsKept DEF vars
<1>7. ASSUME NEW w \in Procs, Abort(w) PROVE TurnsInv'
  BY <1>7, IdleFields, LeavesTurns DEF Abort, Becomes
<1> QED BY <1>1, <1>2, <1>3, <1>4, <1>5, <1>6, <1>7 DEF Next, Procs

\* Only a turn shortens a line, and it has waited for the interval.
LEMMA TurnsAreSpaced ==
  ASSUME ScopeInv, TurnsInv, [Next]_vars, NEW h \in Hosts, Len(turns'[h]) < Len(turns[h])
  PROVE  since[h] >= Interval
<1>1. turns[h] \in Seq(Workers) /\ Len(turns[h]) \in Nat
  BY LenProperties DEF TurnsInv
<1>2. turns' # turns
  BY <1>1
<1>3. ASSUME NEW w \in Workers, NEW u \in Urls, Start(w, u) PROVE FALSE
  <2>1. turns' = [turns EXCEPT ![HostOf[u]] = Append(turns[HostOf[u]], w)]
    BY <1>3 DEF Start
  <2>2. Len(Append(turns[h], w)) = Len(turns[h]) + 1
    BY <1>1, AppendProperties
  <2>3. turns'[h] = turns[h] \/ turns'[h] = Append(turns[h], w)
    BY <2>1 DEF TurnsInv
  <2> QED BY <1>1, <2>2, <2>3
<1>4. PICK w \in Workers : Turn(w)
  BY <1>2, <1>3, ApprovalMoves, WorkMoves
     DEF Next, Work, Procs, DiscoverSeeds, Tick, Over, Abort, vars, manners
<1> DEFINE g == HostOf[procs[w].url]
<1>5. /\ turns' = [turns EXCEPT ![g] = Tail(turns[g])]
      /\ elapsed[g] >= Interval
  BY <1>4 DEF Turn
<1>6. h = g
  BY <1>1, <1>5 DEF TurnsInv
<1>7. elapsed[h] \in Int /\ since[h] \in Int /\ Interval \in Int /\ elapsed[h] <= since[h]
  BY CrawlerAssumption DEF TurnsInv
<1> QED BY <1>5, <1>6, <1>7

\* No host is asked for two pages within the interval, however many workers want
\* them and wherever they come from.
THEOREM TurnsHold == Spec => Spaced
<1>1. Init => ScopeInv /\ TurnsInv
  BY ScopeInvInit, TurnsInvInit
<1>2. ScopeInv /\ TurnsInv /\ [Next]_vars => (ScopeInv /\ TurnsInv)'
  BY ScopeInvNext, TurnsInvNext
<1>3. ScopeInv /\ TurnsInv /\ [Next]_vars =>
        [\A h \in Hosts : Len(turns'[h]) < Len(turns[h]) => since[h] >= Interval]_vars
  BY TurnsAreSpaced
<1> QED BY <1>1, <1>2, <1>3, PTL DEF Spec, Spaced

-----------------------------------------------------------------------------
(* Types: what the three invariants have left out.                         *)

Rows == [url : Urls, what : {"content", "thin", "refused", "unusable", "loop", "lost"}]

LedgerInv ==
  /\ phase \in {"start", "seeding", "running", "over", "aborted"}
  /\ trail \subseteq Rows
  /\ tally \subseteq {"landed", "fresh", "skipped", "failed"}
  /\ moved \subseteq asked
  /\ faults \in 0..MaxFaults

\* A step that writes at most one row and one count.
LEMMA Written ==
  ASSUME LedgerInv, phase' \in {"start", "seeding", "running", "over", "aborted"},
         trail' = trail \/ \E row \in Rows : trail' = trail \cup {row},
         tally' = tally \/ \E tag \in {"landed", "fresh", "skipped", "failed"} :
                             tally' = tally \cup {tag},
         moved' \subseteq asked', faults' \in 0..MaxFaults
  PROVE  LedgerInv'
BY DEF LedgerInv

LEMMA RowTypes ==
  ASSUME NEW u \in Urls
  PROVE  \A what \in {"content", "thin", "refused", "unusable", "loop", "lost"} :
           Row(u, what) \in Rows
BY DEF Row, Rows

LEMMA DecidedWrites ==
  ASSUME ScopeInv, LedgerInv, NEW w \in Procs, procs[w].step \in {"guard", "links"},
         NEW u \in Urls, NEW ok \in BOOLEAN, Decided(w, u, ok),
         UNCHANGED <<phase, asked, moved, faults>>
  PROVE  LedgerInv'
<1>1. UNCHANGED record \/ (tally' = tally \cup {"skipped"} /\ trail' = trail)
  BY DEF Decided
<1> QED BY <1>1, Written DEF LedgerInv, record

LEMMA ApprovalWrites ==
  ASSUME ScopeInv, LedgerInv, NEW w \in Procs, Approval(w) PROVE LedgerInv'
<1>1. UNCHANGED <<asked, moved, faults>>
  BY ApprovalMoves
<1>2. ASSUME NEW u \in Urls, InScope(w, u) PROVE LedgerInv'
  <2>1. procs[w].step \in {"guard", "links"} /\ phase' = phase
    BY <1>2, OfferedIsUrl DEF InScope, ScopeInv
  <2>2. CASE UNCHANGED record
    BY <1>1, <2>1, <2>2, Written DEF LedgerInv, record
  <2>3. CASE \E ok \in BOOLEAN : Decided(w, u, ok)
    BY <1>1, <2>1, <2>3, DecidedWrites
  <2>4. Approves(u, policies[OriginOf[u]]) \in BOOLEAN
    BY DEF Approves
  <2> QED BY <1>2, <2>2, <2>3, <2>4 DEF InScope, Approve
<1>3. CASE LoadRobots(w)
  <2> DEFINE u == procs[w].loading
  <2>1. ProcAt(w, procs[w], approved, asked) /\ u # None /\ phase' = phase
    BY <1>3 DEF ScopeInv, ProcsInv, LoadRobots
  <2>2. u \in Urls /\ procs[w].step \in {"guard", "links"}
    BY <2>1 DEF ProcAt, Proc
  <2>3. PICK policy \in RobotsOf[OriginOf[u]] : Approve(w, u, policy)
    BY <1>3 DEF LoadRobots
  <2>4. Approves(u, policy) \in BOOLEAN
    BY DEF Approves
  <2> QED BY <1>1, <2>1, <2>2, <2>3, <2>4, DecidedWrites DEF Approve
<1>4. CASE Enqueue(w)
  <2>1. /\ phase' \in {"running", phase} /\ trail' = trail
        /\ tally' = tally \/ tally' = tally \cup {"fresh"}
    BY <1>4 DEF Enqueue
  <2> QED BY <1>1, <2>1, Written DEF LedgerInv
<1> QED BY <1>2, <1>3, <1>4 DEF Approval

LEMMA FaultTypes ==
  ASSUME LedgerInv, faults' = faults \/ (faults < MaxFaults /\ faults' = faults + 1)
  PROVE  faults' \in 0..MaxFaults
BY CrawlerAssumption DEF LedgerInv

LEMMA WorkWrites ==
  ASSUME ScopeInv, LedgerInv, NEW w \in Workers, Work(w) \/ Throw(w) PROVE LedgerInv'
<1>1. ASSUME (\E u \in Urls : Start(w, u)) \/ Turn(w) PROVE LedgerInv'
  BY <1>1 DEF Start, Turn, LedgerInv, record
<1>2. CASE Ask(w)
  BY <1>2 DEF Ask, LedgerInv, record
<1>3. CASE Redirected(w)
  <2>1. procs[w].at \in asked
    BY <1>3 DEF Redirected, At, ScopeInv, ProcsInv, ProcAt, Procs
  <2> QED BY <1>3, <2>1 DEF Redirected, LedgerInv, record
<1>4. CASE NotAPage(w)
  <2>1. procs[w].at \in Urls
    BY <1>4, WorkerAt DEF NotAPage, At
  <2>2. PICK answer \in {"refused", "unusable", "thin"} :
          /\ trail' = trail \cup {Row(procs[w].at, answer)}
          /\ tally' = tally \cup {Counted(answer)}
          /\ UNCHANGED <<phase, asked, moved, faults>>
    BY <1>4 DEF NotAPage
  <2>3. Row(procs[w].at, answer) \in Rows /\ Counted(answer) \in {"failed", "skipped"}
    BY <2>1, RowTypes DEF Counted
  <2> QED BY <2>2, <2>3, Written DEF LedgerInv
<1>5. CASE Content(w)
  <2>1. procs[w].at \in Urls
    BY <1>5, WorkerAt DEF Content, At
  <2>2. /\ trail' = trail \cup {Row(procs[w].at, "content")}
        /\ tally' = tally \cup {"landed"}
        /\ UNCHANGED <<phase, asked, moved, faults>>
    BY <1>5 DEF Content
  <2> QED BY <2>1, <2>2, RowTypes, Written DEF LedgerInv
<1>6. CASE Dead(w) \/ Throw(w)
  <2>1. UNCHANGED <<phase, asked, moved, record>>
    BY <1>6 DEF Dead, Throw, Thrown
  <2>2. faults' = faults \/ (faults < MaxFaults /\ faults' = faults + 1)
    BY <1>6 DEF Dead, Throw, Fault
  <2> QED BY <2>1, <2>2, FaultTypes DEF LedgerInv, record
<1>8. CASE Loop(w)
  <2>1. procs[w].at \in Urls
    BY <1>8, WorkerAt DEF Loop, At
  <2>2. /\ trail' = trail \cup {Row(procs[w].at, "loop")}
        /\ tally' = tally \cup {"failed"}
        /\ UNCHANGED <<phase, asked, moved, faults>>
    BY <1>8 DEF Loop
  <2> QED BY <2>1, <2>2, RowTypes, Written DEF LedgerInv
<1>9. CASE Lost(w)
  <2>1. procs[w].url \in Urls
    BY <1>9, WorkerAt DEF Lost, At
  <2>2. /\ trail' = trail \cup {Row(procs[w].url, "lost")}
        /\ tally' = tally \cup {"failed"}
        /\ UNCHANGED <<phase, asked, moved, faults>>
    BY <1>9 DEF Lost, LostRow
  <2> QED BY <2>1, <2>2, RowTypes, Written DEF LedgerInv
<1>7. CASE Approval(w)
  BY <1>7, ApprovalWrites DEF Procs
<1> QED BY <1>1, <1>2, <1>3, <1>4, <1>5, <1>6, <1>7, <1>8, <1>9 DEF Work

LEMMA LedgerInvInit == ASSUME Init PROVE LedgerInv
BY CrawlerAssumption DEF Init, LedgerInv

LEMMA LedgerInvNext == ASSUME ScopeInv, LedgerInv, [Next]_vars PROVE LedgerInv'
<1>1. CASE DiscoverSeeds
  BY <1>1 DEF DiscoverSeeds, LedgerInv, record
<1>2. CASE Approval(Main)
  BY <1>2, ApprovalWrites DEF Procs
<1>3. ASSUME NEW w \in Workers, Work(w) \/ Throw(w) PROVE LedgerInv'
  BY <1>3, WorkWrites
<1>4. CASE Tick
  BY <1>4 DEF Tick, LedgerInv, record
<1>5. CASE Over
  BY <1>5 DEF Over, LedgerInv, record
<1>6. CASE UNCHANGED vars
  BY <1>6 DEF vars, LedgerInv, record
<1>7. ASSUME NEW w \in Procs, Abort(w) PROVE LedgerInv'
  <2>1. /\ phase' = "aborted" /\ UNCHANGED <<asked, moved, record>>
        /\ faults < MaxFaults /\ faults' = faults + 1
    BY <1>7 DEF Abort, Fault
  <2> QED BY <2>1, FaultTypes DEF LedgerInv, record
<1> QED BY <1>1, <1>2, <1>3, <1>4, <1>5, <1>6, <1>7 DEF Next, Procs

\* The four invariants say all that the types do.
LEMMA TypesFollow ==
  ASSUME ScopeInv, RecordInv, TurnsInv, LedgerInv PROVE TypeOK
<1>1. procs \in [Workers \cup {Main} -> Proc]
  BY DEF ScopeInv, ProcsInv, Procs
<1>2. requests \in [Urls -> [state : {"absent", "queued", "active", "done"},
                             tries : 0..MaxRetries]]
  BY DEF ScopeInv, RequestsInv, Request
<1>3. /\ policies \in [Origins -> (SUBSET Urls) \cup {None}]
      /\ heard \in [Origins -> SUBSET SUBSET Urls] /\ probed \subseteq Origins
      /\ approved \subseteq Urls /\ asked \subseteq Urls
  BY DEF ScopeInv, PoliciesInv, ApprovedInv, AskedInv
<1>4. age \in [Urls -> Ages]
  BY DEF RecordInv, TrailInv
<1>5. /\ turns \in [Hosts -> Seq(Workers)]
      /\ elapsed \in [Hosts -> 0..Interval]
      /\ since \in [Hosts -> 0..Interval]
  BY DEF TurnsInv
<1> QED BY <1>1, <1>2, <1>3, <1>4, <1>5 DEF TypeOK, LedgerInv, Rows

\* Every variable keeps its type.
THEOREM CrawlTypes == Spec => []TypeOK
<1>1. Init => ScopeInv /\ RecordInv /\ TurnsInv /\ LedgerInv
  BY ScopeInvInit, RecordInvInit, TurnsInvInit, LedgerInvInit
<1>2. ScopeInv /\ RecordInv /\ TurnsInv /\ LedgerInv /\ [Next]_vars
        => (ScopeInv /\ RecordInv /\ TurnsInv /\ LedgerInv)'
  BY ScopeInvNext, RecordInvNext, TurnsInvNext, LedgerInvNext
<1>3. ScopeInv /\ RecordInv /\ TurnsInv /\ LedgerInv => TypeOK
  BY TypesFollow
<1> QED BY <1>1, <1>2, <1>3, PTL DEF Spec
=============================================================================
