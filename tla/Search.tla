------------------------------- MODULE Search -------------------------------
(***************************************************************************)
(* Searching: the two ways in and what they share.  The box of the public  *)
(* site (apps/frontend/public/search.js) posts to the free route, which a  *)
(* counter per network limits (search/rate-limit.ts).  An agent walks the  *)
(* pages of the metered route for as long as it is told there are more.    *)
(* Both are answered by search/search.service.ts: two arms retrieve        *)
(* passages at the same time, their rankings are fused, one page of        *)
(* documents is cut out and looked up in a third query, while the embed    *)
(* pass replaces passages and crawls evict them.                           *)
(*                                                                         *)
(* How a passage scores in an arm is data: each arm has an order of the    *)
(* passages for each query, equal scores always in one order, which the    *)
(* queries' ORDER BY leaves to the database.  A passage is cut anew        *)
(* whenever its document is embedded, and then has another id.             *)
(***************************************************************************)
EXTENDS Integers, FiniteSets, Sequences, Functions

CONSTANTS
  Passages,
  DocumentOf,     \* the document of each passage
  Typed,          \* what a reader or an agent may ask
  Samples,        \* what the box asks by itself
  Lexical,        \* by query: the passages that have one of its terms, best first
  Nearest,        \* by query: every passage, nearest first; none if it has no vector
  Modes,          \* what an agent may ask for: hybrid, lexical or vector
  candidates,     \* SEARCH_CANDIDATES, the depth of each arm
  rrfK,
  PageSize,       \* topK of the agent
  Networks,       \* anonymised addresses
  Home,           \* the network of the box
  Open,           \* values of WEB_SEARCH_ENABLED considered
  Limit,          \* WEB_SEARCH_RATE_LIMIT
  Window,         \* WEB_SEARCH_RATE_WINDOW_MS, in ticks
  MAX_KEYS,       \* of the limiter
  None,
  MaxEdits,       \* bound: embeddings and evictions while anybody searches
  MaxRequests,    \* bound: requests, a walk counting for MaxOffset of them
  MaxOffset       \* bound: pages past the last document are not told apart beyond it

Documents == {DocumentOf[p] : p \in Passages}

Queries == Typed \cup Samples

ASSUME SearchAssumption ==
  /\ IsFiniteSet(Passages)
  /\ DocumentOf \in [Passages -> Documents]
  /\ \A q \in Queries : \A order \in {Lexical[q], Nearest[q]} :
       order \in Seq(Passages) /\ IsInjective(order)
  /\ Modes \subseteq {"hybrid", "lexical", "vector"}
  /\ Home \in Networks
  /\ Open \subseteq BOOLEAN
  /\ None \notin Queries \cup {<<>>}
  /\ {candidates, PageSize, Limit, Window, MAX_KEYS} \subseteq Nat \ {0}
  /\ {rrfK, MaxEdits, MaxRequests, MaxOffset} \subseteq Nat
  /\ Cardinality(Documents) <= MaxOffset

VARIABLES
  open,      \* whether the free route is
  stamp,     \* of each document: when its chunks were cut, 0 if it has none
  edits,     \* embeddings and evictions so far
  calls,     \* requests under way
  tab,       \* the box
  walk,      \* the agent
  windows,   \* the limiter's map, in the order of insertion
  served,    \* by network and age: requests let through
  requests   \* requests so far

store == <<stamp, edits>>
limiter == <<windows, served>>
vars == <<open, store, calls, tab, walk, limiter, requests>>

-----------------------------------------------------------------------------
(* Sorts and filters, told by the places things get.                       *)

\* The members of I from first to last: upto[i] are those that come no later than i.
Ordered(I, upto) == [k \in 1..Cardinality(I) |-> CHOOSE i \in I : Cardinality(upto[i]) = k]

\* What stands at the places I of seq, in the order of seq.
Selected(seq, I) ==
  LET at == Ordered(I, [i \in I |-> {j \in I : j <= i}])
  IN  [k \in 1..Cardinality(I) |-> seq[at[k]]]

Smaller(m, n) == IF m < n THEN m ELSE n

First(n, seq) == SubSeq(seq, 1, Smaller(n, Len(seq)))

-----------------------------------------------------------------------------
(* Ranking.                                                                *)

\* A chunk as an arm reports it.
Hit(p) == [passage |-> p, stamp |-> stamp[DocumentOf[p]]]

\* What of an order has chunks now.
Held(order) == Selected(order, {n \in 1..Len(order) : stamp[DocumentOf[order[n]]] # 0})

HitsOf(passages) == [n \in 1..Len(passages) |-> Hit(passages[n])]

\* Mutant of Retrieved: the window grows with the page that is asked for.
Deeper(order, offset) == HitsOf(First(candidates + offset, Held(order)))

\* An arm: the chunks there are, to a depth that is the same for every page.
Retrieved(order, offset) == HitsOf(First(candidates, Held(order)))

Rank(hit, arm) == CHOOSE rank \in 1..Len(arm) : arm[rank] = hit

\* 1/(k + rank), if the arm found it at all.
Weight(hit, arm) ==
  IF hit \in Range(arm) THEN [num |-> 1, den |-> rrfK + Rank(hit, arm)] ELSE [num |-> 0, den |-> 1]

Score(hit, lexical, vector) ==
  LET l == Weight(hit, lexical)
      v == Weight(hit, vector)
  IN  [num |-> l.num * v.den + v.num * l.den, den |-> l.den * v.den]

AtLeast(s, t) == s.num * t.den >= t.num * s.den

\* The lexical arm is met first.
Met(hit, lexical, vector) ==
  IF hit \in Range(lexical) THEN Rank(hit, lexical) ELSE Len(lexical) + Rank(hit, vector)

\* Where the arms are fused, g comes no later than h: by score, and of equal
\* scores what was met first.
reciprocalRankFusion(g, h, lexical, vector) ==
  LET s == Score(g, lexical, vector)
      t == Score(h, lexical, vector)
  IN  AtLeast(s, t) /\ (AtLeast(t, s) => Met(g, lexical, vector) <= Met(h, lexical, vector))

\* Mutant of Collapsed: an entry for each chunk.
Uncollapsed(lexical, vector) == Range(lexical) \cup Range(vector)

\* One entry for each document, its best chunk.
Collapsed(lexical, vector) ==
  LET hits == Range(lexical) \cup Range(vector)
  IN  {h \in hits : \A g \in hits :
         DocumentOf[g.passage] = DocumentOf[h.passage] => reciprocalRankFusion(h, g, lexical, vector)}

Ranking(lexical, vector) ==
  LET best == Collapsed(lexical, vector)
  IN  Ordered(best, [h \in best |-> {g \in best : reciprocalRankFusion(g, h, lexical, vector)}])

DocumentsOf(hits) == [n \in 1..Len(hits) |-> DocumentOf[hits[n].passage]]

-----------------------------------------------------------------------------
NoCall == [stage |-> "free"]

\* Requests of the box, one beside the other if it let them, and of the agent.
Slots == {"box", "box2", "agent"}

Sent(query, mode, topK, offset, sample, silent) ==
  [stage |-> "sent", query |-> query, mode |-> mode, topK |-> topK, offset |-> offset,
   sample |-> sample, silent |-> silent, lexical |-> None, vector |-> None,
   status |-> 0, results |-> <<>>, total |-> 0, exhaustive |-> TRUE, hasMore |-> FALSE]

Becomes(s, call) == calls' = [calls EXCEPT ![s] = call]

Replied(call, status) == [call EXCEPT !.stage = "replied", !.status = status]

Init ==
  /\ open \in Open
  /\ stamp = [d \in Documents |-> 1]
  /\ edits = 1
  /\ calls = [s \in Slots |-> NoCall]
  /\ tab = [arrived |-> FALSE, busy |-> FALSE, address |-> None, ignored |-> FALSE,
            ran |-> None, shown |-> None, mode |-> "blank", live |-> FALSE]
  /\ walk = [query |-> None, mode |-> None, offset |-> 0, since |-> 0,
             seen |-> <<>>, exhaustive |-> TRUE, over |-> FALSE]
  /\ windows = <<>>
  /\ served = [n \in Networks |-> [age \in 0..(Window - 1) |-> 0]]
  /\ requests = 0

-----------------------------------------------------------------------------
(* The embed pass and the crawls, as far as a search can see them.         *)

EmbedDocument(d) ==
  /\ edits < MaxEdits + 1
  /\ edits' = edits + 1
  /\ stamp' = [stamp EXCEPT ![d] = edits']
  /\ UNCHANGED <<open, calls, tab, walk, limiter, requests>>

Evict(d) ==
  /\ edits < MaxEdits + 1
  /\ stamp[d] # 0
  /\ edits' = edits + 1
  /\ stamp' = [stamp EXCEPT ![d] = 0]
  /\ UNCHANGED <<open, calls, tab, walk, limiter, requests>>

-----------------------------------------------------------------------------
(* The limiter: a map from network to the requests of its window.          *)

Live(window) == window.left > 0

\* Mutant of Sweep: expiry alone.
SweepExpired == Selected(windows, {n \in 1..Len(windows) : Live(windows[n])})

\* Expired windows go first; if that frees nothing, the first half inserted.
Sweep ==
  LET live == Selected(windows, {n \in 1..Len(windows) : Live(windows[n])}) IN
  IF Len(live) >= MAX_KEYS
  THEN SubSeq(live, Len(live) - (MAX_KEYS \div 2) + 1, Len(live)) ELSE live

Swept == IF Len(windows) >= MAX_KEYS THEN Sweep ELSE windows

Keys(map) == {map[n].key : n \in 1..Len(map)}

\* A window that is renewed keeps its place in the map.
Counted(map, key) ==
  IF key \notin Keys(map)
  THEN Append(map, [key |-> key, count |-> 1, left |-> Window])
  ELSE [n \in 1..Len(map) |->
          IF map[n].key # key THEN map[n]
          ELSE IF Live(map[n]) THEN [map[n] EXCEPT !.count = @ + 1]
          ELSE [map[n] EXCEPT !.count = 1, !.left = Window]]

Allowed(map, key) == \A n \in 1..Len(map) : map[n].key = key => map[n].count <= Limit

\* Whoever's live window was swept has its allowance back.
Check(key, allowed) ==
  LET given == {windows[n].key : n \in {m \in 1..Len(windows) : Live(windows[m])}} \ Keys(Swept)
  IN
  /\ windows' = Counted(Swept, key)
  /\ allowed = Allowed(windows', key)
  /\ served' = [n \in Networks |->
       LET before == IF n \in given THEN [age \in DOMAIN served[n] |-> 0] ELSE served[n]
       IN  IF n = key /\ allowed THEN [before EXCEPT ![0] = @ + 1] ELSE before]

Tick ==
  /\ \E n \in 1..Len(windows) : Live(windows[n])
  /\ windows' = [n \in 1..Len(windows) |->
       [windows[n] EXCEPT !.left = IF @ > 0 THEN @ - 1 ELSE 0]]
  /\ served' = [n \in Networks |-> [age \in DOMAIN served[n] |->
       IF age = 0 THEN 0 ELSE served[n][age - 1]]]
  /\ UNCHANGED <<open, store, calls, tab, walk, requests>>

\* Somebody else's request.
Visit(n) ==
  /\ open
  /\ requests < MaxRequests
  /\ requests' = requests + 1
  /\ \E allowed \in BOOLEAN : Check(n, allowed)
  /\ UNCHANGED <<open, store, calls, tab, walk>>

-----------------------------------------------------------------------------
(* A request.                                                              *)

\* The free route looks at its switch and at the limiter, the metered one is
\* Commission's business.
Admit(s) ==
  LET call == calls[s]
      on   == [call EXCEPT !.stage = "arms",
                           !.lexical = IF call.mode = "vector" THEN <<>> ELSE None,
                           !.vector = IF call.mode = "lexical" THEN <<>> ELSE None]
  IN
  /\ call.stage = "sent"
  /\ \/ s = "agent" /\ Becomes(s, on) /\ UNCHANGED limiter
     \/ s # "agent" /\ ~open /\ Becomes(s, Replied(call, 404)) /\ UNCHANGED limiter
     \/ /\ s # "agent" /\ open
        /\ \E allowed \in BOOLEAN :
             /\ Check(Home, allowed)
             /\ Becomes(s, IF allowed THEN on ELSE Replied(call, 429))
  /\ UNCHANGED <<open, store, tab, walk, requests>>

LexicalArm(s) ==
  /\ calls[s].stage = "arms"
  /\ calls[s].lexical = None
  /\ Becomes(s, [calls[s] EXCEPT !.lexical = Retrieved(Lexical[calls[s].query], calls[s].offset)])
  /\ UNCHANGED <<open, store, tab, walk, limiter, requests>>

VectorArm(s) ==
  /\ calls[s].stage = "arms"
  /\ calls[s].vector = None
  /\ Becomes(s, [calls[s] EXCEPT !.vector = Retrieved(Nearest[calls[s].query], calls[s].offset)])
  /\ UNCHANGED <<open, store, tab, walk, limiter, requests>>

\* The page, and the rows of it that are still there.
Lookup(s) ==
  LET call       == calls[s]
      documents  == Ranking(call.lexical, call.vector)
      page       == SubSeq(documents, call.offset + 1,
                           Smaller(call.offset + call.topK, Len(documents)))
      exhaustive == Len(call.lexical) < candidates /\ Len(call.vector) < candidates
      found      == Selected(page, {n \in 1..Len(page) :
                      stamp[DocumentOf[page[n].passage]] = page[n].stamp})
  IN
  /\ call.stage = "arms"
  /\ call.lexical # None /\ call.vector # None
  /\ Becomes(s, [Replied(call, 200) EXCEPT
       !.lexical = None, !.vector = None,
       !.results = DocumentsOf(found), !.total = Len(documents), !.exhaustive = exhaustive,
       !.hasMore = IF page = <<>> THEN ~exhaustive /\ Len(documents) > 0
                   ELSE call.offset + Len(page) < Len(documents) \/ ~exhaustive])
  /\ UNCHANGED <<open, store, tab, walk, limiter, requests>>

-----------------------------------------------------------------------------
(* The agent, which walks the pages of one query.                          *)

AskPage(query, mode, offset) == Becomes("agent", Sent(query, mode, PageSize, offset, FALSE, FALSE))

SetOut(query, mode) ==
  /\ walk.query = None
  /\ requests' = requests + MaxOffset
  /\ requests' <= MaxRequests
  /\ walk' = [walk EXCEPT !.query = query, !.mode = mode, !.since = edits]
  /\ AskPage(query, mode, 0)
  /\ UNCHANGED <<open, store, tab, limiter>>

\* On while there is more.
TurnPage ==
  LET call == calls["agent"]
      next == Smaller(walk.offset + PageSize, MaxOffset)
  IN
  /\ call.stage = "replied"
  /\ walk' = [walk EXCEPT !.seen = @ \o call.results,
                          !.exhaustive = call.exhaustive,
                          !.offset = next,
                          !.over = ~call.hasMore]
  /\ IF call.hasMore THEN AskPage(walk.query, walk.mode, next) ELSE Becomes("agent", NoCall)
  /\ UNCHANGED <<open, store, tab, limiter, requests>>

-----------------------------------------------------------------------------
(* The box.                                                                *)

\* Mutant of Blocked: the button is disabled, and that is all.
NeverBlocked(t) == FALSE

\* One request at a time.
Blocked(t) == t.busy

\* run: what is asked while a request is under way is not asked.
Run(t, query, sample, silent) ==
  LET s == IF calls["box"] = NoCall THEN "box" ELSE "box2" IN
  IF Blocked(t) \/ calls[s] # NoCall
  THEN tab' = [t EXCEPT !.ignored = TRUE] /\ UNCHANGED <<calls, requests>>
  ELSE /\ requests < MaxRequests
       /\ requests' = requests + 1
       /\ tab' = [t EXCEPT !.busy = TRUE, !.ignored = FALSE,
                           !.ran = [query |-> query, sample |-> sample]]
       /\ Becomes(s, Sent(query, "hybrid", IF sample THEN 2 ELSE 5, 0, sample, silent))

\* Which sample is drawn is left open.
Sample(silent) ==
  \E query \in Samples :
    Run([tab EXCEPT !.arrived = TRUE, !.address = None], query, TRUE, silent)

Arrive ==
  /\ ~tab.arrived
  /\ \/ Sample(TRUE)
     \/ \E query \in Typed :
          Run([tab EXCEPT !.arrived = TRUE, !.address = query], query, FALSE, FALSE)
  /\ UNCHANGED <<open, store, walk, limiter>>

\* The address is changed before the search is tried.
Submit(query) ==
  /\ tab.arrived
  /\ Run([tab EXCEPT !.address = query], query, FALSE, FALSE)
  /\ UNCHANGED <<open, store, walk, limiter>>

Refresh ==
  /\ tab.arrived
  /\ ~tab.busy
  /\ Cardinality(Samples) > 1
  /\ Sample(FALSE)
  /\ UNCHANGED <<open, store, walk, limiter>>

\* Only where entries are rendered.
Badge(call) == call.status = 200 /\ call.results # <<>>

\* The caption for an answer.
Caption(call) ==
  CASE call.status = 429 -> "limit"
    [] call.status \notin {200, 429} -> IF call.silent THEN "sample" ELSE "empty"
    [] call.status = 200 /\ call.results = <<>> ->
         IF call.silent THEN "commissioning" ELSE "empty"
    [] OTHER -> IF call.sample THEN "sample" ELSE "results"

Show(s) ==
  LET call == calls[s] IN
  /\ s # "agent"
  /\ call.stage = "replied"
  /\ tab' = [tab EXCEPT !.busy = FALSE, !.mode = Caption(call), !.live = Badge(call),
                        !.shown = [query |-> call.query, sample |-> call.sample]]
  /\ Becomes(s, NoCall)
  /\ UNCHANGED <<open, store, walk, limiter, requests>>

\* The request, or its answer, is lost, or the server fails.
Lose(s) ==
  /\ s # "agent"
  /\ calls[s].stage \in {"sent", "arms"}
  /\ Becomes(s, Replied([calls[s] EXCEPT !.lexical = None, !.vector = None], 500))
  /\ UNCHANGED <<open, store, tab, walk, limiter, requests>>

-----------------------------------------------------------------------------
Serve(s) == Admit(s) \/ LexicalArm(s) \/ VectorArm(s) \/ Lookup(s)

Next ==
  \/ \E d \in Documents : EmbedDocument(d) \/ Evict(d)
  \/ Tick
  \/ \E n \in Networks : Visit(n)
  \/ \E s \in Slots : Serve(s) \/ Show(s) \/ Lose(s)
  \/ \E query \in Typed, mode \in Modes : SetOut(query, mode)
  \/ TurnPage
  \/ Arrive
  \/ \E query \in Typed : Submit(query)
  \/ Refresh

Spec == Init /\ [][Next]_vars

\* A request is answered, an agent that has begun goes on.
FairSpec == Spec /\ WF_vars(Serve("agent")) /\ WF_vars(TurnPage)

-----------------------------------------------------------------------------
(* Properties.                                                             *)

Hits == [passage : Passages, stamp : 1..(MaxEdits + 1)]

Ran == [query : Queries, sample : BOOLEAN]

TypeOK ==
  /\ open \in BOOLEAN
  /\ stamp \in [Documents -> 0..edits] /\ edits \in 1..(MaxEdits + 1)
  /\ \A s \in Slots : calls[s] # NoCall =>
       /\ calls[s].stage \in {"sent", "arms", "replied"}
       /\ \A arm \in {calls[s].lexical, calls[s].vector} : arm # None =>
            arm \in Seq(Hits) /\ IsInjective(arm) /\ Len(arm) <= candidates
       /\ IsInjective(calls[s].results) /\ Len(calls[s].results) <= calls[s].topK
  /\ {tab.ran, tab.shown} \subseteq Ran \cup {None}
  /\ tab.address \in Queries \cup {None}
  /\ tab.mode \in {"blank", "sample", "results", "empty", "limit", "commissioning"}
  /\ walk.seen \in Seq(Documents)
  /\ walk.offset \in 0..MaxOffset
  /\ windows \in Seq([key : Networks, count : 1..MaxRequests, left : 0..Window])
  /\ requests \in 0..MaxRequests

\* What the walk's arms would report now, and one page as long as all of them.
LexicalNow == IF walk.mode = "vector" THEN <<>> ELSE Retrieved(Lexical[walk.query], 0)

VectorNow == IF walk.mode = "lexical" THEN <<>> ELSE Retrieved(Nearest[walk.query], 0)

Whole == DocumentsOf(Ranking(LexicalNow, VectorNow))

\* Every document that has a passage the query could be answered with, now.
Matching ==
  {DocumentOf[p] : p \in {p \in Passages :
     /\ stamp[DocumentOf[p]] # 0
     /\ p \in (IF walk.mode = "vector" THEN {} ELSE Range(Lexical[walk.query]))
           \cup (IF walk.mode = "lexical" THEN {} ELSE Range(Nearest[walk.query]))}}

\* While nothing in the store changes, the pages of a walk put together are what
\* one long page would have shown: nothing twice, nothing missing, nothing out of
\* its place (SearchOptions.offset, "pages cannot overlap or shift under the
\* reader"); and a walk that ends has seen every match there is.
WalkIsWhole ==
  walk.query # None /\ walk.since = edits =>
    /\ walk.seen = First(walk.offset, Whole)
    /\ walk.over => walk.exhaustive /\ Range(walk.seen) = Matching

\* The ledger of a box that waits for nothing answers the search that was sent
\* last, says LIVE over entries only, and stands under the address of that search
\* unless a search typed meanwhile was ignored (search.js, "so the badge and the
\* contents cannot disagree"; "out of order").
BoxTellsTruth ==
  ~tab.busy =>
    /\ tab.shown = tab.ran
    /\ tab.live => tab.mode = (IF tab.shown.sample THEN "sample" ELSE "results")
    /\ tab.mode = "results" => tab.live
    /\ tab.shown # None /\ ~tab.ignored =>
         tab.address = (IF tab.shown.sample THEN None ELSE tab.shown.query)

\* One for each request that was let through within the length of a window.
Tokens(ages) == UNION {{age} \X (1..ages[age]) : age \in DOMAIN ages}

ServedLately(n) == Cardinality(Tokens(served[n]))

\* Whoever asks, a network gets at most two limits' worth in the length of one
\* window, and is not refused before it had one, unless its window was swept away;
\* and the limiter never remembers more networks than it is meant to.
FreeShare ==
  /\ Len(windows) <= MAX_KEYS
  /\ \A m, n \in 1..Len(windows) : m # n => windows[m].key # windows[n].key
  /\ \A n \in Networks : ServedLately(n) <= 2 * Limit
  /\ \A n \in 1..Len(windows) : Live(windows[n]) =>
       \/ ServedLately(windows[n].key) >= windows[n].count
       \/ ServedLately(windows[n].key) >= Limit

\* An agent that pages with hasMore, as the README tells it to, comes to an end
\* (search/search.config.ts, "paging is bounded by the documents it yields").
WalkEnds == (walk.query # None) ~> walk.over
=============================================================================
