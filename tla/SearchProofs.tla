---------------------------- MODULE SearchProofs ----------------------------
(***************************************************************************)
(* Theorems about Search, for any passages, orders of them, queries,       *)
(* networks, limits and windows, and any interleaving of readers, agents,  *)
(* embeddings and evictions.                                               *)
(***************************************************************************)
EXTENDS RankingProofs

-----------------------------------------------------------------------------
(* The inductive invariant.                                                *)

Arms == {arm \in Seq(Hits) : IsInjective(arm) /\ Len(arm) <= candidates}

Answers == {ds \in Seq(Documents) : IsInjective(ds)}

Call == [stage : {"sent", "arms", "replied"}, query : Queries,
         mode : {"hybrid", "lexical", "vector"}, topK : Nat, offset : 0..MaxOffset,
         sample : BOOLEAN, silent : BOOLEAN, lexical : Arms \cup {None}, vector : Arms \cup {None},
         status : Nat, results : Answers, total : Nat, exhaustive : BOOLEAN, hasMore : BOOLEAN]

Tab == [arrived : BOOLEAN, busy : BOOLEAN, address : Queries \cup {None}, ignored : BOOLEAN,
        ran : Ran \cup {None}, shown : Ran \cup {None},
        mode : {"blank", "sample", "results", "empty", "limit", "commissioning"}, live : BOOLEAN]

Walk == [query : Typed \cup {None}, mode : Modes \cup {None}, offset : 0..MaxOffset, since : Nat,
         seen : Seq(Documents), exhaustive : BOOLEAN, over : BOOLEAN]

Entry == [key : Networks, count : Nat \ {0}, left : 0..Window]

StoreInv ==
  /\ open \in BOOLEAN
  /\ edits \in 1..(MaxEdits + 1)
  /\ stamp \in [Documents -> 0..edits]
  /\ requests \in 0..MaxRequests

CallsInv ==
  /\ calls \in [Slots -> Call \cup {NoCall}]
  /\ \A s \in Slots : calls[s] # NoCall => Len(calls[s].results) <= calls[s].topK

\* The box waits for at most one request, and it is of the search that ran last.
BoxInv ==
  /\ tab \in Tab
  /\ calls["box2"] = NoCall
  /\ tab.busy <=> calls["box"] # NoCall
  /\ tab.busy =>
       /\ tab.ran = [query |-> calls["box"].query, sample |-> calls["box"].sample]
       /\ ~tab.ignored => tab.address = IF calls["box"].sample THEN None ELSE calls["box"].query
  /\ BoxTellsTruth

\* An agent that has not set out has nothing under way.
AgentInv ==
  /\ walk \in Walk
  /\ walk.query = None =>
       walk.seen = <<>> /\ walk.offset = 0 /\ ~walk.over /\ calls["agent"] = NoCall
  /\ walk.query # None => walk.mode \in Modes

BaseInv == StoreInv /\ CallsInv /\ BoxInv /\ AgentInv

\* A window counts requests that were made, and not the one on its way.
CountInv ==
  /\ windows \in Seq(Entry)
  /\ calls["box"].stage = "sent" => requests >= 1
  /\ \A n \in 1..Len(windows) :
       windows[n].count <= IF calls["box"].stage = "sent" THEN requests - 1 ELSE requests

-----------------------------------------------------------------------------
(* Walks.                                                                  *)

\* Whether both arms have been seen to the end.
Short == Len(LexicalNow) < candidates /\ Len(VectorNow) < candidates

\* The request of a walk that nothing has disturbed, and its answer.
Undisturbed(call) ==
  /\ call \in Call
  /\ call.query = walk.query /\ call.mode = walk.mode
  /\ call.offset = walk.offset /\ call.topK = PageSize
  /\ call.stage = "arms" =>
       /\ call.lexical = LexicalNow \/ (call.lexical = None /\ call.mode # "vector")
       /\ call.vector = VectorNow \/ (call.vector = None /\ call.mode # "lexical")
  /\ call.stage = "replied" =>
       /\ call.results = SubSeq(Whole, walk.offset + 1, Smaller(walk.offset + PageSize, Len(Whole)))
       /\ call.exhaustive = Short
       /\ call.hasMore = IF walk.offset >= Len(Whole) THEN ~Short /\ Len(Whole) > 0
                         ELSE walk.offset + PageSize < Len(Whole) \/ ~Short

WalkInv ==
  /\ walk.since <= edits
  /\ walk.query # None /\ walk.since = edits =>
       /\ IF walk.over THEN calls["agent"] = NoCall ELSE Undisturbed(calls["agent"])
       /\ WalkIsWhole

-----------------------------------------------------------------------------
(* Windows.                                                                *)

Ages == [0..(Window - 1) -> Nat]

\* The tokens that are at most, and more than, so old.
Recent(ages, old) == {t \in Tokens(ages) : t[1] <= old}

Older(ages, old) == {t \in Tokens(ages) : t[1] > old}

ServedInv ==
  /\ served \in [Networks -> Ages]
  /\ \A n \in Networks : IsFiniteSet(Tokens(served[n]))

OneWindowEach(map) == \A m, n \in 1..Len(map) : m # n => map[m].key # map[n].key

KeysInv ==
  /\ Len(windows) <= MAX_KEYS
  /\ OneWindowEach(windows)

\* Since its window began a network was served as often as it was counted, up to the
\* limit, and before that at most a limit; without one, nothing is as recent as now.
ShareInv ==
  /\ \A n \in 1..Len(windows) : Live(windows[n]) =>
       LET w == windows[n] IN
       /\ Cardinality(Recent(served[w.key], Window - w.left)) = Smaller(w.count, Limit)
       /\ Cardinality(Older(served[w.key], Window - w.left)) <= Limit
  /\ \A key \in Networks : (\A n \in 1..Len(windows) : windows[n].key = key => ~Live(windows[n])) =>
       /\ Recent(served[key], 0) = {}
       /\ Cardinality(Tokens(served[key])) <= Limit

-----------------------------------------------------------------------------
(* Types.                                                                  *)

LEMMA Constants ==
  /\ {candidates, PageSize, Limit, Window, MAX_KEYS} \subseteq Nat \ {0}
  /\ {rrfK, MaxEdits, MaxRequests, MaxOffset} \subseteq Nat
  /\ None \notin Queries /\ None # <<>> /\ Home \in Networks
  /\ Typed \subseteq Queries /\ Samples \subseteq Queries
BY SearchAssumption DEF Queries

LEMMA Nothing == <<>> \in Arms /\ <<>> \in Answers /\ Len(<<>>) = 0
<1>1. \A S : <<>> \in Seq(S) /\ Len(<<>>) = 0
  BY EmptySeq
<1>2. IsInjective(<<>>)
  BY DEF IsInjective
<1>3. 0 <= candidates
  BY Constants
<1>4. QED
  BY <1>1, <1>2, <1>3 DEF Arms, Answers

LEMMA CallFields ==
  ASSUME NEW call \in Call
  PROVE  /\ call # NoCall /\ call.stage # "free" /\ call.stage \in {"sent", "arms", "replied"}
         /\ call.query \in Queries /\ call.mode \in {"hybrid", "lexical", "vector"}
         /\ call.topK \in Nat /\ call.offset \in 0..MaxOffset
         /\ call.lexical \in Arms \cup {None} /\ call.vector \in Arms \cup {None}
         /\ call.results \in Answers /\ call.sample \in BOOLEAN /\ call.silent \in BOOLEAN
         /\ call.hasMore \in BOOLEAN /\ call.exhaustive \in BOOLEAN /\ call.status \in Nat
BY DEF Call, NoCall

LEMMA SentIs ==
  ASSUME NEW query \in Queries, NEW mode \in {"hybrid", "lexical", "vector"}, NEW topK \in Nat,
         NEW offset \in 0..MaxOffset, NEW sample \in BOOLEAN, NEW silent \in BOOLEAN
  PROVE  LET call == Sent(query, mode, topK, offset, sample, silent)
         IN  /\ call \in Call /\ Len(call.results) <= call.topK
             /\ call.stage = "sent" /\ call.query = query /\ call.mode = mode
             /\ call.topK = topK /\ call.offset = offset
             /\ call.sample = sample /\ call.silent = silent
BY Nothing DEF Sent, Call

LEMMA RepliedIs ==
  ASSUME NEW call \in Call, NEW status \in Nat
  PROVE  LET answer == Replied(call, status)
         IN  /\ answer \in Call /\ answer.stage = "replied" /\ answer.status = status
             /\ answer.query = call.query /\ answer.sample = call.sample
             /\ answer.topK = call.topK /\ answer.offset = call.offset /\ answer.mode = call.mode
             /\ answer.results = call.results
<1> DEFINE answer == Replied(call, status)
<1>1. answer = [call EXCEPT !.stage = "replied", !.status = status]
  BY DEF Replied
<1>2. answer \in Call
  BY <1>1 DEF Call
<1>3. /\ answer.stage = "replied" /\ answer.status = status
      /\ answer.query = call.query /\ answer.sample = call.sample
      /\ answer.topK = call.topK /\ answer.offset = call.offset /\ answer.mode = call.mode
      /\ answer.results = call.results
  BY <1>1 DEF Call
<1>4. QED
  BY <1>2, <1>3

LEMMA ArmIs ==
  ASSUME StoreInv, NEW query \in Queries, NEW order \in {Lexical[query], Nearest[query]}, NEW offset
  PROVE  Retrieved(order, offset) \in Arms
<1>1. order \in Seq(Passages) /\ IsInjective(order)
  BY SearchAssumption
<1>2. MaxEdits \in Nat
  BY Constants
<1>3. stamp \in [Documents -> 0..(MaxEdits + 1)]
  <2>1. 0..edits \subseteq 0..(MaxEdits + 1)
    BY <1>2 DEF StoreInv
  <2> QED BY <2>1 DEF StoreInv
<1>4. QED
  BY <1>1, <1>3, RetrievedIs DEF Arms

\* The answer of a lookup.
LEMMA LookupIs ==
  ASSUME CallsInv, NEW s \in Slots, Lookup(s)
  PROVE  /\ calls' = [calls EXCEPT ![s] = calls'[s]]
         /\ calls'[s] \in Call /\ calls'[s].stage = "replied" /\ calls'[s].status = 200
         /\ Len(calls'[s].results) <= calls'[s].topK
         /\ calls'[s].query = calls[s].query /\ calls'[s].sample = calls[s].sample
<1> DEFINE call == calls[s]
           documents == Ranking(call.lexical, call.vector)
           page == SubSeq(documents, call.offset + 1, Smaller(call.offset + call.topK, Len(documents)))
           exhaustive == Len(call.lexical) < candidates /\ Len(call.vector) < candidates
           I == {n \in 1..Len(page) : stamp[DocumentOf[page[n].passage]] = page[n].stamp}
           shown == DocumentsOf(Selected(page, I))
           more == IF page = <<>> THEN ~exhaustive /\ Len(documents) > 0
                   ELSE call.offset + Len(page) < Len(documents) \/ ~exhaustive
           base == Replied(call, 200)
           answer == [base EXCEPT
                        !.lexical = None, !.vector = None, !.results = shown,
                        !.total = Len(documents), !.exhaustive = exhaustive, !.hasMore = more]
<1>1. call.stage = "arms" /\ call.lexical # None /\ call.vector # None /\ calls' = [calls EXCEPT ![s] = answer]
  BY DEF Lookup, Becomes
<1>2. call \in Call
  <2> HIDE DEF documents, page, exhaustive, I, shown, more, base, answer
  <2>1. call.stage = "arms"
    BY <1>1
  <2> QED BY <2>1 DEF CallsInv, NoCall
<1>3. /\ call.lexical \in Seq(Hits) /\ call.vector \in Seq(Hits)
      /\ call.offset \in Nat /\ call.topK \in Nat
  <2> HIDE DEF documents, page, exhaustive, I, shown, more, base, answer
  <2>1. /\ call.lexical \in Arms \cup {None} /\ call.vector \in Arms \cup {None}
        /\ call.offset \in Nat /\ call.topK \in Nat
    BY <1>2, CallFields, Constants
  <2> QED BY <1>1, <2>1 DEF Arms
<1>4. documents \in Seq(Hits) /\ OnePerDocument(documents)
  BY <1>3, RankingIs DEF OnePerDocument
<1>5. shown \in Seq(Documents) /\ IsInjective(shown) /\ Len(shown) <= call.topK
  BY <1>3, <1>4, PageOfDocuments
<1>6. Len(documents) \in Nat
  BY <1>4, LenProperties
<1>7. exhaustive \in BOOLEAN /\ more \in BOOLEAN
  OBVIOUS
<1> HIDE DEF documents, exhaustive, shown, more
<1>8. shown \in Answers
  BY <1>5 DEF Answers
<1>9. answer \in Call /\ answer.stage = "replied" /\ answer.status = 200 /\ answer.results = shown
      /\ answer.topK = call.topK /\ answer.query = call.query /\ answer.sample = call.sample
  <2>1. /\ base \in Call /\ base.stage = "replied" /\ base.status = 200
        /\ base.topK = call.topK /\ base.query = call.query /\ base.sample = call.sample
    BY <1>2, RepliedIs
  <2> HIDE DEF base, call
  <2>2. answer \in Call
    BY <1>6, <1>7, <1>8, <2>1 DEF Call
  <2>3. /\ answer.stage = base.stage /\ answer.status = base.status /\ answer.results = shown
        /\ answer.topK = base.topK /\ answer.query = base.query /\ answer.sample = base.sample
    BY <2>1 DEF Call
  <2> QED BY <2>1, <2>2, <2>3
<1> HIDE DEF answer
<1>10. calls'[s] = answer
  BY <1>1 DEF CallsInv
<1>11. QED
  BY <1>1, <1>5, <1>9, <1>10

-----------------------------------------------------------------------------
(* What the box asks.                                                      *)

OneAtATime ==
  /\ tab \in Tab
  /\ calls["box2"] = NoCall
  /\ tab.busy <=> calls["box"] # NoCall

\* The tab as a search is tried, and what comes of it.
Asked(query, sample) == [tab EXCEPT !.arrived = TRUE, !.address = IF sample THEN None ELSE query]

Ignores(query, sample) ==
  /\ tab.busy
  /\ tab' = [Asked(query, sample) EXCEPT !.ignored = TRUE]
  /\ UNCHANGED <<calls, requests>>

Asks(query, sample, silent) ==
  /\ ~tab.busy
  /\ requests < MaxRequests
  /\ requests' = requests + 1
  /\ tab' = [Asked(query, sample) EXCEPT !.busy = TRUE, !.ignored = FALSE,
                                         !.ran = [query |-> query, sample |-> sample]]
  /\ calls' = [calls EXCEPT
       !["box"] = Sent(query, "hybrid", IF sample THEN 2 ELSE 5, 0, sample, silent)]

LEMMA RunIs ==
  ASSUME OneAtATime, NEW query, NEW sample, NEW silent, Run(Asked(query, sample), query, sample, silent)
  PROVE  Ignores(query, sample) \/ Asks(query, sample, silent)
<1> DEFINE t == Asked(query, sample)
           s == IF calls["box"] = NoCall THEN "box" ELSE "box2"
<1>1. t.busy = tab.busy
  BY DEF OneAtATime, Tab, Asked
<1>2. \/ /\ t.busy \/ calls[s] # NoCall
         /\ tab' = [t EXCEPT !.ignored = TRUE] /\ UNCHANGED <<calls, requests>>
      \/ /\ ~(t.busy \/ calls[s] # NoCall)
         /\ requests < MaxRequests
         /\ requests' = requests + 1
         /\ tab' = [t EXCEPT !.busy = TRUE, !.ignored = FALSE,
                             !.ran = [query |-> query, sample |-> sample]]
         /\ calls' = [calls EXCEPT
              ![s] = Sent(query, "hybrid", IF sample THEN 2 ELSE 5, 0, sample, silent)]
  BY Zenon DEF Run, Blocked, Becomes
<1> HIDE DEF t
<1>3. CASE tab.busy
  BY <1>1, <1>2, <1>3 DEF Ignores, t
<1>4. CASE ~tab.busy
  <2>1. calls["box"] = NoCall
    BY <1>4 DEF OneAtATime
  <2>2. s = "box" /\ calls[s] = NoCall
    BY <2>1
  <2> HIDE DEF s
  <2> QED BY <1>1, <1>2, <1>4, <2>2 DEF Asks, t
<1>5. QED
  BY <1>3, <1>4

LEMMA BoxAsks ==
  ASSUME OneAtATime, Arrive \/ (\E query \in Typed : Submit(query)) \/ Refresh
  PROVE  /\ UNCHANGED <<open, store, walk, limiter>>
         /\ \E query \in Queries, sample, silent \in BOOLEAN :
              Ignores(query, sample) \/ Asks(query, sample, silent)
<1>1. ASSUME NEW silent \in BOOLEAN, Sample(silent)
      PROVE  \E query \in Queries, sample, quiet \in BOOLEAN :
               Ignores(query, sample) \/ Asks(query, sample, quiet)
  <2>1. PICK query \in Samples :
          Run([tab EXCEPT !.arrived = TRUE, !.address = None], query, TRUE, silent)
    BY <1>1 DEF Sample
  <2>2. Run(Asked(query, TRUE), query, TRUE, silent)
    BY <2>1 DEF Asked
  <2>3. Ignores(query, TRUE) \/ Asks(query, TRUE, silent)
    BY <2>2, RunIs
  <2>4. query \in Queries
    BY DEF Queries
  <2> QED BY <2>3, <2>4
<1>2. ASSUME NEW query \in Typed,
             Run([tab EXCEPT !.arrived = TRUE, !.address = query], query, FALSE, FALSE)
      PROVE  \E q \in Queries, sample, quiet \in BOOLEAN :
               Ignores(q, sample) \/ Asks(q, sample, quiet)
  <2>1. Run(Asked(query, FALSE), query, FALSE, FALSE)
    BY <1>2 DEF Asked
  <2>2. Ignores(query, FALSE) \/ Asks(query, FALSE, FALSE)
    BY <2>1, RunIs
  <2>3. query \in Queries
    BY DEF Queries
  <2> QED BY <2>2, <2>3
<1>3. CASE Arrive
  BY <1>1, <1>2, <1>3 DEF Arrive
<1>4. ASSUME NEW query \in Typed, Submit(query)
      PROVE  /\ UNCHANGED <<open, store, walk, limiter>>
             /\ Run([tab EXCEPT !.arrived = TRUE, !.address = query], query, FALSE, FALSE)
  <2>1. [tab EXCEPT !.address = query] = [tab EXCEPT !.arrived = TRUE, !.address = query]
    BY <1>4 DEF Submit, OneAtATime, Tab
  <2> QED BY <1>4, <2>1 DEF Submit
<1>5. CASE Refresh
  BY <1>1, <1>5 DEF Refresh
<1>6. QED
  BY <1>2, <1>3, <1>4, <1>5

-----------------------------------------------------------------------------
(* Requests keep their types.                                              *)

\* The request at s goes on, as the request it is.
GoesOn(s) ==
  /\ calls[s] # NoCall
  /\ calls' = [calls EXCEPT ![s] = calls'[s]]
  /\ calls'[s] \in Call
  /\ Len(calls'[s].results) <= calls'[s].topK
  /\ calls'[s].query = calls[s].query /\ calls'[s].sample = calls[s].sample
  /\ UNCHANGED <<open, store, tab, walk, requests>>

LEMMA ServedGoesOn ==
  ASSUME StoreInv, CallsInv, NEW s \in Slots, Serve(s) \/ Lose(s)
  PROVE  GoesOn(s)
<1> DEFINE call == calls[s]
<1>1. ASSUME NEW next \in Call, calls' = [calls EXCEPT ![s] = next], call \in Call,
             next.results = call.results, next.topK = call.topK,
             next.query = call.query, next.sample = call.sample,
             UNCHANGED <<open, store, tab, walk, requests>>
      PROVE  GoesOn(s)
  <2>1. calls'[s] = next
    BY <1>1 DEF CallsInv
  <2>2. call # NoCall /\ Len(next.results) <= next.topK
    BY <1>1, CallFields DEF CallsInv
  <2> QED BY <1>1, <2>1, <2>2 DEF GoesOn
<1>2. call.stage # "free" => call \in Call
  BY DEF CallsInv, NoCall
<1>3. CASE Admit(s)
  <2> DEFINE on == [call EXCEPT !.stage = "arms",
                                !.lexical = IF call.mode = "vector" THEN <<>> ELSE None,
                                !.vector = IF call.mode = "lexical" THEN <<>> ELSE None]
  <2>1. call \in Call /\ UNCHANGED <<open, store, tab, walk, requests>>
    BY <1>2, <1>3 DEF Admit
  <2>2. calls' \in {[calls EXCEPT ![s] = on]} \cup
                   {[calls EXCEPT ![s] = Replied(call, status)] : status \in {404, 429}}
    BY <1>3 DEF Admit, Becomes
  <2>3. /\ on \in Call /\ on.results = call.results /\ on.topK = call.topK
        /\ on.query = call.query /\ on.sample = call.sample
    <3> HIDE DEF call
    <3>1. (IF call.mode = "vector" THEN <<>> ELSE None) \in Arms \cup {None}
      BY Nothing
    <3>2. (IF call.mode = "lexical" THEN <<>> ELSE None) \in Arms \cup {None}
      BY Nothing
    <3> QED BY <2>1, <3>1, <3>2 DEF Call
  <2> HIDE DEF on
  <2>4. CASE calls' = [calls EXCEPT ![s] = on]
    BY <1>1, <2>1, <2>3, <2>4
  <2>5. ASSUME NEW status \in {404, 429}, calls' = [calls EXCEPT ![s] = Replied(call, status)]
        PROVE  GoesOn(s)
    <3>1. Replied(call, status) \in Call /\ Replied(call, status).results = call.results
          /\ Replied(call, status).topK = call.topK /\ Replied(call, status).query = call.query
          /\ Replied(call, status).sample = call.sample
      BY <2>1, RepliedIs
    <3> QED BY <1>1, <2>1, <2>5, <3>1
  <2> QED BY <2>2, <2>4, <2>5
<1>4. CASE LexicalArm(s)
  <2> DEFINE next == [call EXCEPT !.lexical = Retrieved(Lexical[call.query], call.offset)]
  <2>1. call \in Call /\ UNCHANGED <<open, store, tab, walk, requests>>
        /\ calls' = [calls EXCEPT ![s] = next]
    BY <1>2, <1>4 DEF LexicalArm, Becomes
  <2>2. Retrieved(Lexical[call.query], call.offset) \in Arms
    BY <2>1, CallFields, ArmIs
  <2>3. /\ next \in Call /\ next.results = call.results /\ next.topK = call.topK
        /\ next.query = call.query /\ next.sample = call.sample
    <3> HIDE DEF call
    <3> QED BY <2>1, <2>2 DEF Call
  <2> QED BY <1>1, <2>1, <2>3
<1>5. CASE VectorArm(s)
  <2> DEFINE next == [call EXCEPT !.vector = Retrieved(Nearest[call.query], call.offset)]
  <2>1. call \in Call /\ UNCHANGED <<open, store, tab, walk, requests>>
        /\ calls' = [calls EXCEPT ![s] = next]
    BY <1>2, <1>5 DEF VectorArm, Becomes
  <2>2. Retrieved(Nearest[call.query], call.offset) \in Arms
    BY <2>1, CallFields, ArmIs
  <2>3. /\ next \in Call /\ next.results = call.results /\ next.topK = call.topK
        /\ next.query = call.query /\ next.sample = call.sample
    <3> HIDE DEF call
    <3> QED BY <2>1, <2>2 DEF Call
  <2> QED BY <1>1, <2>1, <2>3
<1>6. CASE Lookup(s)
  <2>1. call.stage = "arms" /\ UNCHANGED <<open, store, tab, walk, requests>>
    BY <1>6 DEF Lookup
  <2>2. call # NoCall
    BY <2>1 DEF NoCall
  <2> QED BY <1>6, <2>1, <2>2, LookupIs DEF GoesOn
<1>7. CASE Lose(s)
  <2> DEFINE lost == [call EXCEPT !.lexical = None, !.vector = None]
  <2>1. call \in Call /\ UNCHANGED <<open, store, tab, walk, requests>>
        /\ calls' = [calls EXCEPT ![s] = Replied(lost, 500)]
    BY <1>2, <1>7 DEF Lose, Becomes
  <2>2. /\ lost \in Call /\ lost.results = call.results /\ lost.topK = call.topK
        /\ lost.query = call.query /\ lost.sample = call.sample
    <3> HIDE DEF call
    <3> QED BY <2>1 DEF Call
  <2> HIDE DEF lost
  <2>3. /\ Replied(lost, 500) \in Call /\ Replied(lost, 500).results = call.results
        /\ Replied(lost, 500).topK = call.topK /\ Replied(lost, 500).query = call.query
        /\ Replied(lost, 500).sample = call.sample
    BY <2>2, RepliedIs
  <2> QED BY <1>1, <2>1, <2>3
<1>8. QED
  BY <1>3, <1>4, <1>5, <1>6, <1>7 DEF Serve

-----------------------------------------------------------------------------
(* The agent.                                                              *)

LEMMA AgentAsks ==
  ASSUME BaseInv, TurnPage \/ (\E query \in Typed, mode \in Modes : SetOut(query, mode))
  PROVE  /\ walk' \in Walk /\ walk'.query # None /\ walk'.mode \in Modes
         /\ calls' = [calls EXCEPT !["agent"] = calls'["agent"]]
         /\ calls'["agent"] \in Call \cup {NoCall}
         /\ calls'["agent"] # NoCall => Len(calls'["agent"].results) <= calls'["agent"].topK
         /\ UNCHANGED <<open, store, tab, limiter>>
         /\ requests' \in requests..MaxRequests
<1> DEFINE call == calls["agent"]
<1>1. "agent" \in Slots /\ PageSize \in Nat /\ MaxOffset \in Nat /\ MaxRequests \in Nat
  BY Constants DEF Slots
<1>2. Modes \subseteq {"hybrid", "lexical", "vector"}
  BY SearchAssumption
<1>3. walk \in Walk /\ requests \in 0..MaxRequests /\ edits \in Nat
  BY DEF BaseInv, StoreInv, AgentInv
<1>4. ASSUME NEW query \in Typed, NEW mode \in Modes, NEW offset \in 0..MaxOffset,
             calls' = [calls EXCEPT !["agent"] = Sent(query, mode, PageSize, offset, FALSE, FALSE)]
      PROVE  /\ calls'["agent"] \in Call /\ calls'["agent"] = Sent(query, mode, PageSize, offset, FALSE, FALSE)
             /\ Len(calls'["agent"].results) <= calls'["agent"].topK
  <2>1. calls'["agent"] = Sent(query, mode, PageSize, offset, FALSE, FALSE)
    BY <1>1, <1>4 DEF BaseInv, CallsInv
  <2>2. query \in Queries /\ mode \in {"hybrid", "lexical", "vector"}
    BY <1>2, Constants
  <2> DEFINE asked == Sent(query, mode, PageSize, offset, FALSE, FALSE)
  <2>3. asked \in Call /\ Len(asked.results) <= asked.topK
    BY <1>1, <2>2, Nothing DEF Sent, Call
  <2> HIDE DEF asked
  <2> QED BY <2>1, <2>3 DEF asked
<1>5. ASSUME NEW query \in Typed, NEW mode \in Modes, SetOut(query, mode)
      PROVE  /\ walk' \in Walk /\ walk'.query = query /\ walk'.mode = mode
             /\ calls' = [calls EXCEPT !["agent"] = Sent(query, mode, PageSize, 0, FALSE, FALSE)]
             /\ UNCHANGED <<open, store, tab, limiter>>
             /\ requests' \in requests..MaxRequests
  <2>1. walk' = [walk EXCEPT !.query = query, !.mode = mode, !.since = edits]
    BY <1>5 DEF SetOut
  <2>2. walk' \in Walk /\ walk'.query = query /\ walk'.mode = mode
    BY <1>3, <2>1 DEF Walk
  <2>3. requests' = requests + MaxOffset /\ requests' <= MaxRequests
    BY <1>5 DEF SetOut
  <2>4. requests' \in requests..MaxRequests
    BY <1>1, <1>3, <2>3
  <2>5. /\ calls' = [calls EXCEPT !["agent"] = Sent(query, mode, PageSize, 0, FALSE, FALSE)]
        /\ UNCHANGED <<open, store, tab, limiter>>
    BY <1>5 DEF SetOut, AskPage, Becomes
  <2> QED BY <2>2, <2>4, <2>5
<1>6. ASSUME TurnPage
      PROVE  /\ walk' \in Walk /\ walk'.query = walk.query /\ walk'.mode = walk.mode
             /\ walk.query \in Typed /\ walk.mode \in Modes
             /\ \/ calls' = [calls EXCEPT !["agent"] = NoCall]
                \/ \E offset \in 0..MaxOffset :
                     calls' = [calls EXCEPT !["agent"] =
                       Sent(walk.query, walk.mode, PageSize, offset, FALSE, FALSE)]
             /\ UNCHANGED <<open, store, tab, limiter, requests>>
  <2> DEFINE next == Smaller(walk.offset + PageSize, MaxOffset)
  <2>1. call.stage = "replied" /\ call \in Call
    BY <1>1, <1>6 DEF TurnPage, BaseInv, CallsInv, NoCall
  <2>2. walk.query # None
    BY <2>1, CallFields DEF BaseInv, AgentInv
  <2>3. walk.query \in Typed /\ walk.mode \in Modes
    BY <1>3, <2>2 DEF Walk, BaseInv, AgentInv
  <2>4. walk.offset \in 0..MaxOffset
    BY <1>3 DEF Walk
  <2>5. next \in 0..MaxOffset
    BY <1>1, <2>4 DEF Smaller
  <2>6. walk' = [walk EXCEPT !.seen = @ \o call.results, !.exhaustive = call.exhaustive,
                             !.offset = next, !.over = ~call.hasMore]
    BY <1>6 DEF TurnPage
  <2> HIDE DEF next, call
  <2>7. walk.seen \in Seq(Documents) /\ call.results \in Seq(Documents)
    BY <1>3, <2>1, CallFields DEF Walk, Answers
  <2>8. walk.seen \o call.results \in Seq(Documents)
    BY <2>7, ConcatProperties
  <2>9. call.exhaustive \in BOOLEAN /\ (~call.hasMore) \in BOOLEAN
    BY <2>1, CallFields
  <2>10. walk' \in Walk /\ walk'.query = walk.query /\ walk'.mode = walk.mode
    BY <1>3, <2>5, <2>6, <2>8, <2>9 DEF Walk
  <2>11. \/ calls' = [calls EXCEPT !["agent"] = NoCall]
         \/ calls' = [calls EXCEPT !["agent"] = Sent(walk.query, walk.mode, PageSize, next, FALSE, FALSE)]
    BY <1>6 DEF TurnPage, AskPage, Becomes, next, call
  <2>12. UNCHANGED <<open, store, tab, limiter, requests>>
    BY <1>6 DEF TurnPage
  <2> QED BY <2>3, <2>5, <2>10, <2>11, <2>12
<1>7. CASE TurnPage
  <2>1. walk' \in Walk /\ walk'.query # None /\ walk'.mode \in Modes
    BY <1>6, <1>7, Constants
  <2>2. requests' \in requests..MaxRequests
    BY <1>3, <1>6, <1>7
  <2>3. CASE calls' = [calls EXCEPT !["agent"] = NoCall]
    <3>1. calls'["agent"] = NoCall
      BY <1>1, <2>3 DEF BaseInv, CallsInv
    <3> QED BY <1>6, <1>7, <2>1, <2>2, <2>3, <3>1
  <2>4. ASSUME NEW offset \in 0..MaxOffset,
               calls' = [calls EXCEPT !["agent"] =
                 Sent(walk.query, walk.mode, PageSize, offset, FALSE, FALSE)]
        PROVE  /\ calls' = [calls EXCEPT !["agent"] = calls'["agent"]] /\ calls'["agent"] \in Call
               /\ Len(calls'["agent"].results) <= calls'["agent"].topK
    BY <1>4, <1>6, <1>7, <2>4
  <2> QED BY <1>6, <1>7, <2>1, <2>2, <2>3, <2>4
<1>8. ASSUME NEW query \in Typed, NEW mode \in Modes, SetOut(query, mode)
      PROVE  /\ walk' \in Walk /\ walk'.query # None /\ walk'.mode \in Modes
             /\ calls' = [calls EXCEPT !["agent"] = calls'["agent"]] /\ calls'["agent"] \in Call
             /\ Len(calls'["agent"].results) <= calls'["agent"].topK
             /\ UNCHANGED <<open, store, tab, limiter>>
             /\ requests' \in requests..MaxRequests
  <2>1. 0 \in 0..MaxOffset /\ query # None
    BY <1>1, Constants
  <2> QED BY <1>4, <1>5, <1>8, <2>1
<1>9. QED
  BY <1>7, <1>8

-----------------------------------------------------------------------------
(* Types, and the box.                                                     *)

LEMMA BaseStart ==
  ASSUME Init
  PROVE  BaseInv
<1>1. StoreInv
  BY Constants, SearchAssumption DEF Init, StoreInv
<1>2. CallsInv
  BY DEF Init, CallsInv
<1>3. BoxInv
  BY DEF Init, BoxInv, BoxTellsTruth, Tab, Slots
<1>4. AgentInv
  <2>1. MaxOffset \in Nat /\ <<>> \in Seq(Documents)
    BY Constants, EmptySeq
  <2> QED BY <2>1 DEF Init, AgentInv, Walk, Slots
<1>5. QED
  BY <1>1, <1>2, <1>3, <1>4 DEF BaseInv

LEMMA StoreStep ==
  ASSUME BaseInv, Next
  PROVE  StoreInv' /\ edits <= edits' /\ (edits' = edits => stamp' = stamp)
<1>1. MaxEdits \in Nat /\ MaxRequests \in Nat
  BY Constants
<1>2. /\ open \in BOOLEAN /\ edits \in 1..(MaxEdits + 1) /\ stamp \in [Documents -> 0..edits]
      /\ requests \in 0..MaxRequests
  BY DEF BaseInv, StoreInv
<1>3. OneAtATime
  BY DEF BaseInv, BoxInv, OneAtATime
<1>4. ASSUME NEW d \in Documents, EmbedDocument(d) \/ Evict(d)
      PROVE  StoreInv' /\ edits <= edits' /\ edits' # edits
  <2>1. edits' = edits + 1 /\ edits' \in 1..(MaxEdits + 1) /\ edits <= edits' /\ edits' # edits
    BY <1>1, <1>2, <1>4 DEF EmbedDocument, Evict
  <2>2. stamp' \in [Documents -> 0..edits']
    <3>1. 0..edits \subseteq 0..edits' /\ 0 \in 0..edits' /\ edits' \in 0..edits'
      BY <1>2, <2>1
    <3>2. stamp' = [stamp EXCEPT ![d] = edits'] \/ stamp' = [stamp EXCEPT ![d] = 0]
      BY <1>4 DEF EmbedDocument, Evict
    <3> QED BY <1>2, <3>1, <3>2
  <2>3. open' = open /\ requests' = requests
    BY <1>4 DEF EmbedDocument, Evict
  <2> QED BY <1>2, <2>1, <2>2, <2>3 DEF StoreInv
<1>5. ASSUME UNCHANGED <<open, store>>, requests' \in requests..MaxRequests
      PROVE  StoreInv' /\ edits <= edits' /\ stamp' = stamp
  <2>1. requests' \in 0..MaxRequests
    BY <1>2, <1>5
  <2> QED BY <1>2, <1>5, <2>1 DEF StoreInv, store
<1>6. ASSUME Tick \/ \E n \in Networks : Visit(n)
      PROVE  UNCHANGED <<open, store>> /\ requests' \in requests..MaxRequests
  BY <1>1, <1>2, <1>6 DEF Tick, Visit
<1>7. ASSUME NEW s \in Slots, Serve(s) \/ Show(s) \/ Lose(s)
      PROVE  UNCHANGED <<open, store>> /\ requests' \in requests..MaxRequests
  <2>1. UNCHANGED <<open, store, requests>>
    BY <1>7, ServedGoesOn DEF GoesOn, Show, BaseInv
  <2> QED BY <1>2, <2>1
<1>8. ASSUME TurnPage \/ \E query \in Typed, mode \in Modes : SetOut(query, mode)
      PROVE  UNCHANGED <<open, store>> /\ requests' \in requests..MaxRequests
  BY <1>8, AgentAsks
<1>9. ASSUME Arrive \/ (\E query \in Typed : Submit(query)) \/ Refresh
      PROVE  UNCHANGED <<open, store>> /\ requests' \in requests..MaxRequests
  <2>1. UNCHANGED <<open, store>> /\ (requests' = requests \/ (requests < MaxRequests /\ requests' = requests + 1))
    BY <1>3, <1>9, BoxAsks DEF Ignores, Asks
  <2> QED BY <1>1, <1>2, <2>1
<1>10. \/ \E d \in Documents : EmbedDocument(d) \/ Evict(d)
       \/ UNCHANGED <<open, store>> /\ requests' \in requests..MaxRequests
  BY <1>6, <1>7, <1>8, <1>9 DEF Next
<1>11. QED
  BY <1>4, <1>5, <1>10

LEMMA CallsStep ==
  ASSUME BaseInv, Next
  PROVE  CallsInv'
<1>1. calls \in [Slots -> Call \cup {NoCall}]
      /\ \A s \in Slots : calls[s] # NoCall => Len(calls[s].results) <= calls[s].topK
  BY DEF BaseInv, CallsInv
<1>2. OneAtATime
  BY DEF BaseInv, BoxInv, OneAtATime
<1>3. ASSUME NEW s \in Slots, NEW call \in Call \cup {NoCall}, calls' = [calls EXCEPT ![s] = call],
             call # NoCall => Len(call.results) <= call.topK
      PROVE  CallsInv'
  <2>1. calls' \in [Slots -> Call \cup {NoCall}]
    BY <1>1, <1>3
  <2>2. \A r \in Slots : calls'[r] = IF r = s THEN call ELSE calls[r]
    BY <1>1, <1>3
  <2> QED BY <1>1, <1>3, <2>1, <2>2 DEF CallsInv
<1>4. ASSUME UNCHANGED calls PROVE CallsInv'
  BY <1>1, <1>4 DEF CallsInv
<1>5. ASSUME NEW s \in Slots, Serve(s) \/ Lose(s) PROVE CallsInv'
  BY <1>3, <1>5, ServedGoesOn DEF GoesOn, BaseInv
<1>6. ASSUME NEW s \in Slots, Show(s) PROVE CallsInv'
  BY <1>3, <1>6 DEF Show, Becomes
<1>7. ASSUME TurnPage \/ \E query \in Typed, mode \in Modes : SetOut(query, mode) PROVE CallsInv'
  <2>1. "agent" \in Slots
    BY DEF Slots
  <2> QED BY <1>3, <1>7, <2>1, AgentAsks
<1>8. ASSUME Arrive \/ (\E query \in Typed : Submit(query)) \/ Refresh PROVE CallsInv'
  <2>1. "box" \in Slots
    BY DEF Slots
  <2>2. PICK query \in Queries, sample \in BOOLEAN, silent \in BOOLEAN :
          Ignores(query, sample) \/ Asks(query, sample, silent)
    BY <1>2, <1>8, BoxAsks
  <2>3. CASE Ignores(query, sample)
    BY <1>4, <2>3 DEF Ignores
  <2>4. CASE Asks(query, sample, silent)
    <3> DEFINE asked == Sent(query, "hybrid", IF sample THEN 2 ELSE 5, 0, sample, silent)
    <3>1. asked \in Call /\ Len(asked.results) <= asked.topK
      <4>1. (IF sample THEN 2 ELSE 5) \in Nat /\ 0 \in 0..MaxOffset
        BY Constants
      <4>2. 0 <= (IF sample THEN 2 ELSE 5)
        BY <4>1
      <4> HIDE DEF asked
      <4> QED BY <4>1, <4>2, Nothing DEF Sent, Call, asked
    <3>2. calls' = [calls EXCEPT !["box"] = asked]
      BY <2>4 DEF Asks
    <3> HIDE DEF asked
    <3> QED BY <1>3, <2>1, <3>1, <3>2
  <2> QED BY <2>2, <2>3, <2>4
<1>9. ASSUME \/ \E d \in Documents : EmbedDocument(d) \/ Evict(d)
             \/ Tick \/ \E n \in Networks : Visit(n)
      PROVE  UNCHANGED calls
  BY <1>9 DEF EmbedDocument, Evict, Tick, Visit
<1>10. QED
  BY <1>4, <1>5, <1>6, <1>7, <1>8, <1>9 DEF Next

LEMMA BoxStep ==
  ASSUME BaseInv, Next
  PROVE  BoxInv'
<1>1. /\ tab \in Tab /\ calls["box2"] = NoCall /\ (tab.busy <=> calls["box"] # NoCall)
      /\ BoxTellsTruth /\ BoxInv
      /\ calls \in [Slots -> Call \cup {NoCall}]
      /\ "box" \in Slots /\ "box2" \in Slots /\ "agent" \in Slots
  BY DEF BaseInv, BoxInv, CallsInv, Slots
<1>2. OneAtATime
  BY <1>1 DEF OneAtATime
<1>3. ASSUME tab' = tab, calls'["box"] = calls["box"], calls'["box2"] = calls["box2"]
      PROVE  BoxInv'
  BY <1>1, <1>3 DEF BoxInv, BoxTellsTruth
<1>4. ASSUME NEW s \in Slots, Serve(s) \/ Lose(s) PROVE BoxInv'
  <2>1. GoesOn(s)
    BY <1>4, ServedGoesOn DEF BaseInv
  <2>2. s # "box2"
    BY <1>1, <2>1 DEF GoesOn
  <2>3. CASE s = "agent"
    <3>1. calls'["box"] = calls["box"] /\ calls'["box2"] = calls["box2"] /\ tab' = tab
      BY <1>1, <2>1, <2>3 DEF GoesOn
    <3> QED BY <1>3, <3>1
  <2>4. CASE s = "box"
    <3>1. /\ calls["box"] # NoCall /\ calls'["box"] \in Call /\ calls'["box2"] = NoCall /\ tab' = tab
          /\ calls'["box"].query = calls["box"].query /\ calls'["box"].sample = calls["box"].sample
      BY <1>1, <2>1, <2>4 DEF GoesOn
    <3>2. calls'["box"] # NoCall
      BY <3>1, CallFields
    <3>3. tab.busy
      BY <1>1, <3>1
    <3> QED BY <1>1, <3>1, <3>2, <3>3 DEF BoxInv, BoxTellsTruth
  <2> QED BY <2>2, <2>3, <2>4 DEF Slots
<1>5. ASSUME NEW s \in Slots, Show(s) PROVE BoxInv'
  <2> DEFINE call == calls["box"]
  <2>1. s = "box"
    BY <1>1, <1>5 DEF Show, Slots, NoCall
  <2>2. call.stage = "replied" /\ calls' = [calls EXCEPT !["box"] = NoCall]
        /\ tab' = [tab EXCEPT !.busy = FALSE, !.mode = Caption(call), !.live = Badge(call),
                              !.shown = [query |-> call.query, sample |-> call.sample]]
    BY <1>5, <2>1 DEF Show, Becomes
  <2>3. call \in Call /\ call # NoCall /\ tab.busy
    BY <1>1, <2>2 DEF NoCall
  <2>4. /\ tab.ran = [query |-> call.query, sample |-> call.sample]
        /\ ~tab.ignored => tab.address = IF call.sample THEN None ELSE call.query
    BY <1>1, <2>3 DEF BoxInv
  <2> HIDE DEF call
  <2>5. /\ call.query \in Queries /\ call.sample \in BOOLEAN /\ call.silent \in BOOLEAN
    BY <2>3, CallFields
  <2>6. Badge(call) <=> call.status = 200 /\ call.results # <<>>
    BY DEF Badge
  <2>7. Caption(call) \in {"sample", "results", "empty", "limit", "commissioning"}
    BY <2>5 DEF Caption
  <2>8. Badge(call) => Caption(call) = IF call.sample THEN "sample" ELSE "results"
    BY <2>6 DEF Caption
  <2>9. Caption(call) = "results" => Badge(call)
    BY <2>5, <2>6 DEF Caption
  <2>10. [query |-> call.query, sample |-> call.sample] \in Ran
    BY <2>5 DEF Ran
  <2>11. /\ tab' \in Tab
         /\ tab'.busy = FALSE /\ tab'.mode = Caption(call) /\ tab'.live = Badge(call)
         /\ tab'.shown = [query |-> call.query, sample |-> call.sample]
         /\ tab'.ran = tab.ran /\ tab'.ignored = tab.ignored /\ tab'.address = tab.address
    <3>1. Badge(call) \in BOOLEAN
      BY DEF Badge
    <3> HIDE DEF Badge
    <3> QED BY <1>1, <2>2, <2>7, <2>10, <3>1 DEF Tab
  <2>12. calls'["box"] = NoCall /\ calls'["box2"] = NoCall
    BY <1>1, <2>2
  <2>13. BoxTellsTruth'
    <3>1. tab'.shown = tab'.ran /\ tab'.shown.sample = call.sample /\ tab'.shown.query = call.query
      BY <2>4, <2>11
    <3>2. tab'.live => tab'.mode = (IF tab'.shown.sample THEN "sample" ELSE "results")
      BY <2>8, <2>11, <3>1
    <3>3. tab'.mode = "results" => tab'.live
      BY <2>9, <2>11
    <3>4. ~tab'.ignored => tab'.address = IF tab'.shown.sample THEN None ELSE tab'.shown.query
      BY <2>4, <2>11, <3>1
    <3> QED BY <3>1, <3>2, <3>3, <3>4 DEF BoxTellsTruth
  <2> QED BY <2>11, <2>12, <2>13 DEF BoxInv
<1>6. ASSUME TurnPage \/ \E query \in Typed, mode \in Modes : SetOut(query, mode) PROVE BoxInv'
  <2>1. calls' = [calls EXCEPT !["agent"] = calls'["agent"]] /\ tab' = tab
    BY <1>6, AgentAsks
  <2>2. calls'["box"] = calls["box"] /\ calls'["box2"] = calls["box2"]
    BY <1>1, <2>1
  <2> QED BY <1>3, <2>1, <2>2
<1>7. ASSUME Arrive \/ (\E query \in Typed : Submit(query)) \/ Refresh PROVE BoxInv'
  <2>1. PICK query \in Queries, sample \in BOOLEAN, silent \in BOOLEAN :
          Ignores(query, sample) \/ Asks(query, sample, silent)
    BY <1>2, <1>7, BoxAsks
  <2> DEFINE asked == Asked(query, sample)
             address == IF sample THEN None ELSE query
  <2>2. /\ asked \in Tab /\ asked.busy = tab.busy /\ asked.address = address
        /\ asked.ran = tab.ran /\ asked.shown = tab.shown /\ asked.ignored = tab.ignored
        /\ asked.live = tab.live /\ asked.mode = tab.mode
    <3>1. address \in Queries \cup {None}
      OBVIOUS
    <3> HIDE DEF address
    <3> QED BY <1>1, <3>1 DEF Asked, Tab, address
  <2> HIDE DEF asked, address
  <2>3. CASE Ignores(query, sample)
    <3>1. tab.busy /\ tab' = [asked EXCEPT !.ignored = TRUE] /\ calls' = calls
      BY <2>3 DEF Ignores, asked
    <3>2. tab' \in Tab /\ tab'.busy /\ tab'.ignored /\ tab'.ran = tab.ran
      BY <2>2, <3>1 DEF Tab
    <3> QED BY <1>1, <3>1, <3>2 DEF BoxInv, BoxTellsTruth
  <2>4. CASE Asks(query, sample, silent)
    <3> DEFINE sent == Sent(query, "hybrid", IF sample THEN 2 ELSE 5, 0, sample, silent)
    <3>1. /\ tab' = [asked EXCEPT !.busy = TRUE, !.ignored = FALSE,
                                  !.ran = [query |-> query, sample |-> sample]]
          /\ calls' = [calls EXCEPT !["box"] = sent]
      BY <2>4 DEF Asks, asked
    <3>2. [query |-> query, sample |-> sample] \in Ran
      BY DEF Ran
    <3>3. /\ tab' \in Tab /\ tab'.busy /\ tab'.address = address
          /\ tab'.ran = [query |-> query, sample |-> sample]
      BY <2>2, <3>1, <3>2 DEF Tab
    <3>4. calls'["box"] = sent /\ calls'["box2"] = NoCall
      BY <1>1, <3>1
    <3>5. sent.stage = "sent" /\ sent.query = query /\ sent.sample = sample
      BY DEF Sent
    <3> HIDE DEF sent
    <3>6. calls'["box"] # NoCall
      BY <3>4, <3>5 DEF NoCall
    <3> QED BY <3>3, <3>4, <3>5, <3>6 DEF BoxInv, BoxTellsTruth, address
  <2> QED BY <2>1, <2>3, <2>4
<1>8. ASSUME \/ \E d \in Documents : EmbedDocument(d) \/ Evict(d)
             \/ Tick \/ \E n \in Networks : Visit(n)
      PROVE  UNCHANGED <<calls, tab>>
  BY <1>8 DEF EmbedDocument, Evict, Tick, Visit
<1>9. QED
  BY <1>3, <1>4, <1>5, <1>6, <1>7, <1>8 DEF Next

LEMMA AgentStep ==
  ASSUME BaseInv, Next
  PROVE  AgentInv'
<1>1. /\ AgentInv /\ OneAtATime /\ CallsInv
      /\ "box" \in Slots /\ "agent" \in Slots
  BY DEF BaseInv, BoxInv, OneAtATime, Slots
<1>2. ASSUME walk' = walk, calls["agent"] = NoCall => calls'["agent"] = NoCall PROVE AgentInv'
  BY <1>1, <1>2 DEF AgentInv
<1>3. ASSUME NEW s \in Slots, Serve(s) \/ Lose(s)
      PROVE  walk' = walk /\ (calls["agent"] = NoCall => calls'["agent"] = NoCall)
  BY <1>1, <1>3, ServedGoesOn DEF GoesOn, BaseInv, CallsInv
<1>4. ASSUME NEW s \in Slots, Show(s)
      PROVE  walk' = walk /\ (calls["agent"] = NoCall => calls'["agent"] = NoCall)
  BY <1>1, <1>4 DEF Show, Becomes, CallsInv
<1>5. ASSUME TurnPage \/ \E query \in Typed, mode \in Modes : SetOut(query, mode) PROVE AgentInv'
  BY <1>5, AgentAsks DEF AgentInv
<1>6. ASSUME Arrive \/ (\E query \in Typed : Submit(query)) \/ Refresh
      PROVE  walk' = walk /\ (calls["agent"] = NoCall => calls'["agent"] = NoCall)
  BY <1>1, <1>6, BoxAsks DEF Ignores, Asks, CallsInv
<1>7. ASSUME \/ \E d \in Documents : EmbedDocument(d) \/ Evict(d)
             \/ Tick \/ \E n \in Networks : Visit(n)
      PROVE  UNCHANGED <<calls, walk>>
  BY <1>7 DEF EmbedDocument, Evict, Tick, Visit
<1>8. QED
  BY <1>2, <1>3, <1>4, <1>5, <1>6, <1>7 DEF Next

LEMMA BaseStep ==
  ASSUME BaseInv, [Next]_vars
  PROVE  BaseInv'
<1>1. CASE Next
  BY <1>1, StoreStep, CallsStep, BoxStep, AgentStep DEF BaseInv
<1>2. CASE UNCHANGED vars
  BY <1>2 DEF BaseInv, StoreInv, CallsInv, BoxInv, BoxTellsTruth, AgentInv, vars, store
<1>3. QED
  BY <1>1, <1>2

LEMMA BaseHolds == Spec => []BaseInv
<1>1. Init => BaseInv
  BY BaseStart
<1>2. BaseInv /\ [Next]_vars => BaseInv'
  BY BaseStep
<1>3. QED
  BY <1>1, <1>2, PTL DEF Spec

\* The box: while it waits for nothing, what it shows is the search it ran last,
\* captioned and badged as its answer was, under that search's address unless a
\* later one was ignored (search.js, run and show).
THEOREM BoxIsTruthful == Spec => []BoxTellsTruth
<1>1. BaseInv => BoxTellsTruth
  BY DEF BaseInv, BoxInv
<1>2. QED
  BY <1>1, BaseHolds, PTL

-----------------------------------------------------------------------------
(* The limiter's map.                                                      *)

LEMMA MapIs ==
  ASSUME NEW map \in Seq(Entry)
  PROVE  /\ Len(map) \in Nat /\ DOMAIN map = 1..Len(map) /\ map \in [1..Len(map) -> Entry]
         /\ \A n \in 1..Len(map) : map[n] \in Entry
BY LenProperties, ElementOfSeq

\* What is left of the map after a sweep are windows of it, each once, and there is
\* room for one more.
LEMMA SweptIs ==
  ASSUME windows \in Seq(Entry), Len(windows) <= MAX_KEYS, OneWindowEach(windows)
  PROVE  /\ Swept \in Seq(Entry) /\ Len(Swept) < MAX_KEYS /\ OneWindowEach(Swept)
         /\ \A n \in 1..Len(Swept) : \E m \in 1..Len(windows) : Swept[n] = windows[m]
<1> DEFINE I == {n \in 1..Len(windows) : Live(windows[n])}
           live == Selected(windows, I)
<1>1. MAX_KEYS \in Nat \ {0}
  BY Constants
<1>2. I \in SUBSET (1..Len(windows)) /\ Len(windows) \in Nat
  BY MapIs
<1>3. /\ live \in Seq(Entry)
      /\ Len(live) \in 0..Len(windows)
      /\ \E at \in Bijection(1..Len(live), I) : \A k \in 1..Len(live) : live[k] = windows[at[k]]
  <2>1. /\ live \in Seq(Entry)
        /\ Len(live) = Cardinality(I) /\ Cardinality(I) \in 0..Len(windows)
        /\ \E at \in Bijection(1..Cardinality(I), I) :
             \A k \in 1..Cardinality(I) : live[k] = windows[at[k]]
    <3> HIDE DEF I
    <3> QED BY <1>2, SelectedIs
  <2> HIDE DEF live, I
  <2> QED BY <2>1
<1> HIDE DEF live
<1>4. PICK at \in Bijection(1..Len(live), I) : \A k \in 1..Len(live) : live[k] = windows[at[k]]
  BY <1>3
<1>5. /\ at \in [1..Len(live) -> 1..Len(windows)]
      /\ \A a, b \in 1..Len(live) : at[a] = at[b] => a = b
  BY <1>4 DEF Bijection, Injection, IsInjective
<1>6. OneWindowEach(live)
  BY <1>4, <1>5 DEF OneWindowEach
<1>7. \A k \in 1..Len(live) : \E m \in 1..Len(windows) : live[k] = windows[m]
  BY <1>4, <1>5
<1>8. CASE Len(windows) < MAX_KEYS
  <2>1. Swept = windows
    BY <1>1, <1>2, <1>8 DEF Swept
  <2> QED BY <1>8, <2>1
<1>9. CASE ~(Len(windows) < MAX_KEYS) /\ Len(live) < MAX_KEYS
  <2>1. Swept = live
    BY <1>1, <1>2, <1>3, <1>9 DEF Swept, Sweep, live
  <2> QED BY <1>3, <1>6, <1>7, <1>9, <2>1
<1>10. CASE ~(Len(windows) < MAX_KEYS) /\ ~(Len(live) < MAX_KEYS)
  <2> DEFINE half == MAX_KEYS \div 2
             rest == SubSeq(live, Len(live) - half + 1, Len(live))
  <2>1. Len(live) = MAX_KEYS
    BY <1>1, <1>2, <1>3, <1>10
  <2>2. half \in Nat /\ half < MAX_KEYS
    BY <1>1
  <2>3. Swept = rest
    <3>1. Sweep = IF Len(live) >= MAX_KEYS THEN rest ELSE live
      BY DEF Sweep, live
    <3> HIDE DEF rest, half
    <3>2. Len(live) >= MAX_KEYS /\ Len(windows) >= MAX_KEYS
      BY <1>1, <1>2, <1>10, <2>1
    <3> QED BY <3>1, <3>2 DEF Swept
  <2>4. \A i \in (Len(live) - half + 1)..Len(live) : i \in 1..Len(live) /\ live[i] \in Entry
    BY <1>1, <1>3, <2>1, <2>2, ElementOfSeq
  <2> HIDE DEF half
  <2>5. /\ rest \in Seq(Entry)
        /\ Len(rest) = IF Len(live) - half + 1 <= Len(live)
                       THEN Len(live) - (Len(live) - half + 1) + 1 ELSE 0
        /\ \A i \in 1..(Len(live) - (Len(live) - half + 1) + 1) :
             rest[i] = live[Len(live) - half + 1 + i - 1]
    <3>1. Len(live) - half + 1 \in Int /\ Len(live) \in Int
      BY <1>1, <2>1, <2>2
    <3> QED BY <2>4, <3>1, SubSeqProperties
  <2> HIDE DEF rest
  <2>6. Len(rest) = half
    BY <1>1, <2>1, <2>2, <2>5
  <2>7. \A i \in 1..half : Len(live) - half + i \in 1..Len(live) /\ rest[i] = live[Len(live) - half + i]
    <3>1. \A i \in 1..half : /\ i \in 1..(Len(live) - (Len(live) - half + 1) + 1)
                             /\ Len(live) - half + 1 + i - 1 = Len(live) - half + i
                             /\ Len(live) - half + i \in 1..Len(live)
      BY <1>1, <2>1, <2>2
    <3> QED BY <2>5, <3>1
  <2>8. \A i, j \in 1..half : i # j => Len(live) - half + i # Len(live) - half + j
    BY <1>1, <2>1, <2>2
  <2>9. OneWindowEach(rest)
    <3>1. ASSUME NEW i \in 1..half, NEW j \in 1..half, i # j PROVE rest[i].key # rest[j].key
      <4>1. Len(live) - half + i # Len(live) - half + j
        BY <2>8, <3>1
      <4>2. /\ Len(live) - half + i \in 1..Len(live) /\ rest[i] = live[Len(live) - half + i]
            /\ Len(live) - half + j \in 1..Len(live) /\ rest[j] = live[Len(live) - half + j]
        BY <2>7
      <4> QED BY <1>6, <4>1, <4>2 DEF OneWindowEach
    <3> QED BY <2>6, <3>1 DEF OneWindowEach
  <2>10. \A n \in 1..Len(rest) : \E m \in 1..Len(windows) : rest[n] = windows[m]
    BY <1>7, <2>6, <2>7
  <2> QED BY <2>2, <2>3, <2>5, <2>6, <2>9, <2>10
<1>11. QED
  BY <1>8, <1>9, <1>10

LEMMA EntryCounts ==
  ASSUME NEW w \in Entry
  PROVE  /\ [w EXCEPT !.count = @ + 1] \in Entry
         /\ [w EXCEPT !.count = 1, !.left = Window] \in Entry
<1>1. w.count + 1 \in Nat \ {0} /\ 1 \in Nat \ {0} /\ Window \in 0..Window
  BY Constants DEF Entry
<1>2. QED
  BY <1>1 DEF Entry

\* A check adds to the window of its key, or begins one, and touches no other.
LEMMA CountedIs ==
  ASSUME NEW map \in Seq(Entry), OneWindowEach(map), NEW key \in Networks
  PROVE  LET post == Counted(map, key)
         IN  /\ post \in Seq(Entry) /\ OneWindowEach(post) /\ Len(post) <= Len(map) + 1
             /\ \E n \in 1..Len(post) : post[n].key = key
             /\ \A n \in 1..Len(post) : post[n].key # key => \E m \in 1..Len(map) : map[m] = post[n]
             /\ \A m \in 1..Len(map) : map[m].key # key => \E n \in 1..Len(post) : post[n] = map[m]
             /\ \A n \in 1..Len(post) : post[n].key = key =>
                  \/ \E m \in 1..Len(map) :
                       /\ map[m].key = key /\ Live(map[m])
                       /\ post[n].count = map[m].count + 1 /\ post[n].left = map[m].left
                  \/ /\ \A m \in 1..Len(map) : map[m].key = key => ~Live(map[m])
                     /\ post[n].count = 1 /\ post[n].left = Window
<1> DEFINE post == Counted(map, key)
           fresh == [key |-> key, count |-> 1, left |-> Window]
<1>1. Len(map) \in Nat /\ \A n \in 1..Len(map) : map[n] \in Entry
  BY MapIs
<1>2. Window \in Nat \ {0}
  BY Constants
<1>3. fresh \in Entry
  BY <1>2 DEF Entry
<1>4. CASE key \notin Keys(map)
  <2>1. post = Append(map, fresh)
    BY <1>4 DEF Counted
  <2> HIDE DEF post, fresh
  <2>2. /\ post \in Seq(Entry) /\ Len(post) = Len(map) + 1
        /\ \A n \in 1..Len(map) : post[n] = map[n]
        /\ post[Len(map) + 1] = fresh
    BY <1>3, <2>1, AppendProperties
  <2>3. \A n \in 1..Len(map) : map[n].key # key
    BY <1>4 DEF Keys
  <2>4. \A n \in 1..Len(post) : n \in 1..Len(map) \/ n = Len(map) + 1
    BY <1>1, <2>2
  <2>5. \A n \in 1..Len(map) : n \in 1..Len(post)
    BY <1>1, <2>2
  <2>6. Len(map) + 1 \in 1..Len(post)
    BY <1>1, <2>2
  <2>7. fresh.key = key /\ fresh.count = 1 /\ fresh.left = Window
    BY DEF fresh
  <2>8. OneWindowEach(post)
    BY <2>2, <2>3, <2>4, <2>7 DEF OneWindowEach
  <2>9. Len(post) <= Len(map) + 1
    BY <1>1, <2>2
  <2> QED BY <2>2, <2>3, <2>4, <2>5, <2>6, <2>7, <2>8, <2>9 DEF post
<1>5. CASE key \in Keys(map)
  <2>1. post = [n \in 1..Len(map) |->
                  IF map[n].key # key THEN map[n]
                  ELSE IF Live(map[n]) THEN [map[n] EXCEPT !.count = @ + 1]
                  ELSE [map[n] EXCEPT !.count = 1, !.left = Window]]
    BY <1>5 DEF Counted
  <2> HIDE DEF post
  <2>2. ASSUME NEW n \in 1..Len(map)
        PROVE  /\ post[n] \in Entry /\ post[n].key = map[n].key
               /\ map[n].key # key => post[n] = map[n]
               /\ map[n].key = key /\ Live(map[n]) =>
                    post[n].count = map[n].count + 1 /\ post[n].left = map[n].left
               /\ map[n].key = key /\ ~Live(map[n]) => post[n].count = 1 /\ post[n].left = Window
    <3>1. map[n] \in Entry
      BY <1>1
    <3>2. CASE map[n].key # key
      <4>1. post[n] = map[n]
        BY <2>1, <3>2, Zenon
      <4> QED BY <3>1, <3>2, <4>1
    <3>3. CASE map[n].key = key /\ Live(map[n])
      <4>1. post[n] = [map[n] EXCEPT !.count = @ + 1]
        BY <2>1, <3>3, Zenon
      <4>2. post[n] \in Entry
        BY <3>1, <4>1, EntryCounts
      <4>3. post[n].key = map[n].key /\ post[n].count = map[n].count + 1 /\ post[n].left = map[n].left
        BY <3>1, <4>1 DEF Entry
      <4> QED BY <3>3, <4>2, <4>3
    <3>4. CASE map[n].key = key /\ ~Live(map[n])
      <4>1. post[n] = [map[n] EXCEPT !.count = 1, !.left = Window]
        BY <2>1, <3>4, Zenon
      <4>2. post[n] \in Entry
        BY <3>1, <4>1, EntryCounts
      <4>3. post[n].key = map[n].key /\ post[n].count = 1 /\ post[n].left = Window
        BY <3>1, <4>1 DEF Entry
      <4> QED BY <3>4, <4>2, <4>3
    <3> QED BY <3>2, <3>3, <3>4
  <2>3. post \in [1..Len(map) -> Entry]
    BY <2>1, <2>2
  <2>4. post \in Seq(Entry) /\ Len(post) = Len(map)
    BY <1>1, <2>3, FunctionIsSeq
  <2>5. \A m, n \in 1..Len(map) : map[m].key = key /\ map[n].key = key => m = n
    BY DEF OneWindowEach
  <2>6. OneWindowEach(post)
    BY <2>2, <2>4 DEF OneWindowEach
  <2>7. \E n \in 1..Len(post) : post[n].key = key
    BY <1>5, <2>2, <2>4 DEF Keys
  <2>8. ASSUME NEW n \in 1..Len(post), post[n].key = key
        PROVE  \/ \E m \in 1..Len(map) :
                    /\ map[m].key = key /\ Live(map[m])
                    /\ post[n].count = map[m].count + 1 /\ post[n].left = map[m].left
               \/ /\ \A m \in 1..Len(map) : map[m].key = key => ~Live(map[m])
                  /\ post[n].count = 1 /\ post[n].left = Window
    <3>1. n \in 1..Len(map) /\ map[n].key = key
      BY <2>2, <2>4, <2>8
    <3>2. CASE Live(map[n])
      BY <2>2, <3>1, <3>2
    <3>3. CASE ~Live(map[n])
      BY <2>2, <2>5, <3>1, <3>3
    <3> QED BY <3>2, <3>3
  <2>9. Len(post) <= Len(map) + 1
    BY <1>1, <2>4
  <2>10. /\ \A n \in 1..Len(post) : post[n].key # key => \E m \in 1..Len(map) : map[m] = post[n]
         /\ \A m \in 1..Len(map) : map[m].key # key => \E n \in 1..Len(post) : post[n] = map[m]
    BY <2>2, <2>4
  <2> QED BY <2>4, <2>6, <2>7, <2>8, <2>9, <2>10 DEF post
<1>6. QED
  BY <1>4, <1>5

-----------------------------------------------------------------------------
(* What a network was served, and how long ago.                            *)

LEMMA TokensAre ==
  ASSUME NEW f \in Ages, NEW t
  PROVE  t \in Tokens(f) <=> \E age \in 0..(Window - 1), c \in Nat : c \in 1..f[age] /\ t = <<age, c>>
<1>1. DOMAIN f = 0..(Window - 1)
  BY DEF Ages
<1>2. t \in Tokens(f) <=> \E age \in 0..(Window - 1) : t \in {age} \X (1..f[age])
  BY <1>1 DEF Tokens
<1>3. \A age \in 0..(Window - 1) :
        t \in {age} \X (1..f[age]) <=> \E c \in Nat : c \in 1..f[age] /\ t = <<age, c>>
  <2>1. \A age \in 0..(Window - 1) : f[age] \in Nat
    BY DEF Ages
  <2> QED BY <2>1
<1>4. QED
  BY <1>2, <1>3

LEMMA TokenParts ==
  ASSUME NEW f \in Ages, NEW t \in Tokens(f)
  PROVE  /\ t[1] \in 0..(Window - 1) /\ t[1] \in Nat /\ t[2] \in 1..f[t[1]] /\ t[2] \in Nat
         /\ t = <<t[1], t[2]>>
<1>1. PICK age \in 0..(Window - 1), c \in Nat : c \in 1..f[age] /\ t = <<age, c>>
  BY TokensAre
<1>2. f[age] \in Nat /\ Window \in Nat
  BY Constants DEF Ages
<1>3. t[1] = age /\ t[2] = c
  BY <1>1
<1>4. QED
  BY <1>1, <1>2, <1>3

LEMMA NoTokens ==
  LET none == [age \in 0..(Window - 1) |-> 0] IN none \in Ages /\ Tokens(none) = {}
<1> DEFINE none == [age \in 0..(Window - 1) |-> 0]
<1>1. none \in Ages
  BY DEF Ages
<1>2. \A age \in 0..(Window - 1) : none[age] = 0
  OBVIOUS
<1> HIDE DEF none
<1>3. ASSUME NEW t \in Tokens(none) PROVE FALSE
  <2>1. PICK age \in 0..(Window - 1), c \in Nat : c \in 1..none[age] /\ t = <<age, c>>
    BY <1>1, TokensAre
  <2>2. none[age] = 0 /\ c \in 1..0
    BY <1>2, <2>1
  <2> QED BY <2>2
<1>4. QED
  BY <1>1, <1>3 DEF none

\* A request let through is one more, and it is of now.
LEMMA TokenAdded ==
  ASSUME NEW f \in Ages, IsFiniteSet(Tokens(f)), NEW old \in Nat
  PROVE  LET g == [f EXCEPT ![0] = @ + 1]
         IN  /\ g \in Ages /\ IsFiniteSet(Tokens(g))
             /\ Cardinality(Recent(g, old)) = Cardinality(Recent(f, old)) + 1
             /\ Older(g, old) = Older(f, old)
<1> DEFINE g == [f EXCEPT ![0] = @ + 1]
           new == <<0, f[0] + 1>>
<1>1. Window \in Nat \ {0} /\ 0 \in 0..(Window - 1)
  BY Constants
<1>2. f[0] \in Nat /\ \A age \in 0..(Window - 1) : f[age] \in Nat
  BY <1>1 DEF Ages
<1>3. g \in Ages /\ g[0] = f[0] + 1 /\ \A age \in 0..(Window - 1) : age # 0 => g[age] = f[age]
  BY <1>1, <1>2 DEF Ages
<1>4. new \notin Tokens(f)
  <2>1. ASSUME new \in Tokens(f) PROVE FALSE
    <3>1. new[2] \in 1..f[new[1]]
      BY <2>1, TokenParts
    <3>2. new[1] = 0 /\ new[2] = f[0] + 1
      OBVIOUS
    <3> HIDE DEF new
    <3> QED BY <1>2, <3>1, <3>2
  <2> QED BY <2>1
<1>5. Tokens(g) = Tokens(f) \cup {new}
  <2> HIDE DEF g
  <2>1. ASSUME NEW t \in Tokens(g) PROVE t \in Tokens(f) \cup {new}
    <3>1. PICK age \in 0..(Window - 1), c \in Nat : c \in 1..g[age] /\ t = <<age, c>>
      BY <1>3, TokensAre
    <3>2. c \in 1..f[age] \/ (age = 0 /\ c = f[0] + 1)
      BY <1>2, <1>3, <3>1
    <3> QED BY <3>1, <3>2, TokensAre
  <2>2. ASSUME NEW t \in Tokens(f) PROVE t \in Tokens(g)
    <3>1. PICK age \in 0..(Window - 1), c \in Nat : c \in 1..f[age] /\ t = <<age, c>>
      BY TokensAre
    <3>2. c \in 1..g[age]
      BY <1>2, <1>3, <3>1
    <3> QED BY <1>3, <3>1, <3>2, TokensAre
  <2>3. new \in Tokens(g)
    <3>1. f[0] + 1 \in 1..g[0]
      BY <1>2, <1>3
    <3> QED BY <1>1, <1>3, <3>1, TokensAre
  <2> QED BY <2>1, <2>2, <2>3
<1>6. new[1] = 0 /\ 0 <= old /\ ~(0 > old)
  OBVIOUS
<1> HIDE DEF g, new
<1>7. IsFiniteSet(Tokens(g))
  BY <1>5, FS_AddElement
<1>8. Recent(g, old) = Recent(f, old) \cup {new}
  BY <1>5, <1>6 DEF Recent
<1>9. Older(g, old) = Older(f, old)
  BY <1>5, <1>6 DEF Older
<1>10. IsFiniteSet(Recent(f, old)) /\ new \notin Recent(f, old)
  BY <1>4, FS_Subset DEF Recent
<1>11. Cardinality(Recent(g, old)) = Cardinality(Recent(f, old)) + 1
  BY <1>8, <1>10, FS_AddElement
<1>12. QED
  BY <1>3, <1>7, <1>9, <1>11 DEF g

\* The tokens of S, each a tick older.
Pushed(S) == {<<t[1] + 1, t[2]>> : t \in S}

LEMMA PushedIs ==
  ASSUME NEW f \in Ages, NEW S \in SUBSET Tokens(f), IsFiniteSet(S)
  PROVE  IsFiniteSet(Pushed(S)) /\ Cardinality(Pushed(S)) = Cardinality(S)
<1> DEFINE push == [t \in S |-> <<t[1] + 1, t[2]>>]
<1>1. push \in [S -> Pushed(S)]
  BY DEF Pushed
<1>2. \A u \in Pushed(S) : \E t \in S : push[t] = u
  BY DEF Pushed
<1>3. ASSUME NEW s \in S, NEW t \in S, push[s] = push[t] PROVE s = t
  <2>1. s[1] \in Nat /\ t[1] \in Nat /\ s = <<s[1], s[2]>> /\ t = <<t[1], t[2]>>
    BY TokenParts
  <2>2. <<s[1] + 1, s[2]>> = <<t[1] + 1, t[2]>>
    BY <1>3
  <2>3. s[1] + 1 = t[1] + 1 /\ s[2] = t[2]
    BY <2>2
  <2> QED BY <2>1, <2>3
<1>4. push \in Bijection(S, Pushed(S))
  BY <1>1, <1>2, <1>3 DEF Bijection, Injection, Surjection, IsInjective
<1>5. QED
  BY <1>4, FS_Bijection DEF ExistsBijection

\* A tick makes everything older, and forgets what was as old as a window is long.
LEMMA TokensAge ==
  ASSUME NEW f \in Ages, IsFiniteSet(Tokens(f))
  PROVE  LET g == [age \in 0..(Window - 1) |-> IF age = 0 THEN 0 ELSE f[age - 1]]
         IN  /\ g \in Ages /\ IsFiniteSet(Tokens(g))
             /\ Cardinality(Tokens(g)) <= Cardinality(Tokens(f))
             /\ Recent(g, 0) = {}
             /\ \A old \in Nat : old + 1 < Window =>
                  /\ Cardinality(Recent(g, old + 1)) = Cardinality(Recent(f, old))
                  /\ Cardinality(Older(g, old + 1)) <= Cardinality(Older(f, old))
<1> DEFINE g == [age \in 0..(Window - 1) |-> IF age = 0 THEN 0 ELSE f[age - 1]]
           kept == {t \in Tokens(f) : t[1] + 1 < Window}
<1>1. Window \in Nat \ {0} /\ 0 \in 0..(Window - 1)
  BY Constants
<1>2. \A age \in 0..(Window - 1) : f[age] \in Nat
  BY DEF Ages
<1>3. g[0] = 0 /\ \A age \in 0..(Window - 1) : age # 0 => age - 1 \in 0..(Window - 1) /\ g[age] = f[age - 1]
  BY <1>1
<1>4. g \in Ages
  <2>1. \A age \in 0..(Window - 1) : g[age] \in Nat
    BY <1>2, <1>3
  <2> QED BY <2>1 DEF Ages
<1> HIDE DEF g
<1>5. Tokens(g) = Pushed(kept)
  <2>1. ASSUME NEW t \in Tokens(g) PROVE t \in Pushed(kept)
    <3>1. PICK age \in 0..(Window - 1), c \in Nat : c \in 1..g[age] /\ t = <<age, c>>
      BY <1>4, TokensAre
    <3>2. age # 0
      BY <1>3, <3>1
    <3>3. age - 1 \in 0..(Window - 1) /\ c \in 1..f[age - 1] /\ age - 1 + 1 < Window /\ age - 1 + 1 = age
      BY <1>1, <1>3, <3>1, <3>2
    <3>4. <<age - 1, c>> \in Tokens(f)
      BY <3>3, TokensAre
    <3>5. <<age - 1, c>>[1] = age - 1 /\ <<age - 1, c>>[2] = c
      OBVIOUS
    <3>6. <<age - 1, c>> \in kept
      BY <3>3, <3>4, <3>5
    <3>7. t = <<<<age - 1, c>>[1] + 1, <<age - 1, c>>[2]>>
      BY <3>1, <3>3, <3>5
    <3> QED BY <3>6, <3>7 DEF Pushed
  <2>2. ASSUME NEW t \in kept PROVE <<t[1] + 1, t[2]>> \in Tokens(g)
    <3>1. t[1] \in Nat /\ t[1] + 1 < Window /\ t[2] \in 1..f[t[1]]
      BY <2>2, TokenParts
    <3>2. t[1] + 1 \in 0..(Window - 1) /\ t[1] + 1 # 0 /\ t[1] + 1 - 1 = t[1]
      BY <1>1, <3>1
    <3>3. t[2] \in 1..g[t[1] + 1]
      BY <1>3, <3>1, <3>2
    <3> QED BY <1>4, <3>2, <3>3, TokensAre
  <2> QED BY <2>1, <2>2 DEF Pushed
<1>6. kept \in SUBSET Tokens(f) /\ IsFiniteSet(kept) /\ Cardinality(kept) <= Cardinality(Tokens(f))
  BY FS_Subset
<1>7. IsFiniteSet(Tokens(g)) /\ Cardinality(Tokens(g)) <= Cardinality(Tokens(f))
  BY <1>5, <1>6, PushedIs
<1>8. Recent(g, 0) = {}
  <2>1. ASSUME NEW t \in Tokens(g), t[1] <= 0 PROVE FALSE
    <3>1. t[1] \in Nat /\ t[2] \in 1..g[t[1]]
      BY <1>4, TokenParts
    <3>2. t[1] = 0
      BY <2>1, <3>1
    <3> QED BY <1>3, <3>1, <3>2
  <2> QED BY <2>1 DEF Recent
<1>9. ASSUME NEW old \in Nat, old + 1 < Window
      PROVE  /\ Cardinality(Recent(g, old + 1)) = Cardinality(Recent(f, old))
             /\ Cardinality(Older(g, old + 1)) <= Cardinality(Older(f, old))
  <2> DEFINE young == Recent(f, old)
             rest == {t \in kept : t[1] > old}
  <2>1. \A t \in Tokens(f) : t[1] \in Nat
    BY TokenParts
  <2>2. \A t \in Tokens(f) : <<t[1] + 1, t[2]>>[1] = t[1] + 1
    OBVIOUS
  <2>3. \A t \in Tokens(f) : t[1] <= old => t[1] + 1 < Window
    BY <1>1, <1>9, <2>1
  <2>4. young = {t \in kept : t[1] <= old}
    BY <2>3 DEF Recent
  <2>5. Recent(g, old + 1) = Pushed(young)
    <3>1. \A t \in kept : <<t[1] + 1, t[2]>>[1] <= old + 1 <=> t[1] <= old
      BY <2>1, <2>2
    <3>2. Recent(g, old + 1) = {u \in Pushed(kept) : u[1] <= old + 1}
      BY <1>5 DEF Recent
    <3> HIDE DEF young, kept
    <3> QED BY <2>4, <3>1, <3>2 DEF Pushed
  <2>6. Older(g, old + 1) = Pushed(rest)
    <3>1. \A t \in kept : <<t[1] + 1, t[2]>>[1] > old + 1 <=> t[1] > old
      BY <2>1, <2>2
    <3>2. Older(g, old + 1) = {u \in Pushed(kept) : u[1] > old + 1}
      BY <1>5 DEF Older
    <3> HIDE DEF kept
    <3> QED BY <3>1, <3>2 DEF Pushed
  <2>7. young \in SUBSET Tokens(f) /\ Older(f, old) \in SUBSET Tokens(f) /\ rest \in SUBSET Older(f, old)
    BY DEF Recent, Older
  <2>8. IsFiniteSet(young) /\ IsFiniteSet(Older(f, old))
    BY <2>7, FS_Subset
  <2>9. IsFiniteSet(rest) /\ Cardinality(rest) <= Cardinality(Older(f, old))
    BY <2>7, <2>8, FS_Subset
  <2> HIDE DEF young, rest
  <2> QED BY <2>5, <2>6, <2>7, <2>8, <2>9, PushedIs DEF young
<1>10. QED
  BY <1>4, <1>7, <1>8, <1>9 DEF g

-----------------------------------------------------------------------------
(* What the limiter grants.                                                *)

LimiterInv == windows \in Seq(Entry) /\ KeysInv /\ ServedInv /\ ShareInv

LEMMA CheckIs ==
  ASSUME LimiterInv, NEW key \in Networks, NEW allowed \in BOOLEAN, Check(key, allowed)
  PROVE  /\ LimiterInv'
         /\ \A most \in Nat : (\A n \in 1..Len(windows) : windows[n].count <= most) =>
              \A n \in 1..Len(windows') : windows'[n].count <= most + 1
<1> DEFINE map == Swept
           post == Counted(map, key)
           given == {windows[n].key : n \in {m \in 1..Len(windows) : Live(windows[m])}} \ Keys(map)
           before(n) == IF n \in given THEN [age \in DOMAIN served[n] |-> 0] ELSE served[n]
           after(n) == [before(n) EXCEPT ![0] = @ + 1]
<1>1. /\ windows' = post /\ allowed = Allowed(post, key)
      /\ served' = [n \in Networks |-> IF n = key /\ allowed THEN after(n) ELSE before(n)]
  BY DEF Check
<1>2. windows \in Seq(Entry) /\ Len(windows) <= MAX_KEYS /\ OneWindowEach(windows)
  BY DEF LimiterInv, KeysInv
<1>3. /\ map \in Seq(Entry) /\ Len(map) < MAX_KEYS /\ OneWindowEach(map)
      /\ \A n \in 1..Len(map) : \E m \in 1..Len(windows) : map[n] = windows[m]
  BY <1>2, SweptIs
<1>4. \A n : n \in given <=> /\ \E m \in 1..Len(windows) : Live(windows[m]) /\ windows[m].key = n
                             /\ \A m \in 1..Len(map) : map[m].key # n
  BY DEF Keys
<1> HIDE DEF map, given
<1>5. /\ post \in Seq(Entry) /\ OneWindowEach(post) /\ Len(post) <= Len(map) + 1
      /\ \E n \in 1..Len(post) : post[n].key = key
      /\ \A n \in 1..Len(post) : post[n].key # key => \E m \in 1..Len(map) : map[m] = post[n]
      /\ \A m \in 1..Len(map) : map[m].key # key => \E n \in 1..Len(post) : post[n] = map[m]
      /\ \A n \in 1..Len(post) : post[n].key = key =>
           \/ \E m \in 1..Len(map) :
                /\ map[m].key = key /\ Live(map[m])
                /\ post[n].count = map[m].count + 1 /\ post[n].left = map[m].left
           \/ /\ \A m \in 1..Len(map) : map[m].key = key => ~Live(map[m])
              /\ post[n].count = 1 /\ post[n].left = Window
  BY <1>3, CountedIs
<1> HIDE DEF post
<1>6. Window \in Nat \ {0} /\ Limit \in Nat \ {0} /\ MAX_KEYS \in Nat \ {0}
  BY Constants
<1>7. /\ Len(windows) \in Nat /\ \A n \in 1..Len(windows) : windows[n] \in Entry
      /\ Len(map) \in Nat /\ \A n \in 1..Len(map) : map[n] \in Entry
      /\ Len(post) \in Nat /\ \A n \in 1..Len(post) : post[n] \in Entry
  BY <1>2, <1>3, <1>5, MapIs
<1>8. ASSUME NEW n \in Networks
      PROVE  /\ before(n) \in Ages /\ IsFiniteSet(Tokens(before(n)))
             /\ served'[n] = IF n = key /\ allowed THEN after(n) ELSE before(n)
             /\ n \in given => Tokens(before(n)) = {}
             /\ n \notin given => before(n) = served[n]
  <2>1. served[n] \in Ages /\ IsFiniteSet(Tokens(served[n]))
    BY DEF LimiterInv, ServedInv
  <2>2. DOMAIN served[n] = 0..(Window - 1)
    BY <2>1 DEF Ages
  <2>3. n \in given => before(n) = [age \in 0..(Window - 1) |-> 0]
    BY <2>2
  <2>4. n \notin given => before(n) = served[n]
    OBVIOUS
  <2>5. served'[n] = IF n = key /\ allowed THEN after(n) ELSE before(n)
    <3> HIDE DEF after, before
    <3> QED BY <1>1
  <2> HIDE DEF before
  <2>6. n \in given => before(n) \in Ages /\ Tokens(before(n)) = {}
    BY <2>3, NoTokens
  <2> QED BY <2>1, <2>4, <2>5, <2>6, FS_EmptySet
<1> HIDE DEF before
<1>9. ASSUME NEW n \in Networks, NEW old \in Nat
      PROVE  /\ after(n) \in Ages /\ IsFiniteSet(Tokens(after(n)))
             /\ Cardinality(Recent(after(n), old)) = Cardinality(Recent(before(n), old)) + 1
             /\ Older(after(n), old) = Older(before(n), old)
  BY <1>8, TokenAdded
<1> HIDE DEF after
<1>10. ServedInv'
  <2>1. \A n \in Networks : served'[n] \in Ages /\ IsFiniteSet(Tokens(served'[n]))
    BY <1>8, <1>9
  <2>2. served' \in [Networks -> Ages]
    BY <1>1, <2>1
  <2> QED BY <2>1, <2>2 DEF ServedInv
<1>11. ASSUME NEW m \in 1..Len(map), Live(map[m])
       PROVE  LET w == map[m] IN
              /\ w.key \in Networks /\ before(w.key) = served[w.key]
              /\ Cardinality(Recent(served[w.key], Window - w.left)) = Smaller(w.count, Limit)
              /\ Cardinality(Older(served[w.key], Window - w.left)) <= Limit
  <2>1. map[m].key \in Networks /\ map[m].key \notin given
    BY <1>4, <1>7 DEF Entry
  <2>2. PICK n \in 1..Len(windows) : map[m] = windows[n]
    BY <1>3
  <2>3. before(map[m].key) = served[map[m].key]
    BY <1>8, <2>1
  <2> QED BY <1>11, <2>1, <2>2, <2>3 DEF LimiterInv, ShareInv
<1>12. ASSUME NEW n \in Networks, \A m \in 1..Len(map) : map[m].key = n => ~Live(map[m])
       PROVE  Recent(before(n), 0) = {} /\ Cardinality(Tokens(before(n))) <= Limit
  <2>1. CASE n \in given
    <3>1. Tokens(before(n)) = {}
      BY <1>8, <2>1
    <3>2. Recent(before(n), 0) = {}
      BY <3>1 DEF Recent
    <3> QED BY <1>6, <3>1, <3>2, FS_EmptySet
  <2>2. CASE n \notin given
    <3>1. ASSUME NEW m \in 1..Len(windows), windows[m].key = n, Live(windows[m]) PROVE FALSE
      <4>1. PICK k \in 1..Len(map) : map[k].key = n
        BY <1>4, <2>2, <3>1
      <4>2. PICK j \in 1..Len(windows) : map[k] = windows[j]
        BY <1>3
      <4>3. j = m
        BY <1>2, <3>1, <4>1, <4>2 DEF OneWindowEach
      <4> QED BY <1>12, <3>1, <4>1, <4>2, <4>3
    <3>2. before(n) = served[n]
      BY <1>8, <2>2
    <3> QED BY <3>1, <3>2 DEF LimiterInv, ShareInv
  <2> QED BY <2>1, <2>2
<1>13. \A n \in 1..Len(post) : post[n].key = key => (allowed <=> post[n].count <= Limit)
  <2>1. \A m, n \in 1..Len(post) : post[m].key = key /\ post[n].key = key => m = n
    BY <1>5 DEF OneWindowEach
  <2> QED BY <1>1, <2>1 DEF Allowed
<1>14. ASSUME NEW n \in 1..Len(post), Live(post[n])
       PROVE  LET w == post[n] IN
              /\ Cardinality(Recent(served'[w.key], Window - w.left)) = Smaller(w.count, Limit)
              /\ Cardinality(Older(served'[w.key], Window - w.left)) <= Limit
  <2>1. CASE post[n].key # key
    <3>1. PICK m \in 1..Len(map) : map[m] = post[n]
      BY <1>5, <2>1
    <3>2. Live(map[m])
      BY <1>14, <3>1
    <3>3. post[n].key \in Networks /\ before(post[n].key) = served[post[n].key]
      BY <1>11, <3>1, <3>2
    <3>4. served'[post[n].key] = served[post[n].key]
      BY <1>8, <2>1, <3>3
    <3> QED BY <1>11, <3>1, <3>2, <3>4
  <2>2. CASE post[n].key = key
    <3> DEFINE g == served'[key]
               f == before(key)
    <3>1. allowed <=> post[n].count <= Limit
      BY <1>13, <2>2
    <3>2. g = IF allowed THEN after(key) ELSE f
      BY <1>8
    <3>3. f \in Ages /\ IsFiniteSet(Tokens(f))
      BY <1>8
    <3>4. ASSUME NEW m \in 1..Len(map), map[m].key = key, Live(map[m]),
                 post[n].count = map[m].count + 1, post[n].left = map[m].left
          PROVE  /\ Cardinality(Recent(g, Window - post[n].left)) = Smaller(post[n].count, Limit)
                 /\ Cardinality(Older(g, Window - post[n].left)) <= Limit
      <4> DEFINE old == Window - map[m].left
      <4>1. map[m].count \in Nat /\ old \in Nat /\ old = Window - post[n].left
        BY <1>6, <1>7, <3>4 DEF Entry
      <4>2. f = served[key] /\ Cardinality(Recent(f, old)) = Smaller(map[m].count, Limit)
            /\ Cardinality(Older(f, old)) <= Limit
        BY <1>11, <3>4
      <4> HIDE DEF f, g, old
      <4>3. CASE allowed
        <5>1. /\ Cardinality(Recent(g, old)) = Cardinality(Recent(f, old)) + 1
              /\ Older(g, old) = Older(f, old)
          BY <1>9, <3>2, <4>1, <4>3 DEF f
        <5>2. map[m].count + 1 <= Limit
          BY <3>1, <3>4, <4>3
        <5> QED BY <1>6, <3>4, <4>1, <4>2, <5>1, <5>2 DEF Smaller
      <4>4. CASE ~allowed
        <5>1. g = f
          BY <3>2, <4>4
        <5>2. ~(map[m].count + 1 <= Limit)
          BY <3>1, <3>4, <4>4
        <5> QED BY <1>6, <3>4, <4>1, <4>2, <5>1, <5>2 DEF Smaller
      <4> QED BY <4>3, <4>4
    <3>5. ASSUME \A m \in 1..Len(map) : map[m].key = key => ~Live(map[m]),
                 post[n].count = 1, post[n].left = Window
          PROVE  /\ Cardinality(Recent(g, Window - post[n].left)) = Smaller(post[n].count, Limit)
                 /\ Cardinality(Older(g, Window - post[n].left)) <= Limit
      <4>1. Recent(f, 0) = {} /\ Cardinality(Tokens(f)) <= Limit
        BY <1>12, <3>5
      <4>2. allowed /\ Window - post[n].left = 0 /\ Smaller(post[n].count, Limit) = 1
        BY <1>6, <3>1, <3>5 DEF Smaller
      <4>3. Cardinality(Recent(g, 0)) = Cardinality(Recent(f, 0)) + 1 /\ Older(g, 0) = Older(f, 0)
        <5> HIDE DEF f, g
        <5> QED BY <1>9, <3>2, <4>2 DEF f
      <4>4. Cardinality(Recent(f, 0)) = 0
        BY <4>1, FS_EmptySet
      <4>5. Older(f, 0) \in SUBSET Tokens(f)
        BY DEF Older
      <4> HIDE DEF f, g
      <4>6. Cardinality(Older(f, 0)) <= Limit
        <5>1. /\ Cardinality(Older(f, 0)) <= Cardinality(Tokens(f))
              /\ Cardinality(Older(f, 0)) \in Nat /\ Cardinality(Tokens(f)) \in Nat
          BY <3>3, <4>5, FS_Subset, FS_CardinalityType
        <5> QED BY <1>6, <4>1, <5>1
      <4> QED BY <4>2, <4>3, <4>4, <4>6
    <3> QED BY <1>5, <2>2, <3>4, <3>5
  <2> QED BY <2>1, <2>2
<1>15. ASSUME NEW n \in Networks, \A m \in 1..Len(post) : post[m].key = n => ~Live(post[m])
       PROVE  Recent(served'[n], 0) = {} /\ Cardinality(Tokens(served'[n])) <= Limit
  <2>1. n # key
    <3>1. \A m \in 1..Len(post) : post[m].key = key => Live(post[m])
      <4>1. \A m \in 1..Len(post) : post[m].key = key => post[m].left > 0
        BY <1>5, <1>6 DEF Live
      <4> QED BY <4>1 DEF Live
    <3> QED BY <1>5, <1>15, <3>1
  <2>2. \A m \in 1..Len(map) : map[m].key = n => ~Live(map[m])
    BY <1>5, <1>15, <2>1
  <2>3. served'[n] = before(n)
    BY <1>8, <2>1
  <2> QED BY <1>12, <2>2, <2>3
<1>16. ShareInv'
  BY <1>1, <1>14, <1>15 DEF ShareInv
<1>17. windows' \in Seq(Entry) /\ KeysInv'
  BY <1>1, <1>3, <1>5, <1>6, <1>7 DEF KeysInv, OneWindowEach
<1>18. ASSUME NEW most \in Nat, \A n \in 1..Len(windows) : windows[n].count <= most
       PROVE  \A n \in 1..Len(windows') : windows'[n].count <= most + 1
  <2>1. \A m \in 1..Len(map) : map[m].count <= most /\ map[m].count \in Nat
    BY <1>3, <1>7, <1>18 DEF Entry
  <2>2. ASSUME NEW n \in 1..Len(post) PROVE post[n].count <= most + 1
    <3>1. CASE post[n].key # key
      BY <1>5, <2>1, <3>1
    <3>2. CASE post[n].key = key
      BY <1>5, <2>1, <3>2
    <3> QED BY <3>1, <3>2
  <2> QED BY <1>1, <2>2
<1>19. QED
  BY <1>10, <1>16, <1>17, <1>18 DEF LimiterInv

LEMMA TickIs ==
  ASSUME LimiterInv, Tick
  PROVE  /\ LimiterInv' /\ Len(windows') = Len(windows)
         /\ \A n \in 1..Len(windows) : windows'[n].count = windows[n].count
<1> DEFINE aged(f) == [age \in 0..(Window - 1) |-> IF age = 0 THEN 0 ELSE f[age - 1]]
           ticked(w) == [w EXCEPT !.left = IF @ > 0 THEN @ - 1 ELSE 0]
<1>1. Window \in Nat \ {0} /\ Limit \in Nat \ {0}
  BY Constants
<1>2. windows \in Seq(Entry) /\ Len(windows) \in Nat /\ \A n \in 1..Len(windows) : windows[n] \in Entry
  BY MapIs DEF LimiterInv
<1>3. windows' = [n \in 1..Len(windows) |-> ticked(windows[n])]
  BY Zenon DEF Tick
<1>4. ASSUME NEW w \in Entry
      PROVE  /\ ticked(w) \in Entry /\ ticked(w).key = w.key /\ ticked(w).count = w.count
             /\ ticked(w).left = IF w.left > 0 THEN w.left - 1 ELSE 0
  <2>1. w.left \in 0..Window /\ (IF w.left > 0 THEN w.left - 1 ELSE 0) \in 0..Window
    BY <1>1 DEF Entry
  <2>2. ticked(w) = [w EXCEPT !.left = IF w.left > 0 THEN w.left - 1 ELSE 0]
    OBVIOUS
  <2> HIDE DEF ticked
  <2> QED BY <2>1, <2>2 DEF Entry
<1> HIDE DEF ticked
<1>5. ASSUME NEW n \in 1..Len(windows)
      PROVE  /\ windows'[n] \in Entry /\ windows'[n].key = windows[n].key
             /\ windows'[n].count = windows[n].count
             /\ windows'[n].left = IF windows[n].left > 0 THEN windows[n].left - 1 ELSE 0
  <2>1. windows'[n] = ticked(windows[n])
    BY <1>3
  <2> QED BY <1>2, <1>4, <2>1
<1>6. windows' \in [1..Len(windows) -> Entry]
  BY <1>3, <1>5
<1>7. windows' \in Seq(Entry) /\ Len(windows') = Len(windows)
  BY <1>2, <1>6, FunctionIsSeq
<1>8. KeysInv'
  BY <1>5, <1>7 DEF LimiterInv, KeysInv, OneWindowEach
<1>9. ASSUME NEW n \in Networks
      PROVE  /\ served[n] \in Ages /\ IsFiniteSet(Tokens(served[n]))
             /\ served'[n] = aged(served[n])
  <2>1. served[n] \in Ages /\ IsFiniteSet(Tokens(served[n]))
    BY DEF LimiterInv, ServedInv
  <2>2. DOMAIN served[n] = 0..(Window - 1)
    BY <2>1 DEF Ages
  <2>3. served'[n] = [age \in DOMAIN served[n] |-> IF age = 0 THEN 0 ELSE served[n][age - 1]]
    BY DEF Tick
  <2> QED BY <2>1, <2>2, <2>3
<1>10. ASSUME NEW n \in Networks
       PROVE  /\ served'[n] \in Ages /\ IsFiniteSet(Tokens(served'[n]))
              /\ Cardinality(Tokens(served'[n])) <= Cardinality(Tokens(served[n]))
              /\ Recent(served'[n], 0) = {}
              /\ \A old \in Nat : old + 1 < Window =>
                   /\ Cardinality(Recent(served'[n], old + 1)) = Cardinality(Recent(served[n], old))
                   /\ Cardinality(Older(served'[n], old + 1)) <= Cardinality(Older(served[n], old))
  BY <1>9, TokensAge
<1> HIDE DEF aged
<1>11. ServedInv'
  <2>1. served' \in [Networks -> Ages]
    BY <1>10 DEF Tick
  <2> QED BY <1>10, <2>1 DEF ServedInv
<1>12. ASSUME NEW n \in 1..Len(windows), Live(windows'[n])
       PROVE  LET w == windows'[n] IN
              /\ Cardinality(Recent(served'[w.key], Window - w.left)) = Smaller(w.count, Limit)
              /\ Cardinality(Older(served'[w.key], Window - w.left)) <= Limit
  <2> DEFINE old == Window - windows[n].left
             key == windows[n].key
  <2>1. windows[n] \in Entry
    BY <1>2
  <2>2. key \in Networks /\ windows[n].left \in 0..Window
    BY <2>1 DEF Entry
  <2>3. windows[n].left > 1 /\ windows'[n].left = windows[n].left - 1
    BY <1>5, <1>12, <2>2 DEF Live
  <2>4. old \in Nat /\ old + 1 < Window /\ Window - windows'[n].left = old + 1 /\ Live(windows[n])
    BY <1>1, <2>2, <2>3 DEF Live
  <2>5. /\ Cardinality(Recent(served[key], old)) = Smaller(windows[n].count, Limit)
        /\ Cardinality(Older(served[key], old)) <= Limit
    BY <2>4 DEF LimiterInv, ShareInv
  <2>6. /\ Cardinality(Recent(served'[key], old + 1)) = Cardinality(Recent(served[key], old))
        /\ Cardinality(Older(served'[key], old + 1)) <= Cardinality(Older(served[key], old))
    BY <1>10, <2>2, <2>4
  <2>7. Cardinality(Older(served'[key], old + 1)) <= Limit
    <3>1. IsFiniteSet(Older(served'[key], old + 1)) /\ IsFiniteSet(Older(served[key], old))
      BY <1>9, <1>10, <2>2, FS_Subset DEF Older
    <3>2. /\ Cardinality(Older(served'[key], old + 1)) \in Nat
          /\ Cardinality(Older(served[key], old)) \in Nat
      BY <3>1, FS_CardinalityType
    <3> QED BY <1>1, <2>5, <2>6, <3>2
  <2> HIDE DEF old, key
  <2> QED BY <1>5, <2>4, <2>5, <2>6, <2>7 DEF key
<1>13. ASSUME NEW n \in Networks, \A m \in 1..Len(windows) : windows'[m].key = n => ~Live(windows'[m])
       PROVE  Recent(served'[n], 0) = {} /\ Cardinality(Tokens(served'[n])) <= Limit
  <2>1. Cardinality(Tokens(served[n])) <= Limit
    <3>1. CASE \A m \in 1..Len(windows) : windows[m].key = n => ~Live(windows[m])
      BY <3>1 DEF LimiterInv, ShareInv
    <3>2. ASSUME NEW m \in 1..Len(windows), windows[m].key = n, Live(windows[m])
          PROVE  Cardinality(Tokens(served[n])) <= Limit
      <4>1. ~Live(windows'[m])
        BY <1>5, <1>13, <3>2
      <4>2. windows[m].left = 1 /\ windows[m].count \in Nat
        <5>1. windows[m] \in Entry
          BY <1>2
        <5>2. windows[m].left \in 0..Window /\ windows[m].count \in Nat
          BY <5>1 DEF Entry
        <5>3. windows[m].left > 0
          BY <3>2 DEF Live
        <5>4. ~(windows[m].left - 1 > 0)
          BY <1>5, <4>1, <5>3 DEF Live
        <5> QED BY <1>1, <5>2, <5>3, <5>4
      <4>3. Cardinality(Recent(served[n], Window - 1)) = Smaller(windows[m].count, Limit)
        BY <3>2, <4>2 DEF LimiterInv, ShareInv
      <4>4. Recent(served[n], Window - 1) = Tokens(served[n])
        <5>1. \A t \in Tokens(served[n]) : t[1] <= Window - 1
          BY <1>1, <1>9, TokenParts
        <5> QED BY <5>1 DEF Recent
      <4> QED BY <1>1, <4>2, <4>3, <4>4 DEF Smaller
    <3> QED BY <3>1, <3>2
  <2>2. Cardinality(Tokens(served[n])) \in Nat /\ Cardinality(Tokens(served'[n])) \in Nat
    BY <1>9, <1>10, FS_CardinalityType
  <2> QED BY <1>1, <1>10, <2>1, <2>2
<1>14. ShareInv'
  BY <1>7, <1>12, <1>13 DEF ShareInv
<1>15. QED
  BY <1>5, <1>7, <1>8, <1>11, <1>14 DEF LimiterInv

\* A network was let through at most two limits' worth of times as long as a window is.
LEMMA ShareIs == LimiterInv => FreeShare
<1> SUFFICES ASSUME LimiterInv PROVE FreeShare
  OBVIOUS
<1>1. Window \in Nat \ {0} /\ Limit \in Nat \ {0}
  BY Constants
<1>2. \A n \in 1..Len(windows) : windows[n] \in Entry
  BY MapIs DEF LimiterInv
<1>3. ASSUME NEW n \in 1..Len(windows), Live(windows[n])
      PROVE  LET w == windows[n]
                 total == Cardinality(Tokens(served[w.key]))
             IN  total \in Nat /\ total <= 2 * Limit /\ (total >= w.count \/ total >= Limit)
  <2> DEFINE key == windows[n].key
             old == Window - windows[n].left
             young == Recent(served[key], old)
             rest == Older(served[key], old)
  <2>1. key \in Networks /\ old \in Nat /\ windows[n].count \in Nat
    BY <1>1, <1>2 DEF Entry
  <2>2. served[key] \in Ages /\ IsFiniteSet(Tokens(served[key]))
    BY <2>1 DEF LimiterInv, ServedInv
  <2>3. Cardinality(young) = Smaller(windows[n].count, Limit) /\ Cardinality(rest) <= Limit
    BY <1>3 DEF LimiterInv, ShareInv
  <2>4. young \in SUBSET Tokens(served[key]) /\ rest \in SUBSET Tokens(served[key])
    BY DEF Recent, Older
  <2>5. Tokens(served[key]) = young \cup rest /\ young \cap rest = {}
    <3>1. \A t \in Tokens(served[key]) : t[1] \in Nat
      BY <2>2, TokenParts
    <3>2. \A t \in Tokens(served[key]) : (t[1] <= old) # (t[1] > old)
      BY <2>1, <3>1
    <3> HIDE DEF key, old
    <3> QED BY <3>2 DEF Recent, Older
  <2> HIDE DEF young, rest
  <2>6. IsFiniteSet(young) /\ IsFiniteSet(rest)
    BY <2>2, <2>4, FS_Subset
  <2>7. /\ Cardinality(Tokens(served[key])) = Cardinality(young) + Cardinality(rest) - Cardinality({})
        /\ Cardinality({}) = 0 /\ Cardinality(young) \in Nat /\ Cardinality(rest) \in Nat
    BY <2>5, <2>6, FS_Union, FS_EmptySet, FS_CardinalityType
  <2> HIDE DEF key
  <2>8. /\ Cardinality(Tokens(served[key])) \in Nat
        /\ Cardinality(Tokens(served[key])) <= 2 * Limit
        /\ Cardinality(Tokens(served[key])) >= Smaller(windows[n].count, Limit)
    BY <1>1, <2>1, <2>3, <2>7 DEF Smaller
  <2> QED BY <1>1, <2>1, <2>8 DEF key, Smaller
<1>4. \A n \in Networks : ServedLately(n) <= 2 * Limit
  <2> SUFFICES ASSUME NEW key \in Networks PROVE Cardinality(Tokens(served[key])) <= 2 * Limit
    BY DEF ServedLately
  <2>1. CASE \E n \in 1..Len(windows) : windows[n].key = key /\ Live(windows[n])
    BY <1>3, <2>1
  <2>2. CASE \A n \in 1..Len(windows) : windows[n].key = key => ~Live(windows[n])
    <3>1. Cardinality(Tokens(served[key])) <= Limit
      BY <2>2 DEF LimiterInv, ShareInv
    <3>2. Cardinality(Tokens(served[key])) \in Nat
      BY FS_CardinalityType DEF LimiterInv, ServedInv
    <3> QED BY <1>1, <3>1, <3>2
  <2> QED BY <2>1, <2>2
<1>5. \A n \in 1..Len(windows) : Live(windows[n]) =>
        \/ ServedLately(windows[n].key) >= windows[n].count
        \/ ServedLately(windows[n].key) >= Limit
  BY <1>3 DEF ServedLately
<1>6. QED
  BY <1>4, <1>5 DEF FreeShare, LimiterInv, KeysInv, OneWindowEach

-----------------------------------------------------------------------------
(* The limiter, step by step.                                              *)

\* A request that is served is no longer on its way, and only where it is admitted is it
\* checked.
LEMMA ServedIsChecked ==
  ASSUME BaseInv, NEW s \in Slots, Serve(s) \/ Show(s) \/ Lose(s)
  PROVE  /\ calls'[s].stage # "sent" /\ requests' = requests
         /\ \A r \in Slots \ {s} : calls'[r] = calls[r]
         /\ \/ UNCHANGED limiter
            \/ /\ s # "agent" /\ calls[s].stage = "sent"
               /\ \E allowed \in BOOLEAN : Check(Home, allowed)
<1> DEFINE call == calls[s]
<1>1. calls \in [Slots -> Call \cup {NoCall}]
  BY DEF BaseInv, CallsInv
<1>2. call.stage # "free" => call \in Call
  BY <1>1 DEF NoCall
<1>3. ASSUME NEW next, calls' = [calls EXCEPT ![s] = next], next.stage # "sent"
      PROVE  calls'[s].stage # "sent" /\ \A r \in Slots \ {s} : calls'[r] = calls[r]
  BY <1>1, <1>3
<1>4. ASSUME NEW status \in Nat, call \in Call, calls' = [calls EXCEPT ![s] = Replied(call, status)]
      PROVE  calls'[s].stage # "sent" /\ \A r \in Slots \ {s} : calls'[r] = calls[r]
  <2>1. Replied(call, status).stage # "sent"
    BY <1>4, RepliedIs
  <2> QED BY <1>3, <1>4, <2>1
<1>5. CASE Admit(s)
  <2> DEFINE on == [call EXCEPT !.stage = "arms",
                                !.lexical = IF call.mode = "vector" THEN <<>> ELSE None,
                                !.vector = IF call.mode = "lexical" THEN <<>> ELSE None]
  <2>1. call \in Call /\ call.stage = "sent" /\ requests' = requests
    BY <1>2, <1>5 DEF Admit
  <2>2. on.stage # "sent"
    <3> HIDE DEF call
    <3> QED BY <2>1 DEF Call
  <2>3. calls' \in {[calls EXCEPT ![s] = on]} \cup
                   {[calls EXCEPT ![s] = Replied(call, status)] : status \in {404, 429}}
    BY <1>5 DEF Admit, Becomes
  <2>4. UNCHANGED limiter \/ (s # "agent" /\ \E allowed \in BOOLEAN : Check(Home, allowed))
    BY <1>5, Zenon DEF Admit
  <2> HIDE DEF on
  <2>5. calls'[s].stage # "sent" /\ \A r \in Slots \ {s} : calls'[r] = calls[r]
    BY <1>3, <1>4, <2>1, <2>2, <2>3
  <2> QED BY <2>1, <2>4, <2>5
<1>6. CASE LexicalArm(s)
  <2> DEFINE next == [call EXCEPT !.lexical = Retrieved(Lexical[call.query], call.offset)]
  <2>1. call.stage = "arms" /\ calls' = [calls EXCEPT ![s] = next] /\ UNCHANGED <<limiter, requests>>
    BY <1>6 DEF LexicalArm, Becomes
  <2>2. next.stage # "sent"
    <3>1. call \in Call
      BY <1>2, <2>1
    <3> HIDE DEF call
    <3> QED BY <2>1, <3>1 DEF Call
  <2> QED BY <1>3, <2>1, <2>2
<1>7. CASE VectorArm(s)
  <2> DEFINE next == [call EXCEPT !.vector = Retrieved(Nearest[call.query], call.offset)]
  <2>1. call.stage = "arms" /\ calls' = [calls EXCEPT ![s] = next] /\ UNCHANGED <<limiter, requests>>
    BY <1>7 DEF VectorArm, Becomes
  <2>2. next.stage # "sent"
    <3>1. call \in Call
      BY <1>2, <2>1
    <3> HIDE DEF call
    <3> QED BY <2>1, <3>1 DEF Call
  <2> QED BY <1>3, <2>1, <2>2
<1>8. CASE Lookup(s)
  <2>1. calls' = [calls EXCEPT ![s] = calls'[s]] /\ calls'[s].stage = "replied"
    BY <1>8, LookupIs DEF BaseInv
  <2>2. UNCHANGED <<limiter, requests>>
    BY <1>8 DEF Lookup
  <2> QED BY <1>3, <2>1, <2>2
<1>9. CASE Show(s)
  <2>1. NoCall.stage # "sent"
    BY DEF NoCall
  <2> QED BY <1>3, <1>9, <2>1 DEF Show, Becomes
<1>10. CASE Lose(s)
  <2> DEFINE lost == [call EXCEPT !.lexical = None, !.vector = None]
  <2>1. call \in Call /\ calls' = [calls EXCEPT ![s] = Replied(lost, 500)] /\ UNCHANGED <<limiter, requests>>
    BY <1>2, <1>10 DEF Lose, Becomes
  <2>2. lost \in Call
    <3> HIDE DEF call
    <3> QED BY <2>1 DEF Call
  <2> HIDE DEF lost
  <2>3. Replied(lost, 500).stage # "sent"
    BY <2>2, RepliedIs
  <2> QED BY <1>3, <2>1, <2>3
<1>11. QED
  BY <1>5, <1>6, <1>7, <1>8, <1>9, <1>10 DEF Serve

LEMMA LimiterStart ==
  ASSUME Init
  PROVE  LimiterInv /\ CountInv
<1>1. windows = <<>> /\ windows \in Seq(Entry) /\ Len(windows) = 0
  BY EmptySeq DEF Init
<1>2. Limit \in Nat \ {0} /\ MAX_KEYS \in Nat \ {0}
  BY Constants
<1>3. KeysInv
  BY <1>1, <1>2 DEF KeysInv, OneWindowEach
<1>4. \A n \in Networks : served[n] = [age \in 0..(Window - 1) |-> 0]
  BY DEF Init
<1>5. \A n \in Networks : served[n] \in Ages /\ Tokens(served[n]) = {}
  BY <1>4, NoTokens
<1>6. ServedInv
  <2>1. served \in [Networks -> Ages]
    BY <1>5 DEF Init
  <2> QED BY <1>5, <2>1, FS_EmptySet DEF ServedInv
<1>7. ShareInv
  <2>1. \A n \in Networks : Recent(served[n], 0) = {} /\ Cardinality(Tokens(served[n])) = 0
    BY <1>5, FS_EmptySet DEF Recent
  <2> QED BY <1>1, <1>2, <2>1 DEF ShareInv
<1>8. CountInv
  <2>1. calls["box"].stage # "sent"
    BY DEF Init, NoCall, Slots
  <2> QED BY <1>1, <2>1 DEF CountInv
<1>9. QED
  BY <1>1, <1>3, <1>6, <1>7, <1>8 DEF LimiterInv

LEMMA CountsStay ==
  ASSUME NEW l \in Nat, NEW m \in Nat, NEW n \in Nat
  PROVE  /\ l <= m + 1 /\ m + 1 <= n => l <= n
         /\ l <= m + 1 /\ m + 1 <= n - 1 => l <= n - 1
         /\ l >= 1 /\ l <= n => n >= 1 /\ l - 1 <= n - 1
OBVIOUS

LEMMA LimiterStep ==
  ASSUME BaseInv, LimiterInv, CountInv, [Next]_vars
  PROVE  LimiterInv' /\ CountInv'
<1> DEFINE sent == calls["box"].stage = "sent"
           most == IF sent THEN requests - 1 ELSE requests
<1>1. /\ requests \in Nat /\ windows \in Seq(Entry)
      /\ sent => requests >= 1
      /\ \A n \in 1..Len(windows) : windows[n].count <= most
  BY DEF BaseInv, StoreInv, CountInv
<1>2. \A n \in 1..Len(windows) : windows[n].count \in Nat
  BY <1>1, MapIs DEF Entry
<1>3. most \in Nat /\ most <= requests
  BY <1>1
<1>4. /\ calls \in [Slots -> Call \cup {NoCall}] /\ calls["box2"].stage # "sent" /\ OneAtATime
      /\ "box" \in Slots /\ "box2" \in Slots /\ "agent" \in Slots /\ Home \in Networks
  BY Constants DEF BaseInv, CallsInv, BoxInv, OneAtATime, NoCall, Slots
<1>5. ASSUME UNCHANGED limiter, requests' \in Nat,
             calls'["box"].stage = "sent" => requests' >= 1 /\ most <= requests' - 1,
             requests <= requests'
      PROVE  LimiterInv' /\ CountInv'
  <2>1. LimiterInv'
    BY <1>5 DEF LimiterInv, KeysInv, ServedInv, ShareInv, limiter
  <2>2. windows' = windows
    BY <1>5 DEF limiter
  <2>3. \A n \in 1..Len(windows') :
          windows'[n].count <= IF calls'["box"].stage = "sent" THEN requests' - 1 ELSE requests'
    <3> HIDE DEF most
    <3> QED BY <1>1, <1>2, <1>3, <1>5, <2>2
  <2> QED BY <1>1, <1>5, <2>1, <2>2, <2>3 DEF CountInv
<1>6. ASSUME UNCHANGED limiter, requests' \in Nat, requests <= requests',
             calls'["box"].stage = "sent" => sent
      PROVE  LimiterInv' /\ CountInv'
  <2>1. requests \in Nat /\ (sent => requests >= 1) /\ (sent => most = requests - 1)
    BY <1>1
  <2> HIDE DEF sent, most
  <2>2. ASSUME sent PROVE requests' >= 1 /\ most <= requests' - 1
    <3>1. requests >= 1 /\ most = requests - 1
      BY <2>1, <2>2
    <3> QED BY <1>6, <2>1, <3>1, CountsStay
  <2> QED BY <1>5, <1>6, <2>2
<1>7. ASSUME NEW key \in Networks, NEW allowed \in BOOLEAN, Check(key, allowed), requests' \in Nat,
             calls'["box"].stage = "sent" => requests' >= 1 /\ most + 1 <= requests' - 1,
             most + 1 <= requests'
      PROVE  LimiterInv' /\ CountInv'
  <2>1. LimiterInv' /\ \A n \in 1..Len(windows') : windows'[n].count <= most + 1
    <3> HIDE DEF most
    <3> QED BY <1>1, <1>3, <1>7, CheckIs
  <2>2. windows' \in Seq(Entry)
    BY <2>1 DEF LimiterInv
  <2>3. \A n \in 1..Len(windows') : windows'[n].count \in Nat
    BY <2>2, MapIs DEF Entry
  <2>4. \A n \in 1..Len(windows') :
          windows'[n].count <= IF calls'["box"].stage = "sent" THEN requests' - 1 ELSE requests'
    <3> DEFINE later == calls'["box"].stage = "sent"
    <3>1. most \in Nat /\ requests' \in Nat /\ most + 1 <= requests' /\ (later => most + 1 <= requests' - 1)
      BY <1>3, <1>7
    <3> HIDE DEF most, later
    <3>2. ASSUME NEW n \in 1..Len(windows')
          PROVE  windows'[n].count <= IF later THEN requests' - 1 ELSE requests'
      <4> DEFINE count == windows'[n].count
      <4>1. count \in Nat /\ count <= most + 1
        BY <2>1, <2>3
      <4> HIDE DEF count
      <4>2. count <= requests' /\ (later => count <= requests' - 1)
        BY <3>1, <4>1, CountsStay
      <4> QED BY <4>2 DEF count
    <3> QED BY <3>2 DEF later
  <2> QED BY <1>7, <2>1, <2>2, <2>4 DEF CountInv
<1>8. CASE \E d \in Documents : EmbedDocument(d) \/ Evict(d)
  BY <1>1, <1>6, <1>8 DEF EmbedDocument, Evict
<1>9. CASE Tick
  <2>1. LimiterInv' /\ Len(windows') = Len(windows)
        /\ \A n \in 1..Len(windows) : windows'[n].count = windows[n].count
    BY <1>9, TickIs
  <2>2. calls' = calls /\ requests' = requests
    BY <1>9 DEF Tick
  <2> QED BY <1>1, <2>1, <2>2 DEF CountInv, LimiterInv
<1>10. ASSUME NEW n \in Networks, Visit(n) PROVE LimiterInv' /\ CountInv'
  <2>1. PICK allowed \in BOOLEAN : Check(n, allowed)
    BY <1>10 DEF Visit
  <2>2. requests' = requests + 1 /\ calls' = calls
    BY <1>10 DEF Visit
  <2> QED BY <1>1, <1>7, <2>1, <2>2
<1>11. ASSUME NEW s \in Slots, Serve(s) \/ Show(s) \/ Lose(s) PROVE LimiterInv' /\ CountInv'
  <2>1. /\ calls'[s].stage # "sent" /\ requests' = requests
        /\ \A r \in Slots \ {s} : calls'[r] = calls[r]
        /\ \/ UNCHANGED limiter
           \/ /\ s # "agent" /\ calls[s].stage = "sent"
              /\ \E allowed \in BOOLEAN : Check(Home, allowed)
    BY <1>11, ServedIsChecked
  <2>2. calls'["box"].stage = "sent" => sent
    BY <1>4, <2>1
  <2>3. CASE UNCHANGED limiter
    BY <1>1, <1>6, <2>1, <2>2, <2>3
  <2>4. CASE s # "agent" /\ calls[s].stage = "sent" /\ \E allowed \in BOOLEAN : Check(Home, allowed)
    <3>1. s = "box" /\ sent
      BY <1>4, <2>4 DEF Slots
    <3>2. most + 1 <= requests' /\ requests' \in Nat /\ calls'["box"].stage # "sent"
      BY <1>1, <2>1, <3>1
    <3>3. PICK allowed \in BOOLEAN : Check(Home, allowed)
      BY <2>4
    <3> HIDE DEF most
    <3> QED BY <1>4, <1>7, <3>2, <3>3
  <2> QED BY <2>1, <2>3, <2>4
<1>12. CASE TurnPage \/ \E query \in Typed, mode \in Modes : SetOut(query, mode)
  <2>1. /\ calls' = [calls EXCEPT !["agent"] = calls'["agent"]]
        /\ UNCHANGED limiter /\ requests' \in requests..MaxRequests
    BY <1>12, AgentAsks
  <2>2. requests' \in Nat /\ requests <= requests'
    BY <1>1, <2>1, Constants
  <2>3. calls'["box"] = calls["box"]
    BY <1>4, <2>1
  <2> QED BY <1>6, <2>1, <2>2, <2>3
<1>13. CASE Arrive \/ (\E query \in Typed : Submit(query)) \/ Refresh
  <2>1. UNCHANGED limiter
    BY <1>4, <1>13, BoxAsks
  <2>2. PICK query \in Queries, sample \in BOOLEAN, silent \in BOOLEAN :
          Ignores(query, sample) \/ Asks(query, sample, silent)
    BY <1>4, <1>13, BoxAsks
  <2>3. CASE Ignores(query, sample)
    BY <1>1, <1>6, <2>1, <2>3 DEF Ignores
  <2>4. CASE Asks(query, sample, silent)
    BY <1>1, <1>3, <1>5, <2>1, <2>4 DEF Asks
  <2> QED BY <2>2, <2>3, <2>4
<1>14. CASE UNCHANGED vars
  BY <1>1, <1>6, <1>14 DEF vars
<1>15. QED
  BY <1>8, <1>9, <1>10, <1>11, <1>12, <1>13, <1>14 DEF Next

LEMMA LimiterHolds == Spec => [](LimiterInv /\ CountInv)
<1>1. Init => LimiterInv /\ CountInv
  BY LimiterStart
<1>2. BaseInv /\ (LimiterInv /\ CountInv) /\ [Next]_vars => (LimiterInv /\ CountInv)'
  BY LimiterStep
<1>3. QED
  BY <1>1, <1>2, BaseHolds, PTL DEF Spec

\* The limiter, however its map is swept and its windows end: a network is let through
\* at most two limits' worth of times in the length of one window and is not refused
\* before it had one, and the map never outgrows its cap (rate-limit.ts, check and sweep).
THEOREM FreeShareHolds == Spec => []FreeShare
<1>1. LimiterInv /\ CountInv => FreeShare
  BY ShareIs
<1>2. QED
  BY <1>1, LimiterHolds, PTL

\* Every variable keeps its type: what an arm found is distinct passages and no more than
\* it may retrieve, an answer is no longer than what was asked for, and a window counts no
\* more than was asked.
THEOREM TypesHold == Spec => []TypeOK
<1>1. ASSUME BaseInv, LimiterInv, CountInv PROVE TypeOK
  <2>1. MaxRequests \in Nat /\ requests \in 0..MaxRequests
    BY <1>1, Constants DEF BaseInv, StoreInv
  <2>2. open \in BOOLEAN /\ stamp \in [Documents -> 0..edits] /\ edits \in 1..(MaxEdits + 1)
    BY <1>1 DEF BaseInv, StoreInv
  <2>3. ASSUME NEW s \in Slots, calls[s] # NoCall
        PROVE  /\ calls[s].stage \in {"sent", "arms", "replied"}
               /\ \A arm \in {calls[s].lexical, calls[s].vector} : arm # None =>
                    arm \in Seq(Hits) /\ IsInjective(arm) /\ Len(arm) <= candidates
               /\ IsInjective(calls[s].results) /\ Len(calls[s].results) <= calls[s].topK
    <3>1. calls[s] \in Call /\ Len(calls[s].results) <= calls[s].topK
      BY <1>1, <2>3 DEF BaseInv, CallsInv
    <3> QED BY <3>1, CallFields DEF Arms, Answers
  <2>4. /\ {tab.ran, tab.shown} \subseteq Ran \cup {None} /\ tab.address \in Queries \cup {None}
        /\ tab.mode \in {"blank", "sample", "results", "empty", "limit", "commissioning"}
    BY <1>1 DEF BaseInv, BoxInv, Tab
  <2>5. walk.seen \in Seq(Documents) /\ walk.offset \in 0..MaxOffset
    BY <1>1 DEF BaseInv, AgentInv, Walk
  <2>6. windows \in Seq([key : Networks, count : 1..MaxRequests, left : 0..Window])
    <3>1. windows \in Seq(Entry)
      BY <1>1 DEF LimiterInv
    <3>2. /\ Len(windows) \in Nat /\ windows \in [1..Len(windows) -> Entry]
          /\ \A n \in 1..Len(windows) : windows[n] \in Entry
      BY <3>1, MapIs
    <3>3. ASSUME NEW n \in 1..Len(windows)
          PROVE  windows[n] \in [key : Networks, count : 1..MaxRequests, left : 0..Window]
      <4>1. windows[n] \in Entry
        BY <3>2
      <4>2. windows[n].count <= requests
        <5>1. windows[n].count <= IF calls["box"].stage = "sent" THEN requests - 1 ELSE requests
          BY <1>1 DEF CountInv
        <5> QED BY <2>1, <4>1, <5>1 DEF Entry
      <4>3. windows[n].count \in 1..MaxRequests
        BY <2>1, <4>1, <4>2 DEF Entry
      <4> QED BY <4>1, <4>3 DEF Entry
    <3>4. windows \in [1..Len(windows) -> [key : Networks, count : 1..MaxRequests, left : 0..Window]]
      BY <3>2, <3>3
    <3> QED BY <3>2, <3>4, FunctionIsSeq
  <2> QED BY <2>1, <2>2, <2>3, <2>4, <2>5, <2>6 DEF TypeOK
<1>2. QED
  BY <1>1, BaseHolds, LimiterHolds, PTL

-----------------------------------------------------------------------------
(* A walk.                                                                 *)

\* A page cut out of a list of hits, as the documents of it.
LEMMA PageOfWhole ==
  ASSUME NEW hits \in Seq(Hits), NEW offset \in Nat, NEW topK \in Nat
  PROVE  LET page == SubSeq(hits, offset + 1, Smaller(offset + topK, Len(hits)))
             whole == DocumentsOf(hits)
         IN  /\ page \in Seq(Hits)
             /\ offset >= Len(hits) => Len(page) = 0
             /\ offset < Len(hits) /\ offset + topK < Len(hits) => Len(page) = topK
             /\ offset < Len(hits) /\ offset + topK >= Len(hits) => Len(page) = Len(hits) - offset
             /\ \A k \in 1..Len(page) : offset + k \in 1..Len(hits) /\ page[k] = hits[offset + k]
             /\ DocumentsOf(page) = SubSeq(whole, offset + 1, Smaller(offset + topK, Len(whole)))
<1> DEFINE page == SubSeq(hits, offset + 1, Smaller(offset + topK, Len(hits)))
           whole == DocumentsOf(hits)
           part == SubSeq(whole, offset + 1, Smaller(offset + topK, Len(whole)))
<1>1. /\ whole \in Seq(Documents) /\ Len(whole) = Len(hits) /\ Len(hits) \in Nat
      /\ \A k \in 1..Len(hits) : whole[k] = DocumentOf[hits[k].passage]
  BY DocumentsOfIs, LenProperties
<1>2. /\ page \in Seq(Hits)
      /\ offset >= Len(hits) => Len(page) = 0
      /\ offset < Len(hits) /\ offset + topK < Len(hits) => Len(page) = topK
      /\ offset < Len(hits) /\ offset + topK >= Len(hits) => Len(page) = Len(hits) - offset
      /\ \A k \in 1..Len(page) : offset + k \in 1..Len(hits) /\ page[k] = hits[offset + k]
  BY PageIs
<1> HIDE DEF page, whole
<1>3. /\ part \in Seq(Documents)
      /\ offset >= Len(whole) => Len(part) = 0
      /\ offset < Len(whole) /\ offset + topK < Len(whole) => Len(part) = topK
      /\ offset < Len(whole) /\ offset + topK >= Len(whole) => Len(part) = Len(whole) - offset
      /\ \A k \in 1..Len(part) : offset + k \in 1..Len(whole) /\ part[k] = whole[offset + k]
  <2>1. whole \in Seq(Documents)
    BY <1>1
  <2> QED BY <2>1, PageIs
<1> HIDE DEF part
<1>4. /\ DocumentsOf(page) \in Seq(Documents) /\ Len(DocumentsOf(page)) = Len(page)
      /\ \A k \in 1..Len(page) : DocumentsOf(page)[k] = DocumentOf[page[k].passage]
  BY <1>2, DocumentsOfIs
<1>5. Len(page) = Len(part)
  <2>1. CASE offset >= Len(hits)
    BY <1>1, <1>2, <1>3, <2>1
  <2>2. CASE offset < Len(hits) /\ offset + topK < Len(hits)
    BY <1>1, <1>2, <1>3, <2>2
  <2>3. CASE offset < Len(hits) /\ offset + topK >= Len(hits)
    BY <1>1, <1>2, <1>3, <2>3
  <2> QED BY <1>1, <2>1, <2>2, <2>3
<1>6. \A k \in 1..Len(page) : DocumentsOf(page)[k] = part[k]
  BY <1>1, <1>2, <1>3, <1>4, <1>5
<1>7. DocumentsOf(page) = part
  BY <1>3, <1>4, <1>5, <1>6, SeqEqual
<1>8. QED
  BY <1>2, <1>7 DEF page, whole, part

\* The pages before and the next one are the pages before the one after.
LEMMA FirstPages ==
  ASSUME NEW S, NEW seq \in Seq(S), NEW offset \in Nat, NEW topK \in Nat, NEW end \in Nat,
         Len(seq) <= end
  PROVE  First(offset, seq) \o SubSeq(seq, offset + 1, Smaller(offset + topK, Len(seq)))
           = First(Smaller(offset + topK, end), seq)
<1> DEFINE before == First(offset, seq)
           page == SubSeq(seq, offset + 1, Smaller(offset + topK, Len(seq)))
           next == Smaller(offset + topK, end)
           after == First(next, seq)
<1>1. Len(seq) \in Nat
  BY LenProperties
<1>2. next \in Nat /\ (offset + topK < end => next = offset + topK)
      /\ (offset + topK >= end => next = end)
  BY DEF Smaller
<1>3. /\ before \in Seq(S) /\ Len(before) = IF offset < Len(seq) THEN offset ELSE Len(seq)
      /\ \A i \in 1..Len(before) : before[i] = seq[i]
  BY FirstIs
<1> HIDE DEF next, before
<1>4. /\ after \in Seq(S) /\ Len(after) = IF next < Len(seq) THEN next ELSE Len(seq)
      /\ \A i \in 1..Len(after) : after[i] = seq[i]
  BY <1>2, FirstIs
<1>5. /\ page \in Seq(S)
      /\ offset >= Len(seq) => Len(page) = 0
      /\ offset < Len(seq) /\ offset + topK < Len(seq) => Len(page) = topK
      /\ offset < Len(seq) /\ offset + topK >= Len(seq) => Len(page) = Len(seq) - offset
      /\ \A k \in 1..Len(page) : offset + k \in 1..Len(seq) /\ page[k] = seq[offset + k]
  BY PageIs
<1> HIDE DEF page, after
<1>6. Len(before) \in Nat /\ Len(page) \in Nat /\ Len(after) \in Nat
  BY <1>3, <1>4, <1>5, LenProperties
<1>7. /\ before \o page \in Seq(S) /\ Len(before \o page) = Len(before) + Len(page)
      /\ \A i \in 1..(Len(before) + Len(page)) :
           (before \o page)[i] = IF i <= Len(before) THEN before[i] ELSE page[i - Len(before)]
  BY <1>3, <1>5, ConcatProperties
<1>8. Len(before) + Len(page) = Len(after)
  <2>1. CASE offset >= Len(seq)
    <3>1. next >= Len(seq)
      BY <1>1, <1>2, <2>1
    <3> QED BY <1>1, <1>2, <1>3, <1>4, <1>5, <2>1, <3>1
  <2>2. CASE offset < Len(seq) /\ offset + topK < Len(seq)
    <3>1. next = offset + topK /\ Len(before) = offset /\ Len(page) = topK
      BY <1>1, <1>2, <1>3, <1>5, <2>2
    <3> QED BY <1>4, <2>2, <3>1
  <2>3. CASE offset < Len(seq) /\ offset + topK >= Len(seq)
    <3>1. next >= Len(seq) /\ Len(before) = offset /\ Len(page) = Len(seq) - offset
      BY <1>1, <1>2, <1>3, <1>5, <2>3
    <3> QED BY <1>1, <1>2, <1>4, <3>1
  <2> QED BY <1>1, <2>1, <2>2, <2>3
<1>9. ASSUME NEW i \in 1..Len(after) PROVE (before \o page)[i] = after[i]
  <2>1. CASE i <= Len(before)
    <3>1. i \in 1..Len(before)
      BY <1>6, <2>1
    <3> QED BY <1>3, <1>4, <1>7, <1>8, <1>9, <2>1, <3>1
  <2>2. CASE ~(i <= Len(before))
    <3>1. i - Len(before) \in 1..Len(page)
      BY <1>6, <1>8, <1>9, <2>2
    <3>2. Len(before) = offset
      BY <1>1, <1>3, <1>5, <1>6, <3>1
    <3>3. page[i - Len(before)] = seq[i]
      <4>1. offset + (i - Len(before)) = i
        BY <1>6, <3>2
      <4> QED BY <1>5, <3>1, <4>1
    <3> QED BY <1>4, <1>7, <1>8, <1>9, <2>2, <3>3
  <2> QED BY <2>1, <2>2
<1>10. before \o page = after
  BY <1>4, <1>7, <1>8, <1>9, SeqEqual
<1>11. QED
  BY <1>10 DEF before, page, next, after

LEMMA FirstWhole ==
  ASSUME NEW S, NEW seq \in Seq(S), NEW n \in Nat, n >= Len(seq)
  PROVE  First(n, seq) = seq
<1>1. Len(seq) \in Nat
  BY LenProperties
<1>2. /\ First(n, seq) \in Seq(S) /\ Len(First(n, seq)) = IF n < Len(seq) THEN n ELSE Len(seq)
      /\ \A i \in 1..Len(First(n, seq)) : First(n, seq)[i] = seq[i]
  BY FirstIs
<1>3. Len(First(n, seq)) = Len(seq)
  BY <1>1, <1>2
<1>4. QED
  BY <1>2, <1>3, SeqEqual

LEMMA FirstNone ==
  ASSUME NEW S, NEW seq \in Seq(S)
  PROVE  First(0, seq) = <<>>
<1>1. Len(seq) \in Nat
  BY LenProperties
<1>2. First(0, seq) \in Seq(S) /\ Len(First(0, seq)) = IF 0 < Len(seq) THEN 0 ELSE Len(seq)
  BY FirstIs
<1>3. Len(First(0, seq)) = 0
  BY <1>1, <1>2
<1>4. QED
  BY <1>2, <1>3, EmptySeq

\* What the arms of a walk would report now, and the ranking of it.
LEMMA NowIs ==
  ASSUME BaseInv, walk.query # None
  PROVE  LET hits == Ranking(LexicalNow, VectorNow) IN
         /\ LexicalNow \in Arms /\ VectorNow \in Arms
         /\ hits \in Seq(Hits) /\ Whole \in Seq(Documents)
         /\ Len(Whole) = Len(hits) /\ Len(Whole) \in Nat /\ Len(Whole) <= MaxOffset
         /\ \A k \in 1..Len(hits) : stamp[DocumentOf[hits[k].passage]] = hits[k].stamp
         /\ Len(Whole) = 0 => Short
         /\ Short => Range(Whole) = Matching
<1> DEFINE query == walk.query
           mode == walk.mode
           lexical == LexicalNow
           vector == VectorNow
           hits == Ranking(lexical, vector)
           found == Range(lexical) \cup Range(vector)
           inLexical == IF mode = "vector" THEN {} ELSE Range(Lexical[query])
           inNearest == IF mode = "lexical" THEN {} ELSE Range(Nearest[query])
<1>1. query \in Queries /\ StoreInv
  BY Constants DEF BaseInv, AgentInv, Walk
<1>2. \A order \in {Lexical[query], Nearest[query]} : order \in Seq(Passages) /\ IsInjective(order)
  BY <1>1, SearchAssumption
<1>3. stamp \in [Documents -> 0..(MaxEdits + 1)]
  <2>1. MaxEdits \in Nat /\ edits \in 1..(MaxEdits + 1) /\ stamp \in [Documents -> 0..edits]
    BY <1>1, Constants DEF StoreInv
  <2>2. 0..edits \subseteq 0..(MaxEdits + 1)
    BY <2>1
  <2> QED BY <2>1, <2>2
<1>4. candidates \in Nat \ {0} /\ MaxOffset \in Nat /\ Cardinality(Documents) <= MaxOffset
  BY Constants, SearchAssumption
\* An arm that ran.
<1>5. ASSUME NEW order \in {Lexical[query], Nearest[query]}
      PROVE  LET arm == Retrieved(order, 0) IN
             /\ arm \in Arms
             /\ \A k \in 1..Len(arm) : /\ arm[k].passage \in Range(order)
                                       /\ arm[k].stamp = stamp[DocumentOf[arm[k].passage]]
                                       /\ arm[k].stamp # 0
             /\ Len(arm) < candidates =>
                  \A p \in Range(order) : stamp[DocumentOf[p]] # 0 =>
                    \E k \in 1..Len(arm) : arm[k].passage = p
  <2>1. order \in Seq(Passages) /\ IsInjective(order)
    BY <1>2
  <2> HIDE DEF query
  <2> DEFINE arm == Retrieved(order, 0)
  <2>2. /\ arm \in Seq(Hits) /\ IsInjective(arm) /\ Len(arm) <= candidates
        /\ \A k \in 1..Len(arm) : /\ arm[k].passage \in Range(order)
                                  /\ arm[k].stamp = stamp[DocumentOf[arm[k].passage]]
                                  /\ arm[k].stamp # 0
        /\ Len(arm) < candidates =>
             \A p \in Range(order) : stamp[DocumentOf[p]] # 0 =>
               \E k \in 1..Len(arm) : arm[k].passage = p
    BY <1>3, <2>1, RetrievedIs
  <2> HIDE DEF arm
  <2> QED BY <2>2 DEF Arms, arm
<1>6. /\ lexical \in Arms
      /\ \A k \in 1..Len(lexical) : /\ lexical[k].passage \in inLexical
                                    /\ lexical[k].stamp = stamp[DocumentOf[lexical[k].passage]]
                                    /\ lexical[k].stamp # 0
      /\ Len(lexical) < candidates =>
           \A p \in inLexical : stamp[DocumentOf[p]] # 0 =>
             \E k \in 1..Len(lexical) : lexical[k].passage = p
  <2>1. CASE mode = "vector"
    <3>1. lexical = <<>> /\ inLexical = {}
      BY <2>1 DEF LexicalNow
    <3> HIDE DEF lexical, inLexical
    <3> QED BY <3>1, Nothing
  <2>2. CASE mode # "vector"
    <3>1. lexical = Retrieved(Lexical[query], 0) /\ inLexical = Range(Lexical[query])
      BY <2>2 DEF LexicalNow
    <3> HIDE DEF lexical, inLexical
    <3> QED BY <1>5, <3>1
  <2> QED BY <2>1, <2>2
<1>7. /\ vector \in Arms
      /\ \A k \in 1..Len(vector) : /\ vector[k].passage \in inNearest
                                   /\ vector[k].stamp = stamp[DocumentOf[vector[k].passage]]
                                   /\ vector[k].stamp # 0
      /\ Len(vector) < candidates =>
           \A p \in inNearest : stamp[DocumentOf[p]] # 0 =>
             \E k \in 1..Len(vector) : vector[k].passage = p
  <2>1. CASE mode = "lexical"
    <3>1. vector = <<>> /\ inNearest = {}
      BY <2>1 DEF VectorNow
    <3> HIDE DEF vector, inNearest
    <3> QED BY <3>1, Nothing
  <2>2. CASE mode # "lexical"
    <3>1. vector = Retrieved(Nearest[query], 0) /\ inNearest = Range(Nearest[query])
      BY <2>2 DEF VectorNow
    <3> HIDE DEF vector, inNearest
    <3> QED BY <1>5, <3>1
  <2> QED BY <2>1, <2>2
<1>8. inLexical \cup inNearest \subseteq Passages
  BY <1>2, SeqRangeFinite
<1>9. Matching = {DocumentOf[p] : p \in {q \in inLexical \cup inNearest : stamp[DocumentOf[q]] # 0}}
  <2>1. Matching = {DocumentOf[p] : p \in {q \in Passages :
                      stamp[DocumentOf[q]] # 0 /\ q \in inLexical \cup inNearest}}
    BY DEF Matching
  <2> HIDE DEF inLexical, inNearest
  <2> QED BY <1>8, <2>1
<1>10. Short <=> Len(lexical) < candidates /\ Len(vector) < candidates
  BY DEF Short
<1>11. Whole = DocumentsOf(hits)
  BY DEF Whole
<1> HIDE DEF lexical, vector, inLexical, inNearest
<1>12. /\ lexical \in Seq(Hits) /\ vector \in Seq(Hits)
       /\ Len(lexical) \in Nat /\ DOMAIN lexical = 1..Len(lexical)
       /\ Len(vector) \in Nat /\ DOMAIN vector = 1..Len(vector)
  <2>1. lexical \in Seq(Hits) /\ vector \in Seq(Hits)
    BY <1>6, <1>7 DEF Arms
  <2> QED BY <2>1, LenProperties
<1>13. \A h \in found : \/ \E k \in 1..Len(lexical) : h = lexical[k]
                        \/ \E k \in 1..Len(vector) : h = vector[k]
  BY <1>12 DEF Range
<1>14. /\ \A k \in 1..Len(lexical) : lexical[k] \in found
       /\ \A k \in 1..Len(vector) : vector[k] \in found
  BY <1>12 DEF Range
<1> HIDE DEF found
<1>15. \A h \in found : /\ h.passage \in inLexical \cup inNearest
                        /\ stamp[DocumentOf[h.passage]] = h.stamp /\ h.stamp # 0
  BY <1>6, <1>7, <1>13
<1>16. /\ hits \in Seq(Hits)
       /\ \A k \in 1..Len(hits) : hits[k] \in found
       /\ \A j, k \in 1..Len(hits) : DocumentOf[hits[j].passage] = DocumentOf[hits[k].passage] => j = k
       /\ \A h \in found : \E k \in 1..Len(hits) : DocumentOf[hits[k].passage] = DocumentOf[h.passage]
  BY <1>12, RankingIs DEF found
<1> HIDE DEF hits
<1>17. /\ Whole \in Seq(Documents) /\ Len(Whole) = Len(hits) /\ Len(hits) \in Nat
       /\ \A k \in 1..Len(hits) : Whole[k] = DocumentOf[hits[k].passage]
       /\ Len(hits) <= Cardinality(Documents)
  BY <1>11, <1>16, DocumentsOfIs, EntriesBounded, LenProperties
<1>18. Len(Whole) <= MaxOffset
  <2>1. Cardinality(Documents) \in Nat
    BY DocumentsFinite, FS_CardinalityType
  <2> QED BY <1>4, <1>17, <2>1
<1>19. \A k \in 1..Len(hits) : stamp[DocumentOf[hits[k].passage]] = hits[k].stamp
  BY <1>15, <1>16
<1>20. Len(Whole) = 0 => Short
  <2>1. SUFFICES ASSUME Len(Whole) = 0 PROVE Len(lexical) = 0 /\ Len(vector) = 0
    BY <1>4, <1>10
  <2>2. found = {}
    BY <1>16, <1>17, <2>1
  <2> QED BY <1>12, <1>14, <2>2
<1>21. ASSUME Short PROVE Range(Whole) = Matching
  <2>1. Range(Whole) = {DocumentOf[hits[k].passage] : k \in 1..Len(hits)}
    <3>1. DOMAIN Whole = 1..Len(hits)
      BY <1>17, LenProperties
    <3> QED BY <1>17, <3>1 DEF Range
  <2>2. ASSUME NEW k \in 1..Len(hits) PROVE DocumentOf[hits[k].passage] \in Matching
    <3>1. hits[k].passage \in inLexical \cup inNearest /\ stamp[DocumentOf[hits[k].passage]] # 0
      BY <1>15, <1>16
    <3> QED BY <1>9, <3>1
  <2>3. ASSUME NEW p \in inLexical \cup inNearest, stamp[DocumentOf[p]] # 0
        PROVE  \E k \in 1..Len(hits) : DocumentOf[hits[k].passage] = DocumentOf[p]
    <3>1. PICK h \in found : h.passage = p
      BY <1>6, <1>7, <1>10, <1>14, <1>21, <2>3
    <3> QED BY <1>16, <3>1
  <2> QED BY <1>9, <2>1, <2>2, <2>3
<1>22. QED
  BY <1>6, <1>7, <1>16, <1>17, <1>18, <1>19, <1>20, <1>21 DEF hits, lexical, vector

\* What is true of a walk stays so as long as nothing moves in the store.
LEMMA NowStays ==
  ASSUME stamp' = stamp, walk'.query = walk.query, walk'.mode = walk.mode
  PROVE  LexicalNow' = LexicalNow /\ VectorNow' = VectorNow /\ Whole' = Whole
         /\ Short' = Short /\ Matching' = Matching
<1>1. LexicalNow' = LexicalNow
  BY DEF LexicalNow, Retrieved, HitsOf, Hit, Held
<1>2. VectorNow' = VectorNow
  BY DEF VectorNow, Retrieved, HitsOf, Hit, Held
<1>3. Whole' = Whole /\ Short' = Short
  BY <1>1, <1>2 DEF Whole, Short
<1>4. Matching' = Matching
  BY DEF Matching
<1>5. QED
  BY <1>1, <1>2, <1>3, <1>4

Walking == walk.query # None /\ walk.since = edits

LEMMA WalkStays ==
  ASSUME WalkInv, UNCHANGED <<stamp, edits, walk>>, calls'["agent"] = calls["agent"]
  PROVE  WalkInv'
<1>1. LexicalNow' = LexicalNow /\ VectorNow' = VectorNow /\ Whole' = Whole
      /\ Short' = Short /\ Matching' = Matching
  BY NowStays
<1>2. WalkIsWhole' = WalkIsWhole
  BY <1>1 DEF WalkIsWhole
<1>3. Undisturbed(calls["agent"])' = Undisturbed(calls["agent"])
  BY <1>1 DEF Undisturbed
<1>4. QED
  BY <1>2, <1>3 DEF WalkInv

\* The request of an undisturbed walk goes on undisturbed.
LEMMA WalkServed ==
  ASSUME BaseInv, WalkInv, Serve("agent")
  PROVE  WalkInv'
<1> DEFINE call == calls["agent"]
           after == calls'["agent"]
<1>1. "agent" \in Slots /\ calls \in [Slots -> Call \cup {NoCall}]
  BY DEF BaseInv, CallsInv, Slots
<1>2. UNCHANGED <<stamp, edits, walk>> /\ call # NoCall
  <2>1. GoesOn("agent")
    BY <1>1, ServedGoesOn DEF BaseInv
  <2> QED BY <2>1 DEF GoesOn, store
<1>3. call \in Call /\ walk.query # None
  BY <1>1, <1>2 DEF BaseInv, AgentInv
<1>4. LexicalNow' = LexicalNow /\ VectorNow' = VectorNow /\ Whole' = Whole
      /\ Short' = Short /\ Matching' = Matching /\ WalkIsWhole' = WalkIsWhole
  <2>1. LexicalNow' = LexicalNow /\ VectorNow' = VectorNow /\ Whole' = Whole
        /\ Short' = Short /\ Matching' = Matching
    BY <1>2, NowStays
  <2> QED BY <1>2, <2>1 DEF WalkIsWhole
<1>5. SUFFICES ASSUME Walking PROVE Undisturbed(after)
  <2>1. Undisturbed(calls["agent"])' <=> Undisturbed(after)
    BY <1>2, <1>4 DEF Undisturbed
  <2>2. Walking' <=> Walking
    BY <1>2 DEF Walking
  <2>3. Walking => ~walk.over /\ WalkIsWhole
    BY <1>2 DEF WalkInv, Walking
  <2> QED BY <1>2, <1>4, <1>5, <2>1, <2>2, <2>3 DEF WalkInv, Walking
<1>6. Undisturbed(call)
  BY <1>2, <1>5 DEF WalkInv, Walking
<1>7. /\ call.query = walk.query /\ call.mode = walk.mode
      /\ call.offset = walk.offset /\ call.topK = PageSize
  BY <1>6 DEF Undisturbed
<1>8. LexicalNow \in Arms /\ VectorNow \in Arms /\ None # <<>>
  BY <1>3, NowIs, Constants
<1>9. CASE Admit("agent")
  <2> DEFINE on == [call EXCEPT !.stage = "arms",
                                !.lexical = IF call.mode = "vector" THEN <<>> ELSE None,
                                !.vector = IF call.mode = "lexical" THEN <<>> ELSE None]
  <2>1. calls' = [calls EXCEPT !["agent"] = on]
    BY <1>9 DEF Admit, Becomes
  <2>2. /\ on \in Call /\ on.stage = "arms" /\ on.query = call.query /\ on.mode = call.mode
        /\ on.offset = call.offset /\ on.topK = call.topK
        /\ on.lexical = (IF call.mode = "vector" THEN <<>> ELSE None)
        /\ on.vector = (IF call.mode = "lexical" THEN <<>> ELSE None)
    <3> HIDE DEF call
    <3>1. (IF call.mode = "vector" THEN <<>> ELSE None) \in Arms \cup {None}
      BY Nothing
    <3>2. (IF call.mode = "lexical" THEN <<>> ELSE None) \in Arms \cup {None}
      BY Nothing
    <3>3. on \in Call
      BY <1>3, <3>1, <3>2 DEF Call
    <3>4. /\ on.stage = "arms" /\ on.query = call.query /\ on.mode = call.mode
          /\ on.offset = call.offset /\ on.topK = call.topK
          /\ on.lexical = (IF call.mode = "vector" THEN <<>> ELSE None)
          /\ on.vector = (IF call.mode = "lexical" THEN <<>> ELSE None)
      BY <1>3 DEF Call
    <3> QED BY <3>3, <3>4
  <2> HIDE DEF on
  <2>3. after = on
    BY <1>1, <2>1
  <2>4. on.lexical = LexicalNow \/ (on.lexical = None /\ on.mode # "vector")
    BY <1>7, <2>2 DEF LexicalNow
  <2>5. on.vector = VectorNow \/ (on.vector = None /\ on.mode # "lexical")
    BY <1>7, <2>2 DEF VectorNow
  <2> HIDE DEF call, after
  <2> QED BY <1>7, <2>2, <2>3, <2>4, <2>5 DEF Undisturbed
<1>10. CASE LexicalArm("agent")
  <2> DEFINE arm == Retrieved(Lexical[call.query], call.offset)
             next == [call EXCEPT !.lexical = arm]
  <2>1. call.stage = "arms" /\ call.lexical = None /\ calls' = [calls EXCEPT !["agent"] = next]
    BY <1>10 DEF LexicalArm, Becomes
  <2>2. /\ call.lexical = LexicalNow \/ (call.lexical = None /\ call.mode # "vector")
        /\ call.vector = VectorNow \/ (call.vector = None /\ call.mode # "lexical")
    BY <1>6, <2>1 DEF Undisturbed
  <2>3. call.mode # "vector"
    <3>1. call.mode = "vector" => LexicalNow = <<>>
      BY <1>7 DEF LexicalNow
    <3> QED BY <1>8, <2>1, <2>2, <3>1
  <2>4. arm = LexicalNow
    BY <1>7, <2>3 DEF LexicalNow, Retrieved
  <2> HIDE DEF arm, call
  <2>5. /\ next \in Call /\ next.stage = "arms" /\ next.query = call.query /\ next.mode = call.mode
        /\ next.offset = call.offset /\ next.topK = call.topK
        /\ next.lexical = LexicalNow /\ next.vector = call.vector
    BY <1>3, <1>8, <2>1, <2>4 DEF Call
  <2>6. after = next
    BY <1>1, <2>1
  <2> HIDE DEF next, after
  <2> QED BY <1>7, <2>2, <2>5, <2>6 DEF Undisturbed
<1>11. CASE VectorArm("agent")
  <2> DEFINE arm == Retrieved(Nearest[call.query], call.offset)
             next == [call EXCEPT !.vector = arm]
  <2>1. call.stage = "arms" /\ call.vector = None /\ calls' = [calls EXCEPT !["agent"] = next]
    BY <1>11 DEF VectorArm, Becomes
  <2>2. /\ call.lexical = LexicalNow \/ (call.lexical = None /\ call.mode # "vector")
        /\ call.vector = VectorNow \/ (call.vector = None /\ call.mode # "lexical")
    BY <1>6, <2>1 DEF Undisturbed
  <2>3. call.mode # "lexical"
    <3>1. call.mode = "lexical" => VectorNow = <<>>
      BY <1>7 DEF VectorNow
    <3> QED BY <1>8, <2>1, <2>2, <3>1
  <2>4. arm = VectorNow
    BY <1>7, <2>3 DEF VectorNow, Retrieved
  <2> HIDE DEF arm, call
  <2>5. /\ next \in Call /\ next.stage = "arms" /\ next.query = call.query /\ next.mode = call.mode
        /\ next.offset = call.offset /\ next.topK = call.topK
        /\ next.vector = VectorNow /\ next.lexical = call.lexical
    BY <1>3, <1>8, <2>1, <2>4 DEF Call
  <2>6. after = next
    BY <1>1, <2>1
  <2> HIDE DEF next, after
  <2> QED BY <1>7, <2>2, <2>5, <2>6 DEF Undisturbed
<1>12. CASE Lookup("agent")
  <2> DEFINE offset == walk.offset
             hits == Ranking(LexicalNow, VectorNow)
             page == SubSeq(hits, offset + 1, Smaller(offset + PageSize, Len(hits)))
             I == {n \in 1..Len(page) : stamp[DocumentOf[page[n].passage]] = page[n].stamp}
             shown == DocumentsOf(Selected(page, I))
             more == IF page = <<>> THEN ~Short /\ Len(hits) > 0
                     ELSE offset + Len(page) < Len(hits) \/ ~Short
             base == Replied(call, 200)
             answer == [base EXCEPT
                          !.lexical = None, !.vector = None, !.results = shown,
                          !.total = Len(hits), !.exhaustive = Short, !.hasMore = more]
  <2>1. call.stage = "arms" /\ call.lexical = LexicalNow /\ call.vector = VectorNow
    BY <1>6, <1>12 DEF Lookup, Undisturbed
  <2>2. calls' = [calls EXCEPT !["agent"] = answer]
    <3> DEFINE documents == Ranking(call.lexical, call.vector)
               sheet == SubSeq(documents, call.offset + 1,
                               Smaller(call.offset + call.topK, Len(documents)))
               J == {n \in 1..Len(sheet) : stamp[DocumentOf[sheet[n].passage]] = sheet[n].stamp}
               exhaustive == Len(call.lexical) < candidates /\ Len(call.vector) < candidates
    <3>1. calls' = [calls EXCEPT !["agent"] = [Replied(call, 200) EXCEPT
             !.lexical = None, !.vector = None,
             !.results = DocumentsOf(Selected(sheet, J)), !.total = Len(documents),
             !.exhaustive = exhaustive,
             !.hasMore = IF sheet = <<>> THEN ~exhaustive /\ Len(documents) > 0
                         ELSE call.offset + Len(sheet) < Len(documents) \/ ~exhaustive]]
      BY <1>12, Zenon DEF Lookup, Becomes
    <3>2. documents = hits /\ call.offset = offset /\ call.topK = PageSize
      BY <1>7, <2>1
    <3>3. exhaustive = Short
      BY <2>1 DEF Short
    <3> HIDE DEF documents, hits, offset, call, exhaustive
    <3>4. sheet = page
      BY <3>2
    <3> HIDE DEF sheet, page
    <3>5. J = I
      BY <3>4
    <3> HIDE DEF J, I
    <3> QED BY <3>1, <3>2, <3>3, <3>4, <3>5, Zenon
  <2>3. /\ hits \in Seq(Hits) /\ Whole = DocumentsOf(hits)
        /\ Len(Whole) = Len(hits) /\ Len(hits) \in Nat
        /\ \A k \in 1..Len(hits) : stamp[DocumentOf[hits[k].passage]] = hits[k].stamp
    BY <1>3, NowIs DEF Whole
  <2>4. offset \in Nat /\ PageSize \in Nat /\ PageSize # 0
    BY Constants DEF BaseInv, AgentInv, Walk
  <2> HIDE DEF hits, offset
  <2>5. /\ page \in Seq(Hits)
        /\ offset >= Len(hits) => Len(page) = 0
        /\ offset < Len(hits) /\ offset + PageSize < Len(hits) => Len(page) = PageSize
        /\ offset < Len(hits) /\ offset + PageSize >= Len(hits) => Len(page) = Len(hits) - offset
        /\ \A k \in 1..Len(page) : offset + k \in 1..Len(hits) /\ page[k] = hits[offset + k]
    BY <2>3, <2>4, PageOfWhole
  <2>6. DocumentsOf(page) = SubSeq(Whole, offset + 1, Smaller(offset + PageSize, Len(Whole)))
    BY <2>3, <2>4, PageOfWhole
  <2> HIDE DEF page
  <2>7. shown = DocumentsOf(page)
    <3>1. I = 1..Len(page)
      BY <2>3, <2>5
    <3> HIDE DEF I
    <3> QED BY <2>5, <3>1, SelectedWhole
  <2>8. more <=> IF offset >= Len(Whole) THEN ~Short /\ Len(Whole) > 0
                 ELSE offset + PageSize < Len(Whole) \/ ~Short
    <3>1. page = <<>> <=> Len(page) = 0
      BY <2>5, EmptySeq
    <3>2. CASE offset >= Len(hits)
      BY <2>3, <2>5, <3>1, <3>2
    <3>3. CASE offset < Len(hits) /\ offset + PageSize < Len(hits)
      BY <2>3, <2>4, <2>5, <3>1, <3>3
    <3>4. CASE offset < Len(hits) /\ offset + PageSize >= Len(hits)
      BY <2>3, <2>4, <2>5, <3>1, <3>4
    <3> QED BY <2>3, <2>4, <3>2, <3>3, <3>4
  <2>9. more \in BOOLEAN /\ Short \in BOOLEAN
    BY DEF Short
  <2> HIDE DEF shown, more, call
  <2>10. /\ base \in Call /\ base.stage = "replied" /\ base.topK = call.topK
         /\ base.query = call.query /\ base.mode = call.mode /\ base.offset = call.offset
    BY <1>3, RepliedIs
  <2> HIDE DEF base
  <2>11. /\ answer.stage = "replied" /\ answer.query = call.query /\ answer.mode = call.mode
         /\ answer.offset = call.offset /\ answer.topK = call.topK
         /\ answer.results = shown /\ answer.exhaustive = Short /\ answer.hasMore = more
    BY <2>10 DEF Call
  <2> HIDE DEF answer, after
  <2>12. after = answer
    BY <1>1, <2>2 DEF after
  <2>13. after \in Call
    BY <1>1, <1>12, LookupIs DEF after, BaseInv
  <2>14. after.results = SubSeq(Whole, offset + 1, Smaller(offset + PageSize, Len(Whole)))
    BY <2>6, <2>7, <2>11, <2>12
  <2>15. after.hasMore = IF offset >= Len(Whole) THEN ~Short /\ Len(Whole) > 0
                         ELSE offset + PageSize < Len(Whole) \/ ~Short
    BY <2>8, <2>9, <2>11, <2>12, Zenon
  <2> QED BY <1>7, <2>11, <2>12, <2>13, <2>14, <2>15 DEF Undisturbed, offset
<1>13. QED
  BY <1>9, <1>10, <1>11, <1>12 DEF Serve

\* The next page begins where this one ended.
LEMMA WalkTurns ==
  ASSUME BaseInv, WalkInv, TurnPage
  PROVE  WalkInv'
<1> DEFINE call == calls["agent"]
           offset == walk.offset
           next == Smaller(offset + PageSize, MaxOffset)
<1>1. "agent" \in Slots /\ calls \in [Slots -> Call \cup {NoCall}] /\ walk \in Walk
  BY DEF BaseInv, CallsInv, AgentInv, Slots
<1>2. call.stage = "replied" /\ call \in Call /\ UNCHANGED <<stamp, edits>>
  BY <1>1 DEF TurnPage, NoCall, store
<1>3. walk.query # None
  BY <1>2, CallFields DEF BaseInv, AgentInv
<1>4. /\ walk' = [walk EXCEPT !.seen = @ \o call.results, !.exhaustive = call.exhaustive,
                              !.offset = next, !.over = ~call.hasMore]
      /\ calls' = [calls EXCEPT !["agent"] =
           IF call.hasMore THEN Sent(walk.query, walk.mode, PageSize, next, FALSE, FALSE) ELSE NoCall]
  BY DEF TurnPage, AskPage, Becomes
<1>5. /\ walk'.query = walk.query /\ walk'.mode = walk.mode /\ walk'.since = walk.since
      /\ walk'.seen = walk.seen \o call.results /\ walk'.exhaustive = call.exhaustive
      /\ walk'.offset = next /\ walk'.over = (~call.hasMore)
  <2> HIDE DEF call, next
  <2> QED BY <1>1, <1>4 DEF Walk
<1>6. calls'["agent"] =
        IF call.hasMore THEN Sent(walk.query, walk.mode, PageSize, next, FALSE, FALSE) ELSE NoCall
  BY <1>1, <1>4
<1>7. LexicalNow' = LexicalNow /\ VectorNow' = VectorNow /\ Whole' = Whole
      /\ Short' = Short /\ Matching' = Matching
  BY <1>2, <1>5, NowStays
<1>8. walk'.since <= edits'
  BY <1>2, <1>5 DEF WalkInv
<1>9. SUFFICES ASSUME Walking
               PROVE  /\ IF walk'.over THEN calls'["agent"] = NoCall ELSE Undisturbed(calls["agent"])'
                      /\ WalkIsWhole'
  BY <1>2, <1>5, <1>8 DEF WalkInv, Walking
<1>10. /\ Undisturbed(call) /\ walk.seen = First(offset, Whole)
  <2>1. ~walk.over
    BY <1>2, <1>9, CallFields DEF WalkInv, Walking
  <2> QED BY <1>9, <2>1 DEF WalkInv, Walking, WalkIsWhole
<1>11. /\ call.results = SubSeq(Whole, offset + 1, Smaller(offset + PageSize, Len(Whole)))
       /\ call.exhaustive = Short
       /\ call.hasMore = IF offset >= Len(Whole) THEN ~Short /\ Len(Whole) > 0
                         ELSE offset + PageSize < Len(Whole) \/ ~Short
  BY <1>2, <1>10 DEF Undisturbed
<1>12. /\ Whole \in Seq(Documents) /\ Len(Whole) \in Nat /\ Len(Whole) <= MaxOffset
       /\ Len(Whole) = 0 => Short
       /\ Short => Range(Whole) = Matching
  BY <1>3, NowIs
<1>13. offset \in 0..MaxOffset /\ offset \in Nat /\ PageSize \in Nat /\ MaxOffset \in Nat
  BY <1>1, Constants DEF Walk
<1>14. next \in 0..MaxOffset /\ (offset + PageSize < MaxOffset => next = offset + PageSize)
       /\ (offset + PageSize >= MaxOffset => next = MaxOffset)
  BY <1>13 DEF Smaller
<1> HIDE DEF offset
<1>15. walk'.seen = First(next, Whole)
  <2>1. First(offset, Whole) \o SubSeq(Whole, offset + 1, Smaller(offset + PageSize, Len(Whole)))
          = First(Smaller(offset + PageSize, MaxOffset), Whole)
    BY <1>12, <1>13, FirstPages
  <2> QED BY <1>5, <1>10, <1>11, <2>1
<1> HIDE DEF next
<1>16. ASSUME walk'.over PROVE walk'.exhaustive /\ Range(walk'.seen) = Matching
  <2>1. ~call.hasMore
    BY <1>5, <1>16
  <2>2. Short
    <3>1. CASE offset >= Len(Whole)
      <4>1. call.hasMore = (~Short /\ Len(Whole) > 0)
        BY <1>11, <3>1
      <4>2. Short \/ ~(Len(Whole) > 0)
        BY <2>1, <4>1
      <4>3. ~(Len(Whole) > 0) => Len(Whole) = 0
        BY <1>12
      <4> QED BY <1>12, <4>2, <4>3
    <3>2. CASE ~(offset >= Len(Whole))
      <4>1. call.hasMore = (offset + PageSize < Len(Whole) \/ ~Short)
        BY <1>11, <3>2
      <4> QED BY <2>1, <4>1
    <3> QED BY <3>1, <3>2
  <2>3. next >= Len(Whole)
    <3>1. offset + PageSize >= Len(Whole)
      <4>1. CASE offset >= Len(Whole)
        BY <1>12, <1>13, <4>1
      <4>2. CASE ~(offset >= Len(Whole))
        <5>1. ~(offset + PageSize < Len(Whole))
          BY <1>11, <2>1, <4>2
        <5> QED BY <1>12, <1>13, <5>1
      <4> QED BY <4>1, <4>2
    <3> QED BY <1>12, <1>13, <1>14, <3>1
  <2>4. First(next, Whole) = Whole
    BY <1>12, <1>14, <2>3, FirstWhole
  <2> QED BY <1>5, <1>11, <1>12, <1>15, <2>2, <2>4
<1>17. WalkIsWhole'
  BY <1>5, <1>7, <1>15, <1>16 DEF WalkIsWhole
<1>18. ASSUME walk'.over PROVE calls'["agent"] = NoCall
  BY <1>5, <1>6, <1>18
<1>19. ASSUME ~walk'.over PROVE Undisturbed(calls["agent"])'
  <2> DEFINE asked == Sent(walk.query, walk.mode, PageSize, next, FALSE, FALSE)
  <2>1. calls'["agent"] = asked
    BY <1>5, <1>6, <1>19
  <2>2. walk.query \in Queries /\ walk.mode \in {"hybrid", "lexical", "vector"}
    BY <1>1, <1>3, Constants, SearchAssumption DEF Walk, BaseInv, AgentInv
  <2>3. /\ asked \in Call /\ asked.stage = "sent" /\ asked.query = walk.query
        /\ asked.mode = walk.mode /\ asked.topK = PageSize /\ asked.offset = next
    BY <1>13, <1>14, <2>2, Nothing DEF Sent, Call
  <2> HIDE DEF asked
  <2> QED BY <1>5, <2>1, <2>3 DEF Undisturbed
<1>20. QED
  BY <1>17, <1>18, <1>19

LEMMA WholeIs == BaseInv /\ walk.query # None => Whole \in Seq(Documents)
BY NowIs

LEMMA WholeIsNext == (BaseInv /\ walk.query # None)' => (Whole \in Seq(Documents))'
BY WholeIs, PTL

LEMMA WalkSetsOut ==
  ASSUME BaseInv, BaseInv', NEW query \in Typed, NEW mode \in Modes, SetOut(query, mode)
  PROVE  WalkInv'
<1> DEFINE asked == Sent(query, mode, PageSize, 0, FALSE, FALSE)
<1>1. "agent" \in Slots /\ calls \in [Slots -> Call \cup {NoCall}] /\ walk \in Walk
  BY DEF BaseInv, CallsInv, AgentInv, Slots
<1>2. /\ walk.query = None /\ UNCHANGED <<stamp, edits>>
      /\ walk' = [walk EXCEPT !.query = query, !.mode = mode, !.since = edits]
      /\ calls' = [calls EXCEPT !["agent"] = asked]
  BY DEF SetOut, AskPage, Becomes, store
<1>3. /\ walk.seen = <<>> /\ walk.offset = 0 /\ ~walk.over /\ edits \in Nat
  BY <1>2 DEF BaseInv, StoreInv, AgentInv
<1>4. /\ walk'.query = query /\ walk'.mode = mode /\ walk'.since = edits
      /\ walk'.seen = <<>> /\ walk'.offset = 0 /\ ~walk'.over
  <2>1. /\ walk'.query = query /\ walk'.mode = mode /\ walk'.since = edits
        /\ walk'.seen = walk.seen /\ walk'.offset = walk.offset /\ walk'.over = walk.over
    BY <1>1, <1>2 DEF Walk
  <2> QED BY <1>3, <2>1
<1>5. calls'["agent"] = asked
  BY <1>1, <1>2
<1>6. query \in Queries /\ query # None /\ mode \in {"hybrid", "lexical", "vector"}
      /\ PageSize \in Nat /\ 0 \in 0..MaxOffset
  BY Constants, SearchAssumption
<1>7. /\ asked \in Call /\ asked.stage = "sent" /\ asked.query = query
      /\ asked.mode = mode /\ asked.topK = PageSize /\ asked.offset = 0
  BY <1>6, Nothing DEF Sent, Call
<1> HIDE DEF asked
<1>8. Undisturbed(calls["agent"])'
  BY <1>4, <1>5, <1>7 DEF Undisturbed
<1>9. Whole' \in Seq(Documents)
  BY <1>4, <1>6, WholeIsNext
<1>10. WalkIsWhole'
  BY <1>4, <1>9, FirstNone DEF WalkIsWhole
<1>11. walk'.since <= edits'
  BY <1>2, <1>3, <1>4
<1>12. QED
  BY <1>4, <1>8, <1>10, <1>11 DEF WalkInv

LEMMA WalkStep ==
  ASSUME BaseInv, WalkInv, [Next]_vars
  PROVE  WalkInv'
<1>1. /\ calls \in [Slots -> Call \cup {NoCall}] /\ OneAtATime
      /\ "box" \in Slots /\ "box2" \in Slots /\ "agent" \in Slots
      /\ edits \in Nat /\ edits' \in Nat /\ walk.since \in Nat /\ BaseInv'
  <2>1. BaseInv'
    BY BaseStep
  <2>2. edits \in Nat /\ edits' \in Nat
    BY <2>1 DEF BaseInv, StoreInv
  <2>3. walk.since \in Nat
    BY DEF BaseInv, AgentInv, Walk
  <2> QED BY <2>1, <2>2, <2>3 DEF BaseInv, BoxInv, CallsInv, OneAtATime, Slots
<1>2. ASSUME UNCHANGED <<stamp, edits, walk>>, calls'["agent"] = calls["agent"] PROVE WalkInv'
  BY <1>2, WalkStays
<1>3. ASSUME NEW d \in Documents, EmbedDocument(d) \/ Evict(d) PROVE WalkInv'
  <2>1. edits' = edits + 1 /\ walk' = walk
    BY <1>3 DEF EmbedDocument, Evict
  <2>2. walk.since <= edits
    BY DEF WalkInv
  <2>3. walk'.since <= edits' /\ walk'.since # edits'
    BY <1>1, <2>1, <2>2
  <2> QED BY <2>3 DEF WalkInv
<1>4. ASSUME Tick \/ \E n \in Networks : Visit(n) PROVE WalkInv'
  BY <1>2, <1>4 DEF Tick, Visit, store
<1>5. ASSUME NEW s \in Slots, Serve(s) \/ Show(s) \/ Lose(s) PROVE WalkInv'
  <2>1. CASE s = "agent"
    BY <1>5, <2>1, WalkServed DEF Show, Lose
  <2>2. CASE s # "agent"
    <3>1. calls'["agent"] = calls["agent"]
      BY <1>1, <1>5, <2>2, ServedIsChecked
    <3>2. UNCHANGED <<stamp, edits, walk>>
      BY <1>5, ServedGoesOn DEF GoesOn, Show, BaseInv, store
    <3> QED BY <1>2, <3>1, <3>2
  <2> QED BY <2>1, <2>2
<1>6. ASSUME NEW query \in Typed, NEW mode \in Modes, SetOut(query, mode) PROVE WalkInv'
  BY <1>1, <1>6, WalkSetsOut
<1>7. CASE TurnPage
  BY <1>7, WalkTurns
<1>8. CASE Arrive \/ (\E query \in Typed : Submit(query)) \/ Refresh
  <2>1. UNCHANGED <<stamp, edits, walk>>
    BY <1>1, <1>8, BoxAsks DEF store
  <2>2. calls'["agent"] = calls["agent"]
    BY <1>1, <1>8, BoxAsks DEF Ignores, Asks
  <2> QED BY <1>2, <2>1, <2>2
<1>9. CASE UNCHANGED vars
  BY <1>2, <1>9 DEF vars, store
<1>10. QED
  BY <1>3, <1>4, <1>5, <1>6, <1>7, <1>8, <1>9 DEF Next

\* Pages: whatever the arms rank and whatever else is served meanwhile, the pages of a
\* walk during which nothing is embedded or evicted are one ranking cut up, nothing twice
\* and nothing left out, and a walk told that there is no more has seen every match
\* (search.service.ts, search; SearchOptions.offset).
THEOREM WalksAreWhole == Spec => []WalkIsWhole
<1>1. Init => WalkInv
  BY Constants DEF Init, WalkInv, WalkIsWhole
<1>2. BaseInv /\ WalkInv /\ [Next]_vars => WalkInv'
  BY WalkStep
<1>3. BaseInv /\ WalkInv => WalkIsWhole
  BY DEF WalkInv, WalkIsWhole
<1>4. QED
  BY <1>1, <1>2, <1>3, BaseHolds, PTL DEF Spec
=============================================================================
