-------------------------- MODULE CommissionProofs --------------------------
(***************************************************************************)
(* What a client is charged and for whom an index is changed, proved for   *)
(* any number of clients, indexes and prices.                              *)
(*                                                                         *)
(* A command is three requests, and only the last can move money, at one   *)
(* await of its handler.  The invariant says how far each request can be   *)
(* with which amounts, and that an index a client may write to goes on     *)
(* belonging to him while his request waits.                               *)
(***************************************************************************)
EXTENDS Commission, FiniteSetTheorems, WellFoundedInduction, TLAPS

-----------------------------------------------------------------------------
(* The inductive invariant.                                                *)

\* The awaits of each handler behind the gate between verification and settlement.
Behind(op) ==
  CASE op = "create" -> {"name", "join", "queue", "settle", "report"}
    [] op = "append" -> {"count", "join", "queue", "settle", "report"}
    [] op = "remove" -> {"delete", "report"}
    [] op = "search" -> {"retrieve", "settle", "report"}

Admitted == {"name", "count", "join", "queue", "delete", "retrieve", "settle", "report"}

\* How far a request can be.
Placed(call) ==
  /\ call \in Call
  /\ call.stage # "idle" => call.cmd \in Commands /\ call.phase \in {"quote", "unpaid", "paid"}
  /\ call.stage \in Admitted => call.stage \in Behind(call.cmd.op)
  /\ call.stage \in {"join", "queue"} =>
       None \notin Wanted(call.cmd) /\ (call.cmd.op = "create" => call.slug # None /\ None \notin call.cmd.readers)
  /\ call.answer # "unmatched" /\ (call.stage # "answered" => call.answer = "none")

\* The amounts of the three requests.
Amounts(call) ==
  /\ call.phase \in {"none", "quote"} => call.shown = None /\ call.signed = 0
  /\ call.phase = "unpaid" => call.shown \in {None, Price(call.cmd)} /\ call.signed = 0
  /\ call.phase = "paid" => /\ call.signed = Price(call.cmd) /\ call.signed <= MaxSpend
                            /\ call.shown = call.signed
  /\ call.answer = "payment" => call.asked = Price(call.cmd)

\* Money moves at the last await but one, after the rows are written.
Charged(on, call) ==
  /\ on /\ call.stage \in Admitted => call.phase = "paid"
  /\ call.spent # 0 => /\ call.stage \in {"report", "answered"}
                       /\ call.phase = "paid"
                       /\ call.spent = call.signed
                       /\ call.answer \in {"none", "done", "error"}
  /\ on /\ call.works # 0 => /\ call.stage \in {"settle", "report", "answered"}
                             /\ call.phase = "paid"
                             /\ call.works = 1

\* The index of a request: the copy of its row is not out of date as to the owner,
\* and past the gate the index is the payer's.
Owned(on, call, rows) ==
  call.stage \in {"authorize"} \cup Admitted /\ call.cmd.op # "create" =>
    /\ call.id \in Ids /\ rows[call.id] # NotYet
    /\ call.stage = "authorize" =>
         /\ call.row \in Row
         /\ LiveIn(rows, call.id) /\ call.row.owner # None =>
              rows[call.id].owner = call.row.owner
    /\ on /\ call.stage \in Admitted /\ call.cmd.op # "search" /\ LiveIn(rows, call.id) =>
         rows[call.id].owner = call.cmd.wallet

CallInv(on, call, rows) ==
  Placed(call) /\ Amounts(call) /\ Charged(on, call) /\ Owned(on, call, rows)

CallsInv ==
  /\ calls \in [Clients -> Call]
  /\ \A c \in Clients : CallInv(enabled, calls[c], indexes)

TablesInv ==
  /\ enabled \in BOOLEAN
  /\ indexes \in [Ids -> Row \cup {NotYet, Gone}]
  /\ indexes[0] # NotYet
  /\ LiveIn(indexes, 0) => indexes[0].owner \in {None, Operator}
  /\ members \in [Ids -> SUBSET Pages]
  /\ pending \in [Ids -> SUBSET Pages]
  /\ failed \in [Ids -> SUBSET Pages]
  /\ stored \subseteq Pages
  /\ funds \in [Wallets -> Nat]
  /\ commands \in 0..MaxCommands
  /\ faults \in 0..MaxFaults

PaymentInv == TablesInv /\ CallsInv

-----------------------------------------------------------------------------
(* Rows, prices, stages.                                                   *)

\* A row is told from the marks of an index that does not exist.
LEMMA RowIsNeither == ASSUME NEW r \in Row PROVE r # NotYet /\ r # Gone
<1>1. "slug" \in DOMAIN r /\ "slug" \notin DOMAIN NotYet /\ "slug" \notin DOMAIN Gone
  BY DEF Row, NotYet, Gone
<1> QED BY <1>1

LEMMA NotYetIsNotGone == NotYet # Gone
BY DEF NotYet, Gone

\* A command has a price, which is a number of tokens.
LEMMA PriceType == ASSUME NEW cmd \in Commands PROVE Price(cmd) \in Nat
<1>1. Cardinality(cmd.list) \in Nat
  BY CommissionAssumption, FS_CardinalityType
<1>2. \A m, n \in Nat : m * n \in Nat
  OBVIOUS
<1> QED BY <1>1, <1>2, CommissionAssumption DEF Price

\* A call that goes on takes the next stage of its handler.
LEMMA NextOf ==
  ASSUME NEW call, NEW order, order = Order(call.cmd.op),
         NEW n, n \in 1..Len(order), order[n] = call.stage,
         \A m \in 1..Len(order) : order[m] = call.stage => m = n
  PROVE  Continued(call) = [call EXCEPT !.stage = order[n + 1]]
<1> DEFINE now == CHOOSE m \in 1..Len(order) : order[m] = call.stage
<1>1. n \in 1..Len(order) /\ order[n] = call.stage
  OBVIOUS
<1>2. now \in 1..Len(order) /\ order[now] = call.stage
  BY <1>1
<1>3. now = n
  BY <1>2
<1>4. Continued(call) = [call EXCEPT !.stage = order[now + 1]]
  BY DEF Continued
<1> HIDE DEF now
<1>5. [call EXCEPT !.stage = order[now + 1]] = [call EXCEPT !.stage = order[n + 1]]
  BY <1>3
<1> QED BY <1>4, <1>5

\* The stage after each.
Following(stage) ==
  CASE stage = "resolve" -> {"authorize"}
    [] stage = "authorize" -> {"name", "count", "delete", "retrieve"}
    [] stage \in {"name", "count"} -> {"join"}
    [] stage = "join" -> {"queue"}
    [] stage \in {"queue", "retrieve"} -> {"settle"}
    [] stage \in {"delete", "settle"} -> {"report"}

LEMMA Follows ==
  ASSUME NEW call, call.cmd.op \in Ops,
         call.stage \in {"resolve", "authorize"} \cup (Behind(call.cmd.op) \ {"report"})
  PROVE  \E stage \in Following(call.stage) :
           /\ Continued(call) = [call EXCEPT !.stage = stage]
           /\ stage \in {"authorize"} \cup Behind(call.cmd.op)
<1> DEFINE order == Order(call.cmd.op)
<1>1. CASE call.cmd.op = "create"
  <2>1. order = <<"resolve", "authorize", "name", "join", "queue", "settle", "report">>
    BY <1>1 DEF Order
  <2>2. Behind(call.cmd.op) = {"name", "join", "queue", "settle", "report"}
    BY <1>1 DEF Behind
  <2>3. Len(order) = 7 /\ Len(order) \in Nat
    BY <2>1
  <2>4. PICK n \in 1..6 : /\ n \in 1..Len(order) /\ order[n] = call.stage
                         /\ \A m \in 1..Len(order) : order[m] = call.stage => m = n
    BY <2>1, <2>2, <2>3
  <2>5. order[n + 1] \in Following(call.stage)
    BY <2>1, <2>4 DEF Following
  <2>6. order[n + 1] \in {"authorize"} \cup Behind(call.cmd.op)
    BY <2>1, <2>2, <2>4
  <2>7. Continued(call) = [call EXCEPT !.stage = order[n + 1]]
    BY <2>4, NextOf, Zenon
  <2> WITNESS order[n + 1] \in Following(call.stage)
  <2> QED BY <2>6, <2>7
<1>2. CASE call.cmd.op = "append"
  <2>1. order = <<"resolve", "authorize", "count", "join", "queue", "settle", "report">>
    BY <1>2 DEF Order
  <2>2. Behind(call.cmd.op) = {"count", "join", "queue", "settle", "report"}
    BY <1>2 DEF Behind
  <2>3. Len(order) = 7 /\ Len(order) \in Nat
    BY <2>1
  <2>4. PICK n \in 1..6 : /\ n \in 1..Len(order) /\ order[n] = call.stage
                         /\ \A m \in 1..Len(order) : order[m] = call.stage => m = n
    BY <2>1, <2>2, <2>3
  <2>5. order[n + 1] \in Following(call.stage)
    BY <2>1, <2>4 DEF Following
  <2>6. order[n + 1] \in {"authorize"} \cup Behind(call.cmd.op)
    BY <2>1, <2>2, <2>4
  <2>7. Continued(call) = [call EXCEPT !.stage = order[n + 1]]
    BY <2>4, NextOf, Zenon
  <2> WITNESS order[n + 1] \in Following(call.stage)
  <2> QED BY <2>6, <2>7
<1>3. CASE call.cmd.op = "remove"
  <2>1. order = <<"resolve", "authorize", "delete", "report">>
    BY <1>3 DEF Order
  <2>2. Behind(call.cmd.op) = {"delete", "report"}
    BY <1>3 DEF Behind
  <2>3. Len(order) = 4 /\ Len(order) \in Nat
    BY <2>1
  <2>4. PICK n \in 1..3 : /\ n \in 1..Len(order) /\ order[n] = call.stage
                         /\ \A m \in 1..Len(order) : order[m] = call.stage => m = n
    BY <2>1, <2>2, <2>3
  <2>5. order[n + 1] \in Following(call.stage)
    BY <2>1, <2>4 DEF Following
  <2>6. order[n + 1] \in {"authorize"} \cup Behind(call.cmd.op)
    BY <2>1, <2>2, <2>4
  <2>7. Continued(call) = [call EXCEPT !.stage = order[n + 1]]
    BY <2>4, NextOf, Zenon
  <2> WITNESS order[n + 1] \in Following(call.stage)
  <2> QED BY <2>6, <2>7
<1>4. CASE call.cmd.op = "search"
  <2>1. order = <<"resolve", "authorize", "retrieve", "settle", "report">>
    BY <1>4 DEF Order
  <2>2. Behind(call.cmd.op) = {"retrieve", "settle", "report"}
    BY <1>4 DEF Behind
  <2>3. Len(order) = 5 /\ Len(order) \in Nat
    BY <2>1
  <2>4. PICK n \in 1..4 : /\ n \in 1..Len(order) /\ order[n] = call.stage
                         /\ \A m \in 1..Len(order) : order[m] = call.stage => m = n
    BY <2>1, <2>2, <2>3
  <2>5. order[n + 1] \in Following(call.stage)
    BY <2>1, <2>4 DEF Following
  <2>6. order[n + 1] \in {"authorize"} \cup Behind(call.cmd.op)
    BY <2>1, <2>2, <2>4
  <2>7. Continued(call) = [call EXCEPT !.stage = order[n + 1]]
    BY <2>4, NextOf, Zenon
  <2> WITNESS order[n + 1] \in Following(call.stage)
  <2> QED BY <2>6, <2>7
<1> QED BY <1>1, <1>2, <1>3, <1>4 DEF Ops

-----------------------------------------------------------------------------
(* One call moves.                                                         *)

\* What a step may do to the indexes others have looked up.
Kept ==
  \A i \in Ids : indexes[i] # NotYet =>
    /\ indexes'[i] # NotYet
    /\ LiveIn(indexes', i) =>
         /\ LiveIn(indexes, i)
         /\ indexes[i].owner # None => indexes'[i].owner = indexes[i].owner

LEMMA OwnedKept ==
  ASSUME NEW on, NEW call, Placed(call), Owned(on, call, indexes), Kept
  PROVE  Owned(on, call, indexes')
<1> SUFFICES ASSUME call.stage \in {"authorize"} \cup Admitted, call.cmd.op # "create"
             PROVE  /\ call.id \in Ids /\ indexes'[call.id] # NotYet
                    /\ call.stage = "authorize" =>
                         /\ call.row \in Row
                         /\ LiveIn(indexes', call.id) /\ call.row.owner # None =>
                              indexes'[call.id].owner = call.row.owner
                    /\ on /\ call.stage \in Admitted /\ call.cmd.op # "search" /\ LiveIn(indexes', call.id) =>
                         indexes'[call.id].owner = call.cmd.wallet
  BY DEF Owned
<1>1. call.cmd.wallet # None
  BY CommissionAssumption DEF Placed, Admitted
<1>2. call.id \in Ids /\ indexes[call.id] # NotYet
  BY DEF Owned
<1> QED BY <1>1, <1>2 DEF Owned, Kept

LEMMA CallMoves ==
  ASSUME CallsInv, NEW c \in Clients, NEW p, calls' = [calls EXCEPT ![c] = p],
         enabled' = enabled, CallInv(enabled, p, indexes'), Kept
  PROVE  CallsInv'
<1>1. p \in Call
  BY DEF CallInv, Placed
<1>2. calls' \in [Clients -> Call]
  BY <1>1 DEF CallsInv
<1>3. ASSUME NEW d \in Clients PROVE CallInv(enabled, calls'[d], indexes')
  <2>1. CASE d = c
    BY <2>1 DEF CallsInv
  <2>2. CASE d # c
    <3>1. calls'[d] = calls[d] /\ CallInv(enabled, calls[d], indexes)
      BY <2>2 DEF CallsInv
    <3>2. Owned(enabled, calls[d], indexes')
      BY <3>1, OwnedKept DEF CallInv
    <3> QED BY <3>1, <3>2 DEF CallInv
  <2> QED BY <2>1, <2>2
<1> QED BY <1>2, <1>3 DEF CallsInv

LEMMA CallsStay ==
  ASSUME CallsInv, UNCHANGED <<calls, enabled>>, Kept PROVE CallsInv'
<1>1. \A d \in Clients : Owned(enabled, calls[d], indexes')
  BY OwnedKept DEF CallsInv, CallInv
<1> QED BY <1>1 DEF CallsInv, CallInv

LEMMA SameIndexes == ASSUME indexes' = indexes PROVE Kept
BY DEF Kept

\* An answer, to a call that has not paid or that is told of an error.
LEMMA AnsweredInv ==
  ASSUME NEW on, NEW call, NEW rows, CallInv(on, call, rows), call.stage # "idle",
         NEW answer \in {"bad", "payment", "forbidden", "unknown", "collision", "error", "done"},
         call.spent = 0 \/ answer \in {"error", "done"},
         answer = "payment" => call.asked = Price(call.cmd), NEW after
  PROVE  CallInv(on, Answered(call, answer), after)
<1> DEFINE p == Answered(call, answer)
<1>1. call \in Call
  BY DEF CallInv, Placed
<1>2. p = [call EXCEPT !.stage = "answered", !.answer = answer, !.row = NotYet]
  BY DEF Answered
<1> HIDE DEF p
<1>9. p \in Call
  BY <1>1, <1>2 DEF Call
<1>3. /\ p.stage = "answered" /\ p.answer = answer /\ p.cmd = call.cmd /\ p.phase = call.phase
      /\ p.slug = call.slug /\ p.asked = call.asked
      /\ p.signed = call.signed /\ p.shown = call.shown
      /\ p.spent = call.spent /\ p.works = call.works
  BY <1>1, <1>2 DEF Call
<1>4. Placed(p)
  BY <1>3, <1>9 DEF CallInv, Placed, Admitted
<1>5. Amounts(p)
  BY <1>3 DEF CallInv, Amounts
<1>6. Charged(on, p)
  BY <1>3 DEF CallInv, Charged, Admitted
<1>7. Owned(on, p, after)
  BY <1>3 DEF Owned, Admitted
<1> QED BY <1>4, <1>5, <1>6, <1>7 DEF CallInv, p

\* A request of the client, before it has an answer.
LEMMA RequestInv ==
  ASSUME NEW on, NEW call \in Call, NEW rows, call.cmd \in Commands,
         call.phase \in {"quote", "unpaid", "paid"}, Amounts(call),
         call.spent = 0, call.works = 0 \/ ~on
  PROVE  CallInv(on, Request(call), rows)
<1> DEFINE p == Request(call)
<1>1. p = [call EXCEPT !.stage = "resolve", !.id = None, !.row = NotYet, !.slug = None,
                       !.joined = {}, !.answer = "none"]
  BY DEF Request
<1>2. p \in Call
  BY <1>1 DEF Call
<1>3. /\ p.stage = "resolve" /\ p.answer = "none" /\ p.cmd = call.cmd /\ p.phase = call.phase
      /\ p.slug = None /\ p.asked = call.asked
      /\ p.signed = call.signed /\ p.shown = call.shown
      /\ p.spent = call.spent /\ p.works = call.works
  BY <1>1 DEF Call
<1> HIDE DEF p
<1>4. Placed(p)
  BY <1>2, <1>3 DEF Placed, Admitted
<1>5. Amounts(p)
  BY <1>3 DEF Amounts
<1>6. Charged(on, p)
  BY <1>3 DEF Charged, Admitted
<1>7. Owned(on, p, rows)
  BY <1>3 DEF Owned, Admitted
<1> QED BY <1>4, <1>5, <1>6, <1>7 DEF CallInv, p

LEMMA NoCallInv == ASSUME NEW on, NEW rows PROVE CallInv(on, NoCall, rows)
<1>1. /\ NoCall.stage = "idle" /\ NoCall.phase = "none" /\ NoCall.cmd = NoCommand
      /\ NoCall.answer = "none" /\ NoCall.shown = None /\ NoCall.signed = 0
      /\ NoCall.spent = 0 /\ NoCall.works = 0 /\ NoCall.slug = None
  BY DEF NoCall
<1>2. NoCall \in Call
  BY DEF NoCall, Call
<1>3. Placed(NoCall)
  BY <1>1, <1>2 DEF Placed, Admitted
<1>4. Amounts(NoCall)
  BY <1>1 DEF Amounts
<1>5. Charged(on, NoCall)
  BY <1>1 DEF Charged, Admitted
<1>6. Owned(on, NoCall, rows)
  BY <1>1 DEF Owned, Admitted
<1> QED BY <1>3, <1>4, <1>5, <1>6 DEF CallInv

\* A call that goes on to a later await of its handler.
LEMMA GoesOn ==
  ASSUME NEW on, NEW call, NEW rows, CallInv(on, call, rows),
         call.stage \in {"resolve", "authorize"} \cup Admitted, call.stage # "report",
         on /\ call.stage = "authorize" => call.phase = "paid",
         call.stage \in {"name", "count"} => None \notin Wanted(call.cmd),
         call.stage = "name" => None \notin call.cmd.readers,
         NEW p \in Call, NEW after, Owned(on, p, after),
         p.stage \in Following(call.stage),
         p.stage \in {"authorize"} \cup Behind(call.cmd.op),
         p.cmd = call.cmd, p.phase = call.phase, p.answer = call.answer,
         p.signed = call.signed, p.shown = call.shown,
         call.stage = "name" => p.slug # None, call.stage # "name" => p.slug = call.slug,
         p.spent = call.spent \/ (on /\ call.stage = "settle" /\ p.spent = call.spent + call.signed),
         p.works = call.works \/ (call.stage = "queue" /\ p.works = call.works + 1)
  PROVE  CallInv(on, p, after)
<1>1. call \in Call /\ call.answer = "none"
  BY DEF CallInv, Placed, Admitted
<1>2. call.spent \in Nat /\ call.works \in Nat /\ call.signed \in Nat
  BY <1>1 DEF Call
<1>3. call.spent = 0 /\ (on => call.works = 0 \/ call.stage = "settle")
  BY DEF CallInv, Charged, Admitted
<1>4. call.stage # "idle" /\ call.cmd \in Commands /\ call.phase \in {"quote", "unpaid", "paid"}
  BY DEF CallInv, Placed, Admitted
<1>5. p.stage \notin {"idle", "answered", "resolve"}
  BY DEF Following, Admitted
<1>6. p.stage \in {"join", "queue"} =>
        None \notin Wanted(p.cmd) /\ (p.cmd.op = "create" => p.slug # None /\ None \notin p.cmd.readers)
  <2>1. call.stage \in {"name", "count", "join"} \/ p.stage \notin {"join", "queue"}
    BY DEF Following, Admitted
  <2>2. call.stage # "count" \/ call.cmd.op # "create"
    BY DEF CallInv, Placed, Behind, Admitted
  <2> QED BY <2>1, <2>2 DEF CallInv, Placed
<1>7. Placed(p)
  BY <1>1, <1>4, <1>5, <1>6 DEF Placed, Admitted
<1>8. Amounts(p)
  BY <1>1 DEF CallInv, Amounts
<1>9. on /\ p.stage \in Admitted => p.phase = "paid"
  BY DEF CallInv, Charged, Admitted, Following
<1>10. p.spent # 0 => /\ p.stage = "report" /\ p.phase = "paid"
                      /\ p.spent = p.signed /\ p.answer = "none"
  <2> SUFFICES ASSUME p.spent # 0
               PROVE  p.stage = "report" /\ p.phase = "paid" /\ p.spent = p.signed /\ p.answer = "none"
    OBVIOUS
  <2>1. on /\ call.stage = "settle" /\ p.spent = call.spent + call.signed
    BY <1>3
  <2>2. p.stage = "report"
    BY <2>1 DEF Following
  <2> QED BY <1>1, <1>2, <1>3, <1>9, <2>1, <2>2 DEF Admitted
<1>11. on /\ p.works # 0 => p.stage \in {"settle", "report"} /\ p.phase = "paid" /\ p.works = 1
  <2> SUFFICES ASSUME on, p.works # 0
               PROVE  p.stage \in {"settle", "report"} /\ p.phase = "paid" /\ p.works = 1
    OBVIOUS
  <2>1. CASE call.works # 0
    <3>1. call.stage = "settle" /\ call.works = 1 /\ p.works = 1
      BY <1>3, <2>1 DEF CallInv, Charged
    <3> QED BY <1>9, <3>1 DEF Following, Admitted
  <2>2. CASE call.works = 0
    <3>1. call.stage = "queue" /\ p.works = 1
      BY <1>2, <2>2
    <3> QED BY <1>9, <3>1 DEF Following, Admitted
  <2> QED BY <2>1, <2>2
<1>12. Charged(on, p)
  BY <1>9, <1>10, <1>11 DEF Charged
<1> QED BY <1>7, <1>8, <1>12 DEF CallInv

\* The suffix that is taken is free: there are more of them than indexes.
LEMMA FreshSlug ==
  ASSUME TablesInv, NEW cmd \in Commands, NEW taken,
         taken \subseteq {indexes[i].slug : i \in Live}
  PROVE  UniqueSlug(cmd.name, taken) \in Slugs \ taken
<1> DEFINE K == 1..(MaxIndexes + 2)
           free == {k \in K : <<cmd.name, k>> \notin taken}
           least == CHOOSE k \in free : \A other \in free : k <= other
           less == {pair \in Nat \X Nat : pair[1] < pair[2]}
<1>1. MaxIndexes \in Nat
  BY CommissionAssumption
<1>2. free # {}
  <2> SUFFICES ASSUME free = {} PROVE FALSE
    OBVIOUS
  <2> DEFINE f == [k \in K |-> CHOOSE i \in Live : indexes[i].slug = <<cmd.name, k>>]
  <2>1. ASSUME NEW k \in K PROVE f[k] \in Ids /\ indexes[f[k]].slug = <<cmd.name, k>>
    <3>1. \E i \in Live : indexes[i].slug = <<cmd.name, k>>
      OBVIOUS
    <3>2. f[k] \in Live /\ indexes[f[k]].slug = <<cmd.name, k>>
      BY <3>1
    <3> QED BY <3>2 DEF Live
  <2>2. f \in [K -> Ids]
    BY <2>1
  <2>3. IsFiniteSet(K) /\ Cardinality(K) = MaxIndexes + 2
    BY <1>1, FS_Interval
  <2>4. IsFiniteSet(Ids) /\ Cardinality(Ids) = MaxIndexes + 1
    BY <1>1, FS_Interval DEF Ids
  <2>5. Cardinality(Ids) < Cardinality(K)
    BY <1>1, <2>3, <2>4
  <2> HIDE DEF K, f
  <2>6. PICK j, k \in K : j # k /\ f[j] = f[k]
    BY <2>2, <2>3, <2>4, <2>5, FS_PigeonHole
  <2>7. <<cmd.name, j>> = <<cmd.name, k>>
    BY <2>1, <2>6
  <2> QED BY <2>6, <2>7
<1>3. free \subseteq Nat
  BY <1>1
<1> HIDE DEF free
<1>0. IsWellFoundedOn(less, Nat)
  BY NatLessThanWellFounded DEF OpToRel
<1> HIDE DEF less
<1>4. PICK k \in free : \A other \in free : <<other, k>> \notin less
  BY <1>2, <1>3, <1>0, WFMin
<1>5. ASSUME NEW other \in free PROVE k <= other
  <2>1. k \in Nat /\ other \in Nat /\ <<other, k>> \in Nat \X Nat
    BY <1>3
  <2>2. ~(<<other, k>>[1] < <<other, k>>[2])
    BY <1>4, <2>1 DEF less
  <2> QED BY <2>1, <2>2
<1>6. least \in free
  BY <1>5
<1>7. least \in K /\ <<cmd.name, least>> \notin taken
  BY <1>6 DEF free
<1>8. UniqueSlug(cmd.name, taken) = <<cmd.name, least>>
  BY DEF UniqueSlug, free
<1> HIDE DEF least
<1>9. <<cmd.name, least>> \in Slugs
  BY <1>7 DEF Slugs
<1> QED BY <1>7, <1>8, <1>9

-----------------------------------------------------------------------------
(* The client.                                                             *)

LEMMA TablesStay ==
  ASSUME TablesInv, UNCHANGED <<enabled, tables, stored, funds>>,
         commands' \in 0..MaxCommands, faults' \in 0..MaxFaults
  PROVE  TablesInv'
BY DEF TablesInv, tables, LiveIn

\* What is assumed of a call, in one place.
LEMMA CallOf ==
  ASSUME PaymentInv, NEW c \in Clients
  PROVE  /\ CallInv(enabled, calls[c], indexes) /\ calls[c] \in Call
         /\ calls[c].stage # "idle" => /\ calls[c].cmd \in Commands /\ calls[c].cmd.op \in Ops
                                       /\ calls[c].cmd.wallet \in Wallets
BY CommissionAssumption DEF PaymentInv, CallsInv, CallInv, Placed

LEMMA BeginKeeps ==
  ASSUME PaymentInv, NEW c \in Clients, NEW cmd \in Commands, Begin(c, cmd) PROVE PaymentInv'
<1> DEFINE call == [NoCall EXCEPT !.cmd = cmd,
                      !.phase = IF cmd.op \in {"create", "append"} THEN "quote" ELSE "unpaid"]
<1>1. /\ calls' = [calls EXCEPT ![c] = Request(call)]
      /\ UNCHANGED <<enabled, tables, stored, funds, faults>>
      /\ commands < MaxCommands /\ commands' = commands + 1
  BY DEF Begin, Becomes
<1>2. /\ call \in Call /\ call.cmd = cmd /\ call.phase \in {"quote", "unpaid"}
      /\ call.spent = 0 /\ call.works = 0 /\ call.signed = 0 /\ call.shown = None
      /\ call.answer = "none"
  BY DEF NoCall, Call
<1> HIDE DEF call
<1>3. Amounts(call)
  BY <1>2 DEF Amounts
<1>4. CallInv(enabled, Request(call), indexes)
  BY <1>2, <1>3, RequestInv
<1>5. Kept /\ indexes' = indexes
  BY <1>1, SameIndexes DEF tables
<1>6. CallsInv'
  BY <1>1, <1>4, <1>5, CallMoves DEF PaymentInv
<1>7. commands' \in 0..MaxCommands /\ faults' \in 0..MaxFaults
  BY <1>1, CommissionAssumption DEF PaymentInv, TablesInv
<1>8. TablesInv'
  BY <1>1, <1>7, TablesStay DEF PaymentInv
<1> QED BY <1>6, <1>8 DEF PaymentInv

LEMMA HearQuoteInv ==
  ASSUME NEW on, NEW call, NEW rows, CallInv(on, call, rows),
         call.stage = "answered", call.phase = "quote"
  PROVE  CallInv(on, HearQuote(call), rows)
<1> DEFINE free == [call EXCEPT !.phase = "unpaid"]
           told == [call EXCEPT !.phase = "unpaid", !.shown = call.asked]
<1>1. /\ call \in Call /\ call.cmd \in Commands
      /\ call.shown = None /\ call.signed = 0
      /\ call.spent = 0 /\ (call.works = 0 \/ ~on)
  BY DEF CallInv, Placed, Amounts, Charged
<1>2. CASE call.answer # "payment"
  <2>1. HearQuote(call) = Request(free)
    BY <1>2 DEF HearQuote
  <2>2. /\ free \in Call /\ free.cmd = call.cmd /\ free.phase = "unpaid"
        /\ free.shown = None /\ free.signed = 0 /\ free.answer = call.answer
        /\ free.spent = 0 /\ (free.works = 0 \/ ~on)
    BY <1>1 DEF Call
  <2> HIDE DEF free
  <2>3. Amounts(free)
    BY <1>2, <2>2 DEF Amounts
  <2> QED BY <1>1, <2>1, <2>2, <2>3, RequestInv
<1>3. CASE call.answer = "payment" /\ call.asked > MaxSpend
  BY <1>3, NoCallInv DEF HearQuote
<1>4. CASE call.answer = "payment" /\ ~(call.asked > MaxSpend)
  <2>1. HearQuote(call) = Request(told)
    BY <1>4 DEF HearQuote
  <2>2. /\ told \in Call /\ told.cmd = call.cmd /\ told.phase = "unpaid"
        /\ told.shown = call.asked /\ told.asked = call.asked /\ told.signed = 0
        /\ told.spent = 0 /\ (told.works = 0 \/ ~on)
    BY <1>1 DEF Call
  <2>3. call.asked = Price(call.cmd)
    BY <1>4 DEF CallInv, Amounts
  <2> HIDE DEF told
  <2>4. Amounts(told)
    BY <2>2, <2>3 DEF Amounts
  <2> QED BY <1>1, <2>1, <2>2, <2>4, RequestInv
<1> QED BY <1>2, <1>3, <1>4

LEMMA HearUnpaidInv ==
  ASSUME NEW on, NEW call, NEW rows, CallInv(on, call, rows),
         call.stage = "answered", call.phase = "unpaid"
  PROVE  CallInv(on, HearUnpaid(call), rows)
<1> DEFINE signs == [call EXCEPT !.phase = "paid", !.signed = call.asked,
                                 !.shown = IF call.shown = None THEN call.asked ELSE call.shown]
<1>1. /\ call \in Call /\ call.cmd \in Commands
      /\ call.shown \in {None, Price(call.cmd)}
      /\ call.spent = 0 /\ (call.works = 0 \/ ~on)
  BY DEF CallInv, Placed, Amounts, Charged
<1>2. CASE call.answer = "payment" /\ call.asked <= MaxSpend
  <2>1. HearUnpaid(call) = Request(signs)
    BY <1>2 DEF HearUnpaid
  <2>2. call.asked = Price(call.cmd)
    BY <1>2 DEF CallInv, Amounts
  <2>3. /\ signs \in Call /\ signs.cmd = call.cmd /\ signs.phase = "paid"
        /\ signs.signed = call.asked /\ signs.asked = call.asked
        /\ signs.shown = IF call.shown = None THEN call.asked ELSE call.shown
        /\ signs.spent = 0 /\ (signs.works = 0 \/ ~on)
    BY <1>1 DEF Call
  <2>4. signs.shown = signs.signed
    BY <1>1, <2>2, <2>3
  <2> HIDE DEF signs
  <2>5. Amounts(signs)
    BY <1>2, <2>2, <2>3, <2>4 DEF Amounts
  <2> QED BY <1>1, <2>1, <2>3, <2>5, RequestInv
<1>3. CASE ~(call.answer = "payment" /\ call.asked <= MaxSpend)
  BY <1>3, NoCallInv DEF HearUnpaid
<1> QED BY <1>2, <1>3

LEMMA ReceiveKeeps == ASSUME PaymentInv, NEW c \in Clients, Receive(c) PROVE PaymentInv'
<1> DEFINE call == calls[c]
           next == CASE call.phase = "quote" -> HearQuote(call)
                     [] call.phase = "unpaid" -> HearUnpaid(call)
                     [] call.phase = "paid" -> NoCall
<1>1. /\ call.stage = "answered" /\ calls' = [calls EXCEPT ![c] = next]
      /\ UNCHANGED <<enabled, tables, stored, funds, commands, faults>>
  BY DEF Receive, At, Becomes
<1>2. CallInv(enabled, call, indexes) /\ call.phase \in {"quote", "unpaid", "paid"}
  BY <1>1, CallOf DEF CallInv, Placed
<1>3. CallInv(enabled, next, indexes)
  BY <1>1, <1>2, HearQuoteInv, HearUnpaidInv, NoCallInv
<1>4. Kept /\ indexes' = indexes
  BY <1>1, SameIndexes DEF tables
<1> HIDE DEF next
<1>5. CallsInv'
  BY <1>1, <1>3, <1>4, CallMoves DEF PaymentInv
<1>6. TablesInv'
  BY <1>1, TablesStay DEF PaymentInv, TablesInv
<1> QED BY <1>5, <1>6 DEF PaymentInv

-----------------------------------------------------------------------------
(* The handlers.                                                           *)

LEMMA Answers ==
  ASSUME PaymentInv, NEW c \in Clients, calls[c].stage # "idle",
         NEW answer \in {"bad", "payment", "forbidden", "unknown", "collision", "error", "done"},
         calls[c].spent = 0 \/ answer \in {"error", "done"},
         answer = "payment" => calls[c].asked = Price(calls[c].cmd),
         calls' = [calls EXCEPT ![c] = Answered(calls[c], answer)], enabled' = enabled, Kept
  PROVE  CallsInv'
<1>1. CallInv(enabled, Answered(calls[c], answer), indexes')
  BY CallOf, AnsweredInv
<1> QED BY <1>1, CallMoves DEF PaymentInv

\* A call that goes on, field by field.
Same(p, call) ==
  /\ p.cmd = call.cmd /\ p.phase = call.phase /\ p.answer = call.answer
  /\ p.signed = call.signed /\ p.shown = call.shown
  /\ p.spent = call.spent

LEMMA Continuing ==
  ASSUME PaymentInv, NEW c \in Clients,
         calls[c].stage \in {"resolve", "authorize"} \cup Admitted, calls[c].stage # "report"
  PROVE  /\ Continued(calls[c]) \in Call
         /\ Continued(calls[c]).stage \in Following(calls[c].stage)
         /\ Continued(calls[c]).stage \in {"authorize"} \cup Behind(calls[c].cmd.op)
         /\ Same(Continued(calls[c]), calls[c])
         /\ Continued(calls[c]).slug = calls[c].slug
         /\ Continued(calls[c]).id = calls[c].id /\ Continued(calls[c]).row = calls[c].row
         /\ Continued(calls[c]).works = calls[c].works
<1> DEFINE call == calls[c]
<1>1. call \in Call /\ call.cmd.op \in Ops /\ Placed(call)
  BY CallOf DEF Admitted, CallInv
<1>2. call.stage \in {"resolve", "authorize"} \cup (Behind(call.cmd.op) \ {"report"})
  BY <1>1 DEF Placed
<1>3. PICK stage \in Following(call.stage) :
        /\ Continued(call) = [call EXCEPT !.stage = stage]
        /\ stage \in {"authorize"} \cup Behind(call.cmd.op)
  BY <1>1, <1>2, Follows
<1>4. stage \in {"authorize"} \cup Admitted
  BY DEF Following, Admitted
<1> HIDE DEF call
<1> QED BY <1>1, <1>3, <1>4 DEF Call, Same, Admitted, call

\* Nothing has been paid before the request is settled.
LEMMA NotPaidYet ==
  ASSUME PaymentInv, NEW c \in Clients, calls[c].stage \notin {"report", "answered"}
  PROVE  calls[c].spent = 0
BY CallOf DEF CallInv, Charged

\* Adoption gives the global index an owner and takes none away.
LEMMA AdoptedKept ==
  ASSUME TablesInv, indexes' \in {indexes, Adopted} PROVE Kept
<1>1. CASE indexes' = indexes
  BY <1>1, SameIndexes
<1>2. CASE indexes' = [indexes EXCEPT ![0].owner = Operator] /\ 0 \in Live
  <2>1. 0 \in Ids /\ LiveIn(indexes, 0) /\ indexes[0] \in Row
    BY <1>2, CommissionAssumption DEF Live, Ids, LiveIn, TablesInv
  <2>2. indexes'[0] = [indexes[0] EXCEPT !.owner = Operator] /\ indexes'[0] \in Row
    BY <1>2, <2>1, CommissionAssumption DEF TablesInv, Row
  <2>3. indexes'[0].owner = Operator /\ LiveIn(indexes', 0)
    BY <2>1, <2>2, RowIsNeither DEF Row, LiveIn
  <2>4. \A i \in Ids : i # 0 => indexes'[i] = indexes[i]
    BY <1>2 DEF TablesInv
  <2>5. ASSUME NEW i \in Ids, indexes[i] # NotYet
        PROVE  /\ indexes'[i] # NotYet
               /\ LiveIn(indexes', i) =>
                    /\ LiveIn(indexes, i)
                    /\ indexes[i].owner # None => indexes'[i].owner = indexes[i].owner
    BY <2>1, <2>3, <2>4, <2>5 DEF LiveIn, TablesInv
  <2> QED BY <2>5 DEF Kept
<1> QED BY <1>1, <1>2 DEF Adopted

LEMMA AdoptedTables ==
  ASSUME TablesInv, indexes' \in {indexes, Adopted},
         UNCHANGED <<enabled, members, pending, failed, stored, funds, commands, faults>>
  PROVE  TablesInv'
<1>1. CASE indexes' = indexes
  BY <1>1 DEF TablesInv, LiveIn
<1>2. CASE indexes' = [indexes EXCEPT ![0].owner = Operator] /\ 0 \in Live
  <2>1. 0 \in Ids /\ indexes[0] \in Row
    BY <1>2, CommissionAssumption DEF Live, LiveIn, Ids, TablesInv
  <2>2. indexes'[0] = [indexes[0] EXCEPT !.owner = Operator] /\ indexes'[0] \in Row
    BY <1>2, <2>1, CommissionAssumption DEF TablesInv, Row
  <2>3. indexes'[0].owner = Operator /\ indexes'[0] # NotYet
    BY <2>1, <2>2, RowIsNeither DEF Row
  <2>4. indexes' \in [Ids -> Row \cup {NotYet, Gone}]
    BY <1>2, <2>1, <2>2 DEF TablesInv
  <2> QED BY <2>3, <2>4 DEF TablesInv, LiveIn
<1> QED BY <1>1, <1>2 DEF Adopted

LEMMA ResolveKeeps == ASSUME PaymentInv, NEW c \in Clients, Resolve(c) PROVE PaymentInv'
<1> DEFINE call == calls[c]
<1>1. /\ call.stage = "resolve" /\ enabled' = enabled
      /\ UNCHANGED <<members, pending, failed, stored, funds, commands, faults>>
  BY DEF Resolve, At
<1>2. indexes' \in {indexes, Adopted}
  BY DEF Resolve, ResolveCreate, ResolveIndex
<1>3. TablesInv' /\ Kept
  BY <1>1, <1>2, AdoptedTables, AdoptedKept DEF PaymentInv
<1>4. /\ call \in Call /\ CallInv(enabled, call, indexes)
      /\ call.cmd.op \in Ops /\ call.spent = 0
  BY <1>1, CallOf, NotPaidYet
<1> DEFINE q == Continued(call)
<1>5. /\ q \in Call /\ q.stage \in Following(call.stage) /\ Same(q, call)
      /\ q.stage \in {"authorize"} \cup Behind(call.cmd.op)
      /\ q.slug = call.slug /\ q.works = call.works
  BY <1>1, Continuing
<1>6. q.stage = "authorize"
  BY <1>1, <1>5 DEF Following
<1> HIDE DEF q
<1>7. ASSUME NEW answer \in {"bad", "unknown"}, Becomes(c, Answered(call, answer)) PROVE CallsInv'
  BY <1>1, <1>3, <1>4, <1>7, Answers DEF Becomes
<1>8. CASE call.cmd.op = "create"
  <2>1. SUFFICES ASSUME Becomes(c, q) PROVE CallsInv'
    BY <1>3, <1>7, <1>8 DEF Resolve, ResolveCreate, PaymentInv, q
  <2>2. Owned(enabled, q, indexes')
    BY <1>5, <1>8 DEF Owned, Same
  <2>3. CallInv(enabled, q, indexes')
    BY <1>1, <1>4, <1>5, <1>6, <2>2, GoesOn DEF CallInv, Placed, Same
  <2> QED BY <1>1, <1>3, <2>1, <2>3, CallMoves DEF Becomes, PaymentInv
<1>9. CASE call.cmd.op # "create"
  <2>1. SUFFICES ASSUME NEW i \in Live,
                        Becomes(c, [q EXCEPT !.id = i, !.row = indexes'[i]])
                 PROVE  CallsInv'
    <3>1. ResolveIndex(c)
      BY <1>9 DEF Resolve
    <3> QED BY <1>3, <1>7, <3>1 DEF ResolveIndex, PaymentInv, q
  <2> DEFINE p == [q EXCEPT !.id = i, !.row = indexes'[i]]
  <2>2. i \in Ids /\ indexes[i] # NotYet
    BY DEF Live, LiveIn
  <2>3. indexes'[i] \in Row \cup {NotYet, Gone} /\ indexes'[i] # NotYet
    BY <1>3, <2>2 DEF TablesInv, Kept
  <2>4. indexes'[i] \in Row
    <3>1. indexes[i] \in Row
      BY <2>2 DEF PaymentInv, TablesInv, Live, LiveIn
    <3>2. CASE indexes' = indexes
      BY <3>1, <3>2
    <3>3. CASE indexes' = [indexes EXCEPT ![0].owner = Operator]
      BY <2>2, <3>1, <3>3, CommissionAssumption DEF PaymentInv, TablesInv, Row
    <3> QED BY <1>2, <3>2, <3>3 DEF Adopted
  <2>5. /\ p \in Call /\ p.stage = "authorize" /\ Same(p, call)
        /\ p.slug = call.slug /\ p.works = call.works
        /\ p.id = i /\ p.row = indexes'[i]
    BY <1>5, <1>6, <2>2, <2>4 DEF Call, Same
  <2> HIDE DEF p
  <2>6. Owned(enabled, p, indexes')
    BY <2>2, <2>3, <2>4, <2>5 DEF Owned, Admitted
  <2>7. CallInv(enabled, p, indexes')
    BY <1>1, <1>4, <1>5, <1>6, <2>5, <2>6, GoesOn DEF CallInv, Placed, Same
  <2> QED BY <1>1, <1>3, <2>1, <2>7, CallMoves DEF p, Becomes, PaymentInv
<1> QED BY <1>3, <1>8, <1>9 DEF PaymentInv

\* A step that only moves one call, and the balances, keeps the rest.
LEMMA OnlyCalls ==
  ASSUME PaymentInv, CallsInv', UNCHANGED <<enabled, tables, stored, commands>>,
         funds' \in [Wallets -> Nat], faults' \in {faults} \/ Fault
  PROVE  PaymentInv'
<1>1. faults' \in 0..MaxFaults
  BY CommissionAssumption DEF PaymentInv, TablesInv, Fault
<1> QED BY <1>1 DEF PaymentInv, TablesInv, tables, LiveIn

LEMMA AuthorizeKeeps == ASSUME PaymentInv, NEW c \in Clients, Authorize(c) PROVE PaymentInv'
<1> DEFINE call == calls[c]
           ask == [call EXCEPT !.asked = Price(call.cmd)]
           q == Continued(call)
           p == [q EXCEPT !.row = NotYet, !.asked = 0]
<1>1. /\ call.stage = "authorize" /\ UNCHANGED <<enabled, tables, stored, funds, commands>>
      /\ faults' \in {faults} \/ Fault
  BY DEF Authorize, Matched, At
<1>2. Kept /\ indexes' = indexes
  BY <1>1, SameIndexes DEF tables
<1>3. /\ call \in Call /\ CallInv(enabled, call, indexes) /\ call.spent = 0
      /\ call.cmd \in Commands /\ call.cmd.op \in Ops /\ call.cmd.wallet \in Wallets
  BY <1>1, CallOf, NotPaidYet
<1>4. /\ q \in Call /\ q.stage \in Following(call.stage) /\ Same(q, call)
      /\ q.stage \in {"authorize"} \cup Behind(call.cmd.op)
      /\ q.slug = call.slug /\ q.works = call.works
      /\ q.id = call.id /\ q.row = call.row
  BY <1>1, Continuing
<1>5. q.stage \in Admitted
  BY <1>1, <1>4 DEF Following, Admitted
<1> HIDE DEF q
<1>6. ASSUME ~enabled, Becomes(c, q) PROVE CallsInv'
  <2>1. Owned(enabled, q, indexes')
    BY <1>1, <1>2, <1>3, <1>4, <1>5, <1>6 DEF Owned, CallInv, Same, Admitted
  <2>2. CallInv(enabled, q, indexes')
    BY <1>1, <1>3, <1>4, <1>6, <2>1, GoesOn DEF CallInv, Placed, Same
  <2>3. calls' = [calls EXCEPT ![c] = q]
    BY <1>6 DEF Becomes
  <2> QED BY <1>1, <1>2, <2>2, <2>3, CallMoves DEF PaymentInv
<1>7. ASSUME Becomes(c, Answered(ask, "payment")) PROVE CallsInv'
  <2>1. Price(call.cmd) \in Nat
    BY <1>3, PriceType
  <2>2. /\ ask \in Call /\ ask.asked = Price(call.cmd) /\ ask.stage = call.stage
        /\ ask.cmd = call.cmd /\ ask.phase = call.phase /\ ask.answer = call.answer
        /\ ask.slug = call.slug /\ ask.id = call.id
        /\ ask.row = call.row /\ ask.signed = call.signed /\ ask.shown = call.shown
        /\ ask.spent = call.spent /\ ask.works = call.works
    BY <1>3, <2>1 DEF Call
  <2> HIDE DEF ask
  <2>3. Placed(ask)
    BY <1>3, <2>2 DEF CallInv, Placed
  <2>4. Amounts(ask) /\ Charged(enabled, ask) /\ Owned(enabled, ask, indexes)
    BY <1>3, <2>2 DEF CallInv, Amounts, Charged, Owned
  <2>5. CallInv(enabled, Answered(ask, "payment"), indexes')
    BY <1>1, <1>3, <2>2, <2>3, <2>4, AnsweredInv DEF CallInv
  <2> QED BY <1>1, <1>2, <1>7, <2>5, CallMoves DEF Becomes, PaymentInv, ask
<1>8. ASSUME call.phase = "paid", Permitted(call), Becomes(c, p) PROVE CallsInv'
  <2>1. /\ p \in Call /\ p.stage = q.stage /\ Same(p, call)
        /\ p.slug = call.slug /\ p.works = call.works
        /\ p.id = call.id
    BY <1>3, <1>4 DEF Call, Same
  <2> HIDE DEF p
  <2>2. call.cmd.wallet # None
    BY <1>3, CommissionAssumption
  <2>3. call.cmd.op \notin {"create", "search"} => call.cmd.wallet = call.row.owner
    BY <1>8 DEF Permitted, CanWrite
  <2>4. call.cmd.op # "create" =>
          /\ call.id \in Ids /\ indexes[call.id] # NotYet
          /\ LiveIn(indexes, call.id) /\ call.row.owner # None =>
               indexes[call.id].owner = call.row.owner
    BY <1>1, <1>3 DEF CallInv, Owned
  <2>5. Owned(enabled, p, indexes')
    BY <1>2, <1>5, <2>1, <2>2, <2>3, <2>4 DEF Owned, Same, Admitted
  <2>6. CallInv(enabled, p, indexes')
    BY <1>1, <1>3, <1>4, <1>8, <2>1, <2>5, GoesOn DEF CallInv, Placed, Same
  <2>7. calls' = [calls EXCEPT ![c] = p]
    BY <1>8 DEF Becomes, p
  <2> QED BY <1>1, <1>2, <2>6, <2>7, CallMoves DEF PaymentInv
<1>9. ASSUME Becomes(c, Answered(call, "forbidden")) PROVE CallsInv'
  BY <1>1, <1>2, <1>3, <1>9, Answers DEF Becomes
<1>10. call.phase = "paid" => call.signed = Price(call.cmd)
  BY <1>3 DEF CallInv, Amounts
<1> HIDE DEF p, ask
<1>11. CallsInv'
  <2>1. \/ (~enabled /\ Becomes(c, q))
        \/ Becomes(c, Answered(ask, "payment"))
        \/ (call.phase = "paid" /\ Permitted(call) /\ Becomes(c, p))
        \/ Becomes(c, Answered(call, "forbidden"))
    <3>1. \/ ~enabled /\ Becomes(c, q)
          \/ Becomes(c, Answered(ask, "payment"))
          \/ /\ enabled /\ call.phase = "paid"
             /\ Becomes(c, CASE call.signed # Price(call.cmd) -> Answered(ask, "unmatched")
                             [] call.signed = Price(call.cmd) /\ ~Verified(call) -> Answered(ask, "payment")
                             [] OTHER -> IF Permitted(call) THEN p ELSE Answered(call, "forbidden"))
      BY DEF Authorize, Matched, q, p, ask
    <3>2. CASE /\ enabled /\ call.phase = "paid"
               /\ Becomes(c, CASE call.signed # Price(call.cmd) -> Answered(ask, "unmatched")
                               [] call.signed = Price(call.cmd) /\ ~Verified(call) -> Answered(ask, "payment")
                               [] OTHER -> IF Permitted(call) THEN p ELSE Answered(call, "forbidden"))
      BY <1>10, <3>2
    <3> QED BY <3>1, <3>2
  <2> QED BY <1>6, <1>7, <1>8, <1>9, <2>1, Zenon
<1> QED BY <1>1, <1>11, OnlyCalls DEF PaymentInv, TablesInv

\* Past the gate a request goes on with the index and the wallet it had.
LEMMA Proceeds ==
  ASSUME PaymentInv, NEW c \in Clients, calls[c].stage \in Admitted, calls[c].stage # "report",
         calls[c].stage \in {"name", "count"} => None \notin Wanted(calls[c].cmd),
         calls[c].stage = "name" => None \notin calls[c].cmd.readers,
         NEW p \in Call, p.stage = Continued(calls[c]).stage,
         p.cmd = calls[c].cmd, p.phase = calls[c].phase, p.answer = calls[c].answer,
         p.signed = calls[c].signed, p.shown = calls[c].shown,
         calls[c].stage = "name" => p.slug # None,
         calls[c].stage # "name" => p.slug = calls[c].slug,
         \/ p.spent = calls[c].spent
         \/ enabled /\ calls[c].stage = "settle" /\ p.spent = calls[c].spent + calls[c].signed,
         \/ p.works = calls[c].works
         \/ calls[c].stage = "queue" /\ p.works = calls[c].works + 1,
         p.id = calls[c].id \/ p.cmd.op = "create",
         calls' = [calls EXCEPT ![c] = p], enabled' = enabled, Kept
  PROVE  CallsInv'
<1> DEFINE call == calls[c]
<1>1. /\ call \in Call /\ CallInv(enabled, call, indexes)
      /\ call.cmd \in Commands /\ call.cmd.op \in Ops
  BY CallOf DEF Admitted
<1>2. p.stage \in Following(call.stage) /\ p.stage \in {"authorize"} \cup Behind(call.cmd.op)
  BY Continuing
<1>3. p.stage \in Admitted
  BY <1>2 DEF Following, Admitted
<1>4. Owned(enabled, call, indexes')
  BY <1>1, OwnedKept DEF CallInv
<1>5. Owned(enabled, p, indexes')
  BY <1>3, <1>4 DEF Owned, Admitted
<1>6. CallInv(enabled, p, indexes')
  <2>1. enabled /\ call.stage = "authorize" => call.phase = "paid"
    BY DEF Admitted
  <2>2. call.stage \in {"resolve", "authorize"} \cup Admitted
    OBVIOUS
  <2> QED BY <1>1, <1>2, <1>5, <2>1, <2>2, GoesOn
<1> QED BY <1>6, CallMoves DEF PaymentInv

\* A call at an await past the gate that goes on, one field more being noted.
LEMMA NameKeeps == ASSUME PaymentInv, NEW c \in Clients, Name(c) PROVE PaymentInv'
<1> DEFINE call  == calls[c]
           taken == {s \in {indexes[i].slug : i \in Live} : s[1] = call.cmd.name}
           q == Continued(call)
           slug == UniqueSlug(call.cmd.name, taken)
           p == [q EXCEPT !.slug = slug]
<1>1. /\ call.stage = "name" /\ UNCHANGED <<enabled, tables, stored, funds, commands, faults>>
      /\ Becomes(c, IF Malformed(call.cmd) THEN Answered(call, "bad") ELSE p)
  BY DEF Name, At
<1>2. Kept /\ indexes' = indexes
  BY <1>1, SameIndexes DEF tables
<1>3. call \in Call /\ call.spent = 0 /\ call.cmd \in Commands
  BY <1>1, CallOf, NotPaidYet
<1>4. q \in Call /\ Same(q, call) /\ q.id = call.id /\ q.works = call.works
  BY <1>1, Continuing DEF Admitted
<1>5. slug \in Slugs
  BY <1>3, FreshSlug DEF PaymentInv
<1>6. slug # None
  BY <1>5, CommissionAssumption
<1>7. CASE Malformed(call.cmd)
  <2>1. CallsInv'
    BY <1>1, <1>2, <1>3, <1>7, Answers DEF Becomes
  <2> QED BY <1>1, <2>1, OnlyCalls DEF PaymentInv, TablesInv
<1>8. CASE ~Malformed(call.cmd)
  <2>0. None \notin Wanted(call.cmd) /\ None \notin call.cmd.readers
    BY <1>8 DEF Malformed
  <2> HIDE DEF q, slug
  <2>1. /\ p \in Call /\ Same(p, call) /\ p.stage = q.stage /\ p.id = call.id
        /\ p.works = call.works /\ p.slug # None
    BY <1>4, <1>5, <1>6 DEF Call, Same
  <2>2. calls' = [calls EXCEPT ![c] = p]
    BY <1>1, <1>8 DEF Becomes
  <2> HIDE DEF p
  <2>3. CallsInv'
    BY <1>1, <1>2, <2>0, <2>1, <2>2, Proceeds DEF Same, Admitted, q
  <2> QED BY <1>1, <2>3, OnlyCalls DEF PaymentInv, TablesInv
<1> QED BY <1>7, <1>8

LEMMA CountKeeps == ASSUME PaymentInv, NEW c \in Clients, Count(c) PROVE PaymentInv'
<1> DEFINE call == calls[c]
           q == Continued(call)
<1>1. /\ call.stage = "count" /\ UNCHANGED <<enabled, tables, stored, funds, commands, faults>>
      /\ \/ Becomes(c, Answered(call, "bad"))
         \/ None \notin Wanted(call.cmd) /\ Becomes(c, q)
  BY DEF Count, At
<1>2. Kept /\ indexes' = indexes
  BY <1>1, SameIndexes DEF tables
<1>3. call \in Call /\ CallInv(enabled, call, indexes) /\ call.spent = 0
  BY <1>1, CallOf, NotPaidYet
<1>4. /\ q \in Call /\ Same(q, call) /\ q.id = call.id /\ q.works = call.works
      /\ q.slug = call.slug
  BY <1>1, Continuing DEF Admitted
<1> HIDE DEF q
<1>5. ASSUME Becomes(c, Answered(call, "bad")) PROVE CallsInv'
  BY <1>1, <1>2, <1>3, <1>5, Answers DEF Becomes
<1>6. ASSUME None \notin Wanted(call.cmd), Becomes(c, q) PROVE CallsInv'
  BY <1>1, <1>2, <1>3, <1>4, <1>6, Proceeds DEF Becomes, Same, Admitted, q, CallInv, Placed
<1> QED BY <1>1, <1>5, <1>6, OnlyCalls DEF PaymentInv, TablesInv

LEMMA JoinKeeps == ASSUME PaymentInv, NEW c \in Clients, Join(c) PROVE PaymentInv'
<1> DEFINE call == calls[c]
           q == Continued(call)
           rows == Joining(call)
           p == [q EXCEPT !.joined = rows]
<1>1. /\ call.stage = "join" /\ UNCHANGED <<enabled, tables, stored, funds, commands, faults>>
      /\ Becomes(c, Answered(call, "error")) \/ Becomes(c, p)
  BY DEF Join, At
<1>2. Kept /\ indexes' = indexes
  BY <1>1, SameIndexes DEF tables
<1>3. call \in Call /\ CallInv(enabled, call, indexes) /\ call.spent = 0
  BY <1>1, CallOf, NotPaidYet
<1>4. /\ q \in Call /\ Same(q, call) /\ q.id = call.id /\ q.works = call.works
      /\ q.slug = call.slug
  BY <1>1, Continuing DEF Admitted
<1>5. rows \subseteq Pages
  BY DEF Joining, Held, PaymentInv, TablesInv
<1> HIDE DEF q, rows
<1>6. /\ p \in Call /\ Same(p, call) /\ p.stage = q.stage /\ p.id = call.id
      /\ p.works = call.works /\ p.slug = call.slug
  BY <1>4, <1>5 DEF Call, Same
<1> HIDE DEF p
<1>7. ASSUME Becomes(c, Answered(call, "error")) PROVE CallsInv'
  BY <1>1, <1>2, <1>3, <1>7, Answers DEF Becomes
<1>8. ASSUME Becomes(c, p) PROVE CallsInv'
  BY <1>1, <1>2, <1>3, <1>6, <1>8, Proceeds DEF Becomes, Same, Admitted, q, CallInv, Placed
<1> QED BY <1>1, <1>7, <1>8, OnlyCalls DEF PaymentInv, TablesInv

\* The rows are written: for a new index, or for one that exists.
LEMMA CommitKeeps ==
  ASSUME PaymentInv, NEW c \in Clients, calls[c].stage = "queue",
         NEW i \in Ids, calls[c].cmd.op = "create" \/ i = calls[c].id,
         Commit(c, i), UNCHANGED <<enabled, stored, funds, commands, faults, failed>>, Kept,
         indexes' \in [Ids -> Row \cup {NotYet, Gone}],
         indexes'[0] # NotYet /\ (LiveIn(indexes', 0) => indexes'[0].owner \in {None, Operator})
  PROVE  PaymentInv'
<1> DEFINE call == calls[c]
           q == Continued(call)
           more == q.works + 1
           p == [q EXCEPT !.id = i, !.works = more]
<1>1. /\ call \in Call /\ CallInv(enabled, call, indexes)
      /\ call.cmd \in Commands /\ None \notin Wanted(call.cmd)
  BY CallOf DEF CallInv, Placed
<1>2. /\ q \in Call /\ Same(q, call) /\ q.works = call.works
      /\ q.slug = call.slug
  BY Continuing DEF Admitted
<1>3. calls' = [calls EXCEPT ![c] = p]
  BY DEF Commit, Becomes
<1> HIDE DEF q
<1>0. more \in Nat /\ more = call.works + 1
  BY <1>2 DEF Call
<1> HIDE DEF more
<1>4. /\ p \in Call /\ Same(p, call) /\ p.stage = q.stage /\ p.id = i
      /\ p.works = more /\ p.slug = call.slug
  BY <1>2, <1>0 DEF Call, Same
<1> HIDE DEF p
<1>5. CallsInv'
  <2>1. call.stage \in Admitted /\ call.stage \notin {"report", "name", "count", "settle"}
    BY DEF Admitted
  <2>3. p.id = call.id \/ p.cmd.op = "create"
    BY <1>4 DEF Same
  <2> QED BY <1>0, <1>1, <1>3, <1>4, <2>1, <2>3, Proceeds DEF Same, q
<1>6. Missing(call.cmd) \subseteq Pages /\ call.joined \subseteq Pages
  <2>1. Wanted(call.cmd) \subseteq Pages \cup {None}
    BY <1>1, CommissionAssumption DEF Wanted
  <2> QED BY <1>1, <2>1 DEF Missing, Call
<1>7. members' \in [Ids -> SUBSET Pages] /\ pending' \in [Ids -> SUBSET Pages]
  BY <1>6 DEF Commit, PaymentInv, TablesInv
<1>8. TablesInv'
  BY <1>7 DEF PaymentInv, TablesInv
<1> QED BY <1>5, <1>8 DEF PaymentInv

LEMMA QueueKeeps == ASSUME PaymentInv, NEW c \in Clients, Queue(c) PROVE PaymentInv'
<1> DEFINE call == calls[c]
<1>1. call.stage = "queue" /\ UNCHANGED <<enabled, stored, funds, commands, faults>>
  BY DEF Queue, At
<1>2. /\ call \in Call /\ CallInv(enabled, call, indexes) /\ call.spent = 0
      /\ call.cmd \in Commands /\ call.cmd.op \in Ops /\ call.cmd.wallet \in Wallets
  BY <1>1, CallOf, NotPaidYet
<1>3. 0 \in Ids
  BY CommissionAssumption DEF Ids
<1>4. ASSUME NEW answer \in {"collision", "error"}, Becomes(c, Answered(call, answer)), UNCHANGED tables
      PROVE  PaymentInv'
  <2>1. Kept
    BY <1>4, SameIndexes DEF tables
  <2>2. CallsInv'
    BY <1>1, <1>2, <1>4, <2>1, Answers DEF Becomes
  <2> QED BY <1>1, <1>4, <2>2, OnlyCalls DEF PaymentInv, TablesInv
<1>5. CASE call.cmd.op = "create"
  <2>1. SUFFICES ASSUME NEW i \in Ids, indexes[i] = NotYet,
                        indexes' = [indexes EXCEPT ![i] =
                          [slug |-> call.slug, owner |-> call.cmd.wallet,
                           closed |-> call.cmd.closed,
                           readers |-> call.cmd.readers \ {call.cmd.wallet}]],
                        Commit(c, i), UNCHANGED failed, call.slug \notin {indexes[j].slug : j \in Live}
                 PROVE  PaymentInv'
    BY <1>4, <1>5 DEF Queue, QueueNew
  <2>2. indexes' \in [Ids -> Row \cup {NotYet, Gone}]
    <3>1. call.slug \in Slugs \cup {None}
      BY <1>2 DEF Call
    <3> DEFINE row == [slug |-> call.slug, owner |-> call.cmd.wallet,
                       closed |-> call.cmd.closed,
                       readers |-> call.cmd.readers \ {call.cmd.wallet}]
    <3>2. call.slug \in Slugs
      BY <1>1, <1>2, <1>5, <3>1 DEF CallInv, Placed
    <3>3. None \notin call.cmd.readers
      BY <1>1, <1>2, <1>5 DEF CallInv, Placed
    <3>4. call.cmd.readers \ {call.cmd.wallet} \subseteq Wallets /\ call.cmd.closed \in BOOLEAN
      BY <1>2, <3>3, CommissionAssumption
    <3>5. row \in Row
      BY <1>2, <3>2, <3>4 DEF Row
    <3> HIDE DEF row
    <3> QED BY <2>1, <3>5 DEF row, PaymentInv, TablesInv
  <2>3. i # 0
    BY <2>1 DEF PaymentInv, TablesInv
  <2>4. \A j \in Ids : j # i => indexes'[j] = indexes[j]
    BY <2>1 DEF PaymentInv, TablesInv
  <2>5. Kept
    BY <2>1, <2>4 DEF Kept, LiveIn
  <2>6. indexes'[0] # NotYet /\ (LiveIn(indexes', 0) => indexes'[0].owner \in {None, Operator})
    BY <1>3, <2>3, <2>4 DEF PaymentInv, TablesInv, LiveIn
  <2> QED BY <1>1, <1>5, <2>1, <2>2, <2>5, <2>6, CommitKeeps
<1>6. CASE call.cmd.op # "create"
  <2> DEFINE q == Continued(call)
             more == q.works + 1
             p == [q EXCEPT !.works = more]
  <2>1. \/ call.id \in Live /\ Commit(c, call.id) /\ UNCHANGED <<indexes, failed>>
        \/ Becomes(c, Answered(call, "error")) /\ UNCHANGED tables
        \/ calls' = [calls EXCEPT ![c] = p] /\ UNCHANGED tables
    BY <1>2, <1>6, Continuing DEF Queue, QueueMore, Target, Becomes
  <2>2. CASE call.id \in Live /\ Commit(c, call.id) /\ UNCHANGED <<indexes, failed>>
    <3>1. Kept /\ call.id \in Ids
      BY <2>2, SameIndexes DEF Live
    <3> QED BY <1>1, <2>2, <3>1, CommitKeeps DEF PaymentInv, TablesInv, LiveIn
  <2>3. CASE calls' = [calls EXCEPT ![c] = p] /\ UNCHANGED tables
    <3>1. /\ q \in Call /\ Same(q, call) /\ q.works = call.works
          /\ q.slug = call.slug /\ q.id = call.id
      BY <1>1, Continuing DEF Admitted
    <3>2. more \in Nat /\ more = call.works + 1
      BY <3>1 DEF Call
    <3> HIDE DEF q, more
    <3>3. /\ p \in Call /\ Same(p, call) /\ p.stage = q.stage /\ p.id = call.id
          /\ p.works = more /\ p.slug = call.slug
      BY <3>1, <3>2 DEF Call, Same
    <3> HIDE DEF p
    <3>4. Kept
      BY <2>3, SameIndexes DEF tables
    <3>5. CallsInv'
      BY <1>1, <1>2, <2>3, <3>2, <3>3, <3>4, Proceeds DEF Same, Admitted, q, CallInv, Placed
    <3> QED BY <1>1, <2>3, <3>5, OnlyCalls DEF PaymentInv, TablesInv
  <2> QED BY <1>4, <2>1, <2>2, <2>3
<1> QED BY <1>5, <1>6

LEMMA DeleteKeeps == ASSUME PaymentInv, NEW c \in Clients, Delete(c) PROVE PaymentInv'
<1> DEFINE call == calls[c]
           i == call.id
           q == Continued(call)
<1>1. /\ call.stage = "delete" /\ UNCHANGED <<enabled, stored, funds, commands, faults>>
      /\ indexes' = (IF i \in Live THEN [indexes EXCEPT ![i] = Gone] ELSE indexes)
      /\ members' = [members EXCEPT ![i] = {}]
      /\ pending' = [pending EXCEPT ![i] = {}]
      /\ failed' = [failed EXCEPT ![i] = {}]
      /\ calls' = [calls EXCEPT ![c] = q]
  BY DEF Delete, Target, At, Becomes
<1>2. call \in Call /\ CallInv(enabled, call, indexes)
  BY <1>1, CallOf
<1>3. /\ q \in Call /\ Same(q, call) /\ q.id = call.id /\ q.works = call.works
      /\ q.slug = call.slug
  BY <1>1, Continuing DEF Admitted
<1>4. TablesInv'
  <2>1. \A j \in Ids : indexes'[j] \in {indexes[j], Gone} /\ (j \in Ids => indexes'[j] \in Row \cup {NotYet, Gone})
    BY <1>1 DEF PaymentInv, TablesInv
  <2>2. indexes' \in [Ids -> Row \cup {NotYet, Gone}]
    BY <1>1, <2>1 DEF PaymentInv, TablesInv
  <2>3. indexes'[0] # NotYet /\ (LiveIn(indexes', 0) => indexes'[0].owner \in {None, Operator})
    BY <2>1, NotYetIsNotGone, CommissionAssumption DEF PaymentInv, TablesInv, LiveIn, Ids
  <2> QED BY <1>1, <2>2, <2>3 DEF PaymentInv, TablesInv
<1>5. Kept
  <2>1. \A j \in Ids : indexes'[j] \in {indexes[j], Gone}
    BY <1>1 DEF PaymentInv, TablesInv
  <2> QED BY <2>1, NotYetIsNotGone DEF Kept, LiveIn
<1> HIDE DEF q
<1>6. CallsInv'
  BY <1>1, <1>2, <1>3, <1>5, Proceeds DEF Same, Admitted, q, CallInv, Placed
<1> QED BY <1>4, <1>6 DEF PaymentInv

LEMMA RetrieveKeeps == ASSUME PaymentInv, NEW c \in Clients, Retrieve(c) PROVE PaymentInv'
<1> DEFINE call == calls[c]
           q == Continued(call)
<1>1. /\ call.stage = "retrieve" /\ UNCHANGED <<enabled, tables, stored, funds, commands, faults>>
      /\ Becomes(c, Answered(call, "bad")) \/ Becomes(c, q)
  BY DEF Retrieve, At
<1>2. Kept /\ indexes' = indexes
  BY <1>1, SameIndexes DEF tables
<1>3. call \in Call /\ CallInv(enabled, call, indexes) /\ call.spent = 0
  BY <1>1, CallOf, NotPaidYet
<1>4. /\ q \in Call /\ Same(q, call) /\ q.id = call.id /\ q.works = call.works
      /\ q.slug = call.slug
  BY <1>1, Continuing DEF Admitted
<1> HIDE DEF q
<1>5. ASSUME Becomes(c, Answered(call, "bad")) PROVE CallsInv'
  BY <1>1, <1>2, <1>3, <1>5, Answers DEF Becomes
<1>6. ASSUME Becomes(c, q) PROVE CallsInv'
  BY <1>1, <1>2, <1>3, <1>4, <1>6, Proceeds DEF Becomes, Same, Admitted, q, CallInv, Placed
<1> QED BY <1>1, <1>5, <1>6, OnlyCalls DEF PaymentInv, TablesInv

LEMMA SettleKeeps == ASSUME PaymentInv, NEW c \in Clients, Settle(c) PROVE PaymentInv'
<1> DEFINE call == calls[c]
           q == Continued(call)
           paid == q.spent + call.signed
           p == [q EXCEPT !.spent = paid]
<1>1. /\ call.stage = "settle" /\ UNCHANGED <<enabled, tables, stored, commands>>
      /\ faults' \in {faults} \/ Fault
  BY DEF Settle, At
<1>2. Kept /\ indexes' = indexes
  BY <1>1, SameIndexes DEF tables
<1>3. call \in Call /\ CallInv(enabled, call, indexes) /\ call.cmd.wallet \in Wallets
  BY <1>1, CallOf
<1>4. /\ q \in Call /\ Same(q, call) /\ q.id = call.id /\ q.works = call.works
      /\ q.slug = call.slug
  BY <1>1, Continuing DEF Admitted
<1>5. \/ Becomes(c, q) /\ funds' = funds
      \/ /\ enabled /\ Verified(call) /\ Becomes(c, p)
         /\ funds' = [funds EXCEPT ![call.cmd.wallet] = @ - call.signed]
  BY DEF Settle
<1> HIDE DEF q
<1>6. paid \in Nat /\ paid = call.spent + call.signed
  BY <1>3, <1>4 DEF Call, Same
<1> HIDE DEF paid
<1>7. /\ p \in Call /\ p.cmd = call.cmd /\ p.phase = call.phase /\ p.answer = call.answer
      /\ p.signed = call.signed /\ p.shown = call.shown /\ p.spent = paid
      /\ p.stage = q.stage /\ p.id = call.id
      /\ p.works = call.works /\ p.slug = call.slug
  BY <1>4, <1>6 DEF Call, Same
<1> HIDE DEF p
<1>8. ASSUME Becomes(c, q) PROVE CallsInv'
  BY <1>1, <1>2, <1>3, <1>4, <1>8, Proceeds DEF Becomes, Same, Admitted, q, CallInv, Placed
<1>9. ASSUME enabled, Becomes(c, p) PROVE CallsInv'
  <2>1. calls' = [calls EXCEPT ![c] = p]
    BY <1>9 DEF Becomes
  <2>3. enabled /\ call.stage = "settle" /\ p.spent = call.spent + call.signed
    BY <1>1, <1>6, <1>7, <1>9
  <2>4. call.stage \in Admitted /\ call.stage \notin {"report", "name", "count"}
    BY <1>1 DEF Admitted
  <2> QED BY <1>1, <1>2, <1>7, <2>1, <2>3, <2>4, Proceeds DEF q
<1>10. funds' \in [Wallets -> Nat]
  <2>1. CASE funds' = funds
    BY <2>1 DEF PaymentInv, TablesInv
  <2>2. CASE Verified(call) /\ funds' = [funds EXCEPT ![call.cmd.wallet] = @ - call.signed]
    <3>1. call.signed \in Nat /\ funds[call.cmd.wallet] \in Nat /\ funds[call.cmd.wallet] >= call.signed
      BY <1>3, <2>2 DEF Call, Verified, PaymentInv, TablesInv
    <3>2. funds[call.cmd.wallet] - call.signed \in Nat
      BY <3>1
    <3> QED BY <2>2, <3>2 DEF PaymentInv, TablesInv
  <2> QED BY <1>5, <2>1, <2>2
<1>11. CallsInv'
  BY <1>5, <1>8, <1>9
<1> QED BY <1>1, <1>10, <1>11, OnlyCalls

LEMMA ReportKeeps == ASSUME PaymentInv, NEW c \in Clients, Report(c) PROVE PaymentInv'
<1>1. /\ calls[c].stage = "report" /\ UNCHANGED <<enabled, tables, stored, funds, commands, faults>>
      /\ calls' = [calls EXCEPT ![c] = Answered(calls[c], "done")]
  BY DEF Report, At, Becomes
<1>2. Kept
  BY <1>1, SameIndexes DEF tables
<1>3. CallsInv'
  BY <1>1, <1>2, Answers
<1> QED BY <1>1, <1>3, OnlyCalls DEF PaymentInv, TablesInv

LEMMA FailKeeps == ASSUME PaymentInv, NEW c \in Clients, Fail(c) PROVE PaymentInv'
<1>1. /\ calls[c].stage # "idle" /\ UNCHANGED <<enabled, tables, stored, funds, commands>> /\ Fault
      /\ calls' = [calls EXCEPT ![c] = Answered(calls[c], "error")]
  BY DEF Fail, Becomes
<1>2. Kept
  BY <1>1, SameIndexes DEF tables
<1>3. CallsInv'
  BY <1>1, <1>2, Answers
<1> QED BY <1>1, <1>3, OnlyCalls DEF PaymentInv, TablesInv

\* The crawls touch neither calls nor rows of indexes.
LEMMA CrawlsKeep ==
  ASSUME PaymentInv, (\E p \in Pages : Seeded(p)) \/ (\E i \in Ids, p \in Pages : Crawled(i, p))
  PROVE  PaymentInv'
<1>1. UNCHANGED <<enabled, indexes, funds, calls, commands, faults>>
  BY DEF Seeded, Crawled, tables
<1>2. CallsInv'
  BY <1>1, SameIndexes, CallsStay DEF PaymentInv
<1>3. /\ members' \in [Ids -> SUBSET Pages] /\ pending' \in [Ids -> SUBSET Pages]
      /\ failed' \in [Ids -> SUBSET Pages] /\ stored' \subseteq Pages
  BY DEF Seeded, Crawled, tables, PaymentInv, TablesInv
<1> QED BY <1>1, <1>2, <1>3 DEF PaymentInv, TablesInv, LiveIn

-----------------------------------------------------------------------------
(* The invariant holds.                                                    *)

LEMMA PaymentInvInit == ASSUME Init PROVE PaymentInv
<1> DEFINE globalRow == [slug |-> <<"global", 1>>, owner |-> None, closed |-> FALSE, readers |-> {}]
<1>1. 0 \in Ids
  BY CommissionAssumption DEF Ids
<1>2. globalRow \in Row /\ globalRow.owner = None
  BY DEF Row, Slugs
<1>3. indexes = [i \in Ids |-> CASE i = 0 -> globalRow [] i = 1 -> Standing [] OTHER -> NotYet]
  BY DEF Init
<1> HIDE DEF globalRow
<1>4. indexes \in [Ids -> Row \cup {NotYet, Gone}] /\ indexes[0] = globalRow
  BY <1>1, <1>2, <1>3, CommissionAssumption
<1>5. indexes[0] # NotYet /\ indexes[0].owner = None
  BY <1>2, <1>4, RowIsNeither
<1>6. TablesInv
  <2>1. /\ enabled \in BOOLEAN /\ funds \in [Wallets -> Nat] /\ commands \in 0..MaxCommands
        /\ faults \in 0..MaxFaults /\ stored \subseteq Pages
    BY CommissionAssumption DEF Init
  <2>2. /\ members \in [Ids -> SUBSET Pages] /\ pending \in [Ids -> SUBSET Pages]
        /\ failed \in [Ids -> SUBSET Pages]
    BY CommissionAssumption DEF Init
  <2> QED BY <1>4, <1>5, <2>1, <2>2 DEF TablesInv
<1>7. CallsInv
  <2>1. NoCall \in Call /\ \A c \in Clients : CallInv(enabled, NoCall, indexes)
    BY NoCallInv DEF CallInv, Placed
  <2> QED BY <2>1 DEF Init, CallsInv
<1> QED BY <1>6, <1>7 DEF PaymentInv

LEMMA PaymentInvNext == ASSUME PaymentInv, [Next]_vars PROVE PaymentInv'
<1>1. ASSUME NEW c \in Clients, NEW cmd \in Commands, Begin(c, cmd) PROVE PaymentInv'
  BY <1>1, BeginKeeps
<1>2. ASSUME NEW c \in Clients, Receive(c) PROVE PaymentInv'
  BY <1>2, ReceiveKeeps
<1>3. ASSUME NEW c \in Clients, Handle(c) PROVE PaymentInv'
  BY <1>3, ResolveKeeps, AuthorizeKeeps, NameKeeps, CountKeeps, JoinKeeps, QueueKeeps,
     DeleteKeeps, RetrieveKeeps, SettleKeeps, ReportKeeps, FailKeeps DEF Handle
<1>4. CASE (\E p \in Pages : Seeded(p)) \/ (\E i \in Ids, p \in Pages : Crawled(i, p))
  BY <1>4, CrawlsKeep
<1>5. CASE UNCHANGED vars
  <2>1. Kept
    BY <1>5, SameIndexes DEF vars, tables
  <2>2. CallsInv'
    BY <1>5, <2>1, CallsStay DEF vars, PaymentInv
  <2> QED BY <1>5, <2>2 DEF vars, tables, PaymentInv, TablesInv, LiveIn
<1> QED BY <1>1, <1>2, <1>3, <1>4, <1>5 DEF Next

-----------------------------------------------------------------------------
(* The theorems.                                                           *)

\* Types: among the rest, that there always is a suffix left for a slug.
THEOREM TypesHold == Spec => []TypeOK
<1>1. Init => PaymentInv
  BY PaymentInvInit
<1>2. PaymentInv /\ [Next]_vars => PaymentInv'
  BY PaymentInvNext
<1>3. PaymentInv => TypeOK
  BY DEF PaymentInv, TablesInv, CallsInv, TypeOK
<1> QED BY <1>1, <1>2, <1>3, PTL DEF Spec

\* Whoever is turned away has paid nothing, whatever happened between the requests
\* of his command.
THEOREM RefusalIsFree == Spec => []RefusedIsFree
<1>1. Init => PaymentInv
  BY PaymentInvInit
<1>2. PaymentInv /\ [Next]_vars => PaymentInv'
  BY PaymentInvNext
<1>3. PaymentInv => RefusedIsFree
  BY DEF PaymentInv, CallsInv, CallInv, Charged, RefusedIsFree
<1> QED BY <1>1, <1>2, <1>3, PTL DEF Spec

\* One amount from the quote to the transfer, and the work done once for it.
THEOREM QuoteHolds == Spec => []ChargedTheQuote
<1>1. Init => PaymentInv
  BY PaymentInvInit
<1>2. PaymentInv /\ [Next]_vars => PaymentInv'
  BY PaymentInvNext
<1>3. PaymentInv => ChargedTheQuote
  <2> SUFFICES ASSUME PaymentInv, NEW c \in Clients
               PROVE  /\ calls[c].answer # "unmatched"
                      /\ calls[c].spent \in {0, calls[c].shown}
                      /\ calls[c].spent <= MaxSpend
                      /\ enabled => calls[c].works <= 1
    BY DEF ChargedTheQuote
  <2>1. /\ Placed(calls[c]) /\ Amounts(calls[c]) /\ Charged(enabled, calls[c])
        /\ calls[c].works \in Nat /\ MaxSpend \in Nat
    BY CommissionAssumption DEF PaymentInv, CallsInv, CallInv, Placed, Call
  <2>2. CASE calls[c].spent = 0
    BY <2>1, <2>2 DEF Placed, Charged
  <2>3. CASE calls[c].spent # 0
    BY <2>1, <2>3 DEF Placed, Charged, Amounts
  <2> QED BY <2>2, <2>3
<1> QED BY <1>1, <1>2, <1>3, PTL DEF Spec

\* Each step that changes an index for a request is one of three awaits.
LEMMA ChangesAreOwned ==
  ASSUME PaymentInv, Next, NEW c \in Clients, NEW i \in Live,
         enabled, calls'[c].stage # calls[c].stage,
         indexes'[i] = Gone \/ members'[i] # members[i] \/ pending'[i] # pending[i]
  PROVE  indexes[i].owner = calls[c].cmd.wallet
<1> DEFINE call == calls[c]
<1>1. i \in Ids /\ LiveIn(indexes, i) /\ indexes[i] \in Row
  BY DEF Live, LiveIn, PaymentInv, TablesInv
<1>2. ASSUME Owned(enabled, call, indexes), call.stage \in {"queue", "delete"},
             call.cmd.op \notin {"create", "search"}, call.id = i
      PROVE  indexes[i].owner = call.cmd.wallet
  BY <1>1, <1>2 DEF Owned, Admitted
<1>3. CASE Queue(c)
  <2>1. Owned(enabled, call, indexes) /\ call.stage = "queue" /\ call.cmd.op # "search"
    BY <1>3, CallOf DEF Queue, At, CallInv, Placed, Behind, Admitted
  <2>2. CASE call.cmd.op = "create"
    <3>1. CASE UNCHANGED tables
      BY <1>1, <3>1 DEF tables, LiveIn
    <3>2. CASE \E j \in Ids : indexes[j] = NotYet /\ Commit(c, j) /\ UNCHANGED failed
                              /\ \E row : indexes' = [indexes EXCEPT ![j] = row]
      <4>1. PICK j \in Ids : indexes[j] = NotYet /\ Commit(c, j) /\ \E row : indexes' = [indexes EXCEPT ![j] = row]
        BY <3>2
      <4>2. j # i
        BY <1>1, <4>1 DEF LiveIn
      <4>3. indexes'[i] = indexes[i] /\ members'[i] = members[i] /\ pending'[i] = pending[i]
        BY <1>1, <4>1, <4>2 DEF Commit, PaymentInv, TablesInv
      <4> QED BY <1>1, <4>3 DEF LiveIn
    <3> QED BY <1>3, <2>2, <3>1, <3>2 DEF Queue, QueueNew
  <2>3. CASE call.cmd.op # "create"
    <3>1. CASE UNCHANGED tables
      BY <1>1, <3>1 DEF tables, LiveIn
    <3>2. CASE call.id \in Live /\ Commit(c, call.id) /\ UNCHANGED <<indexes, failed>>
      <4>1. members'[i] # members[i] \/ pending'[i] # pending[i]
        BY <1>1, <3>2 DEF LiveIn
      <4>2. call.id = i
        BY <1>1, <3>2, <4>1 DEF Commit, PaymentInv, TablesInv
      <4> QED BY <1>2, <2>1, <2>3, <4>2
    <3> QED BY <1>3, <2>3, <3>1, <3>2 DEF Queue, QueueMore, Target
  <2> QED BY <2>2, <2>3
<1>4. CASE Delete(c)
  <2>1. /\ Owned(enabled, call, indexes) /\ call.stage = "delete"
        /\ call.cmd.op \notin {"create", "search"}
    BY <1>4, CallOf DEF Delete, At, CallInv, Placed, Behind, Admitted, Ops
  <2>2. call.id = i
    <3> SUFFICES ASSUME call.id # i PROVE FALSE
      OBVIOUS
    <3>1. indexes'[i] = indexes[i] /\ members'[i] = members[i] /\ pending'[i] = pending[i]
      BY <1>1, <1>4 DEF Delete, Target, PaymentInv, TablesInv
    <3> QED BY <1>1, <3>1 DEF LiveIn
  <2> QED BY <1>2, <2>1, <2>2
<1>5. ASSUME NEW d \in Clients, d # c, NEW p, calls' = [calls EXCEPT ![d] = p] PROVE FALSE
  <2>1. calls'[c] = calls[c]
    BY <1>5 DEF PaymentInv, CallsInv
  <2> QED BY <2>1
<1>6. ASSUME UNCHANGED <<indexes, members, pending>> PROVE FALSE
  BY <1>1, <1>6 DEF LiveIn
<1>7. ASSUME NEW d \in Clients, Resolve(d) PROVE FALSE
  <2>1. members' = members /\ pending' = pending /\ indexes' \in {indexes, Adopted}
    BY <1>7 DEF Resolve, ResolveCreate, ResolveIndex
  <2>2. indexes'[i] \in Row
    <3>1. CASE indexes' = [indexes EXCEPT ![0].owner = Operator]
      BY <1>1, <3>1, CommissionAssumption DEF PaymentInv, TablesInv, Row
    <3> QED BY <1>1, <2>1, <3>1 DEF Adopted
  <2> QED BY <2>1, <2>2, RowIsNeither
<1>8. ASSUME NEW d \in Clients, Queue(d) PROVE d = c
  <2>1. \E p : calls' = [calls EXCEPT ![d] = p]
    BY <1>8 DEF Queue, QueueNew, QueueMore, Commit, Becomes
  <2> QED BY <1>5, <2>1
<1>9. ASSUME NEW d \in Clients, Delete(d) PROVE d = c
  <2>1. \E p : calls' = [calls EXCEPT ![d] = p]
    BY <1>9 DEF Delete, Becomes
  <2> QED BY <1>5, <2>1
<1>10. ASSUME NEW d \in Clients, NEW cmd \in Commands, Begin(d, cmd) PROVE FALSE
  BY <1>6, <1>10 DEF Begin, tables
<1>11. ASSUME NEW d \in Clients, Receive(d) PROVE FALSE
  BY <1>6, <1>11 DEF Receive, tables
<1>12. ASSUME NEW d \in Clients, Handle(d) PROVE indexes[i].owner = calls[c].cmd.wallet
  <2>1. \/ Resolve(d) \/ Queue(d) \/ Delete(d)
        \/ UNCHANGED <<indexes, members, pending>>
    BY <1>12 DEF Handle, Authorize, Matched, Name, Count, Join, Retrieve, Settle, Report, Fail, tables
  <2> QED BY <1>3, <1>4, <1>6, <1>7, <1>8, <1>9, <2>1
<1>13. ASSUME (\E p \in Pages : Seeded(p)) \/ (\E j \in Ids, p \in Pages : Crawled(j, p)) PROVE FALSE
  <2>1. calls' = calls
    BY <1>13 DEF Seeded, Crawled
  <2> QED BY <2>1
<1> QED BY <1>10, <1>11, <1>12, <1>13 DEF Next

\* An index is extended and deleted for its owner alone, though the owner was read
\* before the payment was verified.
THEOREM OwnersHold == Spec => OwnersOnly
<1>1. Init => PaymentInv
  BY PaymentInvInit
<1>2. PaymentInv /\ [Next]_vars => PaymentInv'
  BY PaymentInvNext
<1>3. ASSUME PaymentInv, [Next]_vars
      PROVE  [\A c \in Clients, i \in Live :
                /\ enabled
                /\ calls'[c].stage # calls[c].stage
                /\ \/ indexes'[i] = Gone
                   \/ members'[i] # members[i] \/ pending'[i] # pending[i]
                => indexes[i].owner = calls[c].cmd.wallet]_vars
  BY <1>3, ChangesAreOwned
<1> QED BY <1>1, <1>2, <1>3, PTL DEF Spec, OwnersOnly

\* Only the commit counts as work done.
LEMMA RequestWorks ==
  ASSUME NEW call \in Call PROVE Request(call).works = call.works
BY DEF Request, Call

LEMMA AnsweredWorks ==
  ASSUME NEW call \in Call, NEW answer PROVE Answered(call, answer).works = call.works
BY DEF Answered, Call

LEMMA ClientWorks ==
  ASSUME PaymentInv, NEW c \in Clients,
         (\E cmd \in Commands : Begin(c, cmd)) \/ Receive(c)
  PROVE  calls'[c].works \in {0, calls[c].works}
<1> DEFINE call == calls[c]
<1>1. call \in Call /\ calls \in [Clients -> Call] /\ NoCall.works = 0
  BY CallOf DEF PaymentInv, CallsInv, NoCall
<1>2. ASSUME NEW cmd \in Commands, Begin(c, cmd) PROVE calls'[c].works = 0
  <2> DEFINE begun == [NoCall EXCEPT !.cmd = cmd,
                         !.phase = IF cmd.op \in {"create", "append"} THEN "quote" ELSE "unpaid"]
  <2>1. begun \in Call /\ begun.works = 0
    BY DEF NoCall, Call
  <2>2. calls' = [calls EXCEPT ![c] = Request(begun)]
    BY <1>2 DEF Begin, Becomes
  <2> HIDE DEF begun
  <2> QED BY <1>1, <2>1, <2>2, RequestWorks
<1>3. ASSUME Receive(c) PROVE calls'[c].works \in {0, call.works}
  <2>1. call.phase \in {"quote", "unpaid", "paid"} /\ call.asked \in Nat
    BY <1>1, <1>3, CallOf DEF Receive, At, CallInv, Placed, Call
  <2>2. HearQuote(call).works \in {0, call.works}
    <3> DEFINE free == [call EXCEPT !.phase = "unpaid"]
               told == [call EXCEPT !.phase = "unpaid", !.shown = call.asked]
    <3>1. /\ free \in Call /\ free.works = call.works
          /\ told \in Call /\ told.works = call.works
      BY <1>1, <2>1 DEF Call
    <3>2. HearQuote(call) \in {Request(free), Request(told), NoCall}
      BY DEF HearQuote
    <3> HIDE DEF free, told
    <3> QED BY <1>1, <3>1, <3>2, RequestWorks
  <2>3. HearUnpaid(call).works \in {0, call.works}
    <3> DEFINE shown == IF call.shown = None THEN call.asked ELSE call.shown
               signs == [call EXCEPT !.phase = "paid", !.signed = call.asked, !.shown = shown]
    <3>0. shown \in Nat \cup {None}
      BY <1>1, <2>1 DEF Call
    <3> DEFINE amount == call.asked
               pays == [call EXCEPT !.phase = "paid", !.signed = amount]
    <3>a. amount \in Nat
      BY <2>1
    <3> HIDE DEF shown, amount
    <3>b. pays \in Call /\ pays.works = call.works
      BY <1>1, <3>a DEF Call
    <3> DEFINE paid == [pays EXCEPT !.shown = shown]
    <3> HIDE DEF pays
    <3>c. paid \in Call /\ paid.works = call.works
      BY <3>0, <3>b DEF Call
    <3>1. signs \in Call /\ signs.works = call.works
      <4>1. signs = paid
        BY <1>1 DEF pays, amount, Call
      <4> QED BY <3>c, <4>1
    <3>2. HearUnpaid(call) \in {Request(signs), NoCall}
      BY DEF HearUnpaid, shown
    <3> HIDE DEF signs
    <3> QED BY <1>1, <3>1, <3>2, RequestWorks
  <2>4. calls'[c] \in {HearQuote(call), HearUnpaid(call), NoCall}
    BY <1>1, <1>3, <2>1 DEF Receive, Becomes
  <2> QED BY <1>1, <2>2, <2>3, <2>4
<1> QED BY <1>2, <1>3

LEMMA HandlerWorks ==
  ASSUME PaymentInv, NEW c \in Clients, Handle(c), ~Queue(c)
  PROVE  calls'[c].works = calls[c].works
<1> DEFINE call == calls[c]
           q == Continued(call)
<1>1. call \in Call /\ calls \in [Clients -> Call]
  BY CallOf DEF PaymentInv, CallsInv
<1>2. call.stage \in {"resolve", "authorize"} \cup Admitted /\ call.stage # "report" =>
        q \in Call /\ q.works = call.works
  BY Continuing
<1>3. CASE \E answer : Becomes(c, Answered(call, answer))
  BY <1>1, <1>3, AnsweredWorks DEF Becomes
<1>4. CASE Resolve(c)
  <2>1. \/ \E answer : Becomes(c, Answered(call, answer))
        \/ Becomes(c, q)
        \/ \E i, row : Becomes(c, [q EXCEPT !.id = i, !.row = row])
    BY <1>4 DEF Resolve, ResolveCreate, ResolveIndex
  <2>2. q \in Call /\ q.works = call.works
    BY <1>2, <1>4 DEF Resolve, At
  <2> HIDE DEF q
  <2>3. ASSUME NEW i, NEW row, Becomes(c, [q EXCEPT !.id = i, !.row = row])
        PROVE  calls'[c].works = call.works
    BY <1>1, <2>2, <2>3 DEF Becomes, Call
  <2>4. ASSUME Becomes(c, q) PROVE calls'[c].works = call.works
    BY <1>1, <2>2, <2>4 DEF Becomes
  <2> QED BY <1>3, <2>1, <2>3, <2>4
<1>5. CASE Authorize(c)
  <2> DEFINE ask == [call EXCEPT !.asked = Price(call.cmd)]
  <2>1. \/ \E answer : Becomes(c, Answered(call, answer)) \/ Becomes(c, Answered(ask, answer))
        \/ Becomes(c, q)
        \/ Becomes(c, [q EXCEPT !.row = NotYet, !.asked = 0])
    BY <1>5 DEF Authorize, Matched
  <2>2. q \in Call /\ q.works = call.works
    BY <1>2, <1>5 DEF Authorize, Matched, At
  <2>3. call.stage = "authorize"
    BY <1>5 DEF Authorize, Matched, At
  <2>4. ask \in Call /\ ask.works = call.works
    BY <1>1, <2>3, CallOf, PriceType DEF Call
  <2> HIDE DEF q, ask
  <2>5. ASSUME NEW answer, Becomes(c, Answered(ask, answer)) PROVE calls'[c].works = call.works
    BY <1>1, <2>4, <2>5, AnsweredWorks DEF Becomes
  <2>6. ASSUME Becomes(c, [q EXCEPT !.row = NotYet, !.asked = 0])
        PROVE  calls'[c].works = call.works
    BY <1>1, <2>2, <2>6 DEF Becomes, Call
  <2>7. ASSUME Becomes(c, q) PROVE calls'[c].works = call.works
    BY <1>1, <2>2, <2>7 DEF Becomes
  <2> QED BY <1>3, <2>1, <2>5, <2>6, <2>7
<1>6. CASE Name(c) \/ Join(c)
  <2>1. \/ \E answer : Becomes(c, Answered(call, answer))
        \/ \E slug : Becomes(c, [q EXCEPT !.slug = slug])
        \/ \E joined : Becomes(c, [q EXCEPT !.joined = joined])
    BY <1>6 DEF Name, Join
  <2>2. q \in Call /\ q.works = call.works
    BY <1>2, <1>6 DEF Name, Join, At, Admitted
  <2> HIDE DEF q
  <2>3. ASSUME NEW slug, Becomes(c, [q EXCEPT !.slug = slug])
        PROVE  calls'[c].works = call.works
    BY <1>1, <2>2, <2>3 DEF Becomes, Call
  <2>4. ASSUME NEW joined, Becomes(c, [q EXCEPT !.joined = joined])
        PROVE  calls'[c].works = call.works
    BY <1>1, <2>2, <2>4 DEF Becomes, Call
  <2> QED BY <1>3, <2>1, <2>3, <2>4
<1>7. CASE Count(c) \/ Delete(c) \/ Retrieve(c)
  <2>1. (\E answer : Becomes(c, Answered(call, answer))) \/ Becomes(c, q)
    BY <1>7 DEF Count, Delete, Retrieve
  <2>2. q.works = call.works
    BY <1>2, <1>7 DEF Count, Delete, Retrieve, At, Admitted
  <2> HIDE DEF q
  <2> QED BY <1>1, <1>3, <2>1, <2>2 DEF Becomes
<1>8. CASE Settle(c)
  <2>1. Becomes(c, q) \/ \E spent : Becomes(c, [q EXCEPT !.spent = spent])
    BY <1>8 DEF Settle
  <2>2. q \in Call /\ q.works = call.works
    BY <1>2, <1>8 DEF Settle, At, Admitted
  <2> HIDE DEF q
  <2>3. ASSUME NEW spent, Becomes(c, [q EXCEPT !.spent = spent])
        PROVE  calls'[c].works = call.works
    BY <1>1, <2>2, <2>3 DEF Becomes, Call
  <2>4. ASSUME Becomes(c, q) PROVE calls'[c].works = call.works
    BY <1>1, <2>2, <2>4 DEF Becomes
  <2> QED BY <2>1, <2>3, <2>4
<1>9. CASE Report(c) \/ Fail(c)
  BY <1>3, <1>9 DEF Report, Fail
<1> QED BY <1>4, <1>5, <1>6, <1>7, <1>8, <1>9 DEF Handle

\* The rows of a paid request.
LEMMA TakenAtCommit ==
  ASSUME PaymentInv, Next, NEW c \in Clients, calls'[c].works > calls[c].works,
         LiveIn(indexes', calls'[c].id),
         NEW p \in Wanted(calls[c].cmd), p \notin stored \ calls[c].joined
  PROVE  p \in members'[calls'[c].id] \cup pending'[calls'[c].id] \cup failed'[calls'[c].id]
<1> DEFINE call == calls[c]
<1>1. call \in Call /\ CallInv(enabled, call, indexes) /\ call.works \in Nat
  BY CallOf DEF Call
<1>2. ASSUME NEW i \in Ids, Commit(c, i), failed' = failed, call.stage = "queue"
      PROVE  p \in members'[calls'[c].id] \cup pending'[calls'[c].id] \cup failed'[calls'[c].id]
  <2>1. Continued(call) \in Call
    BY <1>2, Continuing DEF Admitted
  <2>2. calls'[c] = [Continued(call) EXCEPT !.id = i, !.works = Continued(call).works + 1]
    BY <1>2 DEF Commit, Becomes, PaymentInv, CallsInv
  <2>3. calls'[c].id = i
    BY <2>1, <2>2 DEF Call
  <2>4. /\ members'[i] = members[i] \cup call.joined
        /\ pending'[i] = pending[i] \cup (Missing(call.cmd) \ failed[i])
    BY <1>2 DEF Commit, PaymentInv, TablesInv
  <2> QED BY <1>2, <2>3, <2>4 DEF Missing
<1>3. ASSUME calls'[c].works \in {0, call.works} PROVE FALSE
  BY <1>1, <1>3
<1>4. ASSUME NEW d \in Clients, d # c, NEW next, calls' = [calls EXCEPT ![d] = next] PROVE FALSE
  <2>1. calls'[c] = calls[c]
    BY <1>4 DEF PaymentInv, CallsInv
  <2> QED BY <1>3, <2>1
<1>5. ASSUME NEW d \in Clients, (\E cmd \in Commands : Begin(d, cmd)) \/ Receive(d) PROVE FALSE
  <2>1. \E next : calls' = [calls EXCEPT ![d] = next]
    BY <1>5 DEF Begin, Receive, Becomes
  <2> QED BY <1>3, <1>4, <1>5, <2>1, ClientWorks
<1>6. ASSUME NEW d \in Clients, Handle(d) PROVE d = c /\ Queue(c)
  <2>1. \E next : calls' = [calls EXCEPT ![d] = next]
    BY <1>6 DEF Handle, Resolve, ResolveCreate, ResolveIndex, Authorize, Matched, Name, Count, Join, Queue,
       QueueNew, QueueMore, Commit, Delete, Retrieve, Settle, Report, Fail, Becomes
  <2> QED BY <1>3, <1>4, <1>6, <2>1, HandlerWorks
<1>7. ASSUME Queue(c)
      PROVE  p \in members'[calls'[c].id] \cup pending'[calls'[c].id] \cup failed'[calls'[c].id]
  <2>1. \/ \E answer : Becomes(c, Answered(call, answer))
        \/ \E i \in Ids : Commit(c, i) /\ failed' = failed /\ call.stage = "queue"
        \/ /\ call.id \notin Live /\ indexes' = indexes /\ call.stage = "queue"
           /\ call.cmd.op # "create"
           /\ Becomes(c, [Continued(call) EXCEPT !.works = @ + 1])
    BY <1>7 DEF Queue, QueueNew, QueueMore, Target, At, Live, tables
  <2>2. ASSUME NEW answer, Becomes(c, Answered(call, answer)) PROVE FALSE
    BY <1>1, <1>3, <2>2, AnsweredWorks DEF Becomes, PaymentInv, CallsInv
  <2>3. ASSUME call.id \notin Live, indexes' = indexes, call.stage = "queue",
               call.cmd.op # "create", Becomes(c, [Continued(call) EXCEPT !.works = @ + 1])
        PROVE  FALSE
    <3>1. Continued(call) \in Call /\ Continued(call).id = call.id
      BY <2>3, Continuing DEF Admitted
    <3>2. calls'[c] = [Continued(call) EXCEPT !.works = @ + 1]
      BY <2>3 DEF Becomes, PaymentInv, CallsInv
    <3>3. calls'[c].id = call.id
      BY <3>1, <3>2 DEF Call
    <3>4. call.id \in Ids
      BY <1>1, <2>3 DEF CallInv, Owned, Admitted
    <3> QED BY <2>3, <3>3, <3>4 DEF Live, LiveIn
  <2> QED BY <1>2, <2>1, <2>2, <2>3
<1>8. ASSUME (\E r \in Pages : Seeded(r)) \/ (\E i \in Ids, r \in Pages : Crawled(i, r)) PROVE FALSE
  <2>1. calls' = calls
    BY <1>8 DEF Seeded, Crawled
  <2> QED BY <1>3, <2>1
<1> QED BY <1>5, <1>6, <1>7, <1>8 DEF Next

\* A page somebody paid for is taken into the index or is in the store, whatever
\* crawls and other clients did between the two statements.
THEOREM PaidPagesHold == Spec => PaidIsTaken
<1>1. Init => PaymentInv
  BY PaymentInvInit
<1>2. PaymentInv /\ [Next]_vars => PaymentInv'
  BY PaymentInvNext
<1>3. ASSUME PaymentInv, [Next]_vars
      PROVE  [\A c \in Clients :
                calls'[c].works > calls[c].works /\ LiveIn(indexes', calls'[c].id) =>
                  LET i == calls'[c].id IN
                  \A p \in Wanted(calls[c].cmd) :
                    p \in members'[i] \cup pending'[i] \cup failed'[i]
                      \/ p \in stored \ calls[c].joined]_vars
  BY <1>3, TakenAtCommit
<1> QED BY <1>1, <1>2, <1>3, PTL DEF Spec, PaidIsTaken
=============================================================================
