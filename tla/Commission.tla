----------------------------- MODULE Commission -----------------------------
(***************************************************************************)
(* Commissioning, extending, deleting and searching an index, as a paying  *)
(* client sees it.  A command of the client (apps/demo-agent) is up to     *)
(* three requests: one that asks the price, one the paying fetch sends     *)
(* unpaid, and one it signs.  A request goes through the controller        *)
(* (indexes.controller.ts, search.controller.ts), the meter                *)
(* (payment.service.ts), the service (indexes.service.ts) and, once the    *)
(* work is committed, settlement (scripts/fork/facilitator.ts).            *)
(*                                                                         *)
(* A step of a request is one await of the handler: the requests of two    *)
(* clients and the crawls interleave there.  A slug is a name and a suffix *)
(* number, 1 for none.  The commissioned pages are crawled by CrawlQueue;  *)
(* here a crawl only decides what the store holds when a request looks.    *)
(***************************************************************************)
EXTENDS Integers, FiniteSets, Sequences

CONSTANTS
  Clients,
  Wallets,
  Pages,            \* pages of the web, by normalised URL
  Spellings,        \* what a client may write in a list of URLs
  PageOf,           \* the page each spelling parses to, or None
  Seeds,            \* pages that are crawled without being commissioned
  Fails,            \* pages whose fetch may fail
  Standing,         \* row of index 1 where one was created before, or NotYet
  StandingPages,    \* and its pages, which have been crawled
  Commands,         \* what a client may ask for
  Operator,         \* WUZZY_OPERATOR_WALLET
  Meter,            \* values of X402_ENABLED considered
  PricePerPage,
  PricePerQuery,
  RequestUrlLimit,
  PageCap,          \* WUZZY_INDEX_PAGE_CAP
  MaxSpend,         \* --max-spend
  Funds,            \* what each wallet starts with
  None,
  MaxIndexes,       \* bound: indexes ever created
  MaxCommands,      \* bound: commands ever given
  MaxFaults         \* bound: faults of the database, facilitator or process

Ops == {"create", "append", "remove", "search"}

Slugs == {"global"} \X {1} \cup {cmd.name : cmd \in Commands} \X (1..(MaxIndexes + 2))

Row == [slug : Slugs, owner : Wallets \cup {None}, closed : BOOLEAN,
        readers : SUBSET Wallets]

NotYet == [row |-> "not created"]
Gone == [row |-> "deleted"]

ASSUME CommissionAssumption ==
  /\ PageOf \in [Spellings -> Pages \cup {None}]
  /\ Seeds \subseteq Pages /\ Fails \subseteq Pages
  /\ Standing \in Row \cup {NotYet} /\ StandingPages \subseteq Pages
  /\ Standing = NotYet => StandingPages = {}
  /\ Operator \in Wallets
  /\ Meter \subseteq BOOLEAN
  /\ None \notin Pages \cup Wallets \cup Slugs
  /\ {PricePerPage, PricePerQuery, RequestUrlLimit, PageCap, MaxSpend,
      Funds, MaxIndexes, MaxCommands, MaxFaults} \subseteq Nat
  /\ \A cmd \in Commands :
       /\ cmd.op \in Ops
       /\ cmd.wallet \in Wallets
       /\ cmd.list \subseteq Spellings /\ IsFiniteSet(cmd.list)
       /\ cmd.closed \in BOOLEAN
       /\ cmd.readers \subseteq Wallets \cup {None}

VARIABLES
  enabled,   \* whether the meter is on
  indexes,   \* rows of indexes; 0 is the global one
  members,   \* index_documents of each index
  pending,   \* index_urls of each index that are not crawled
  failed,    \* index_urls of each index that carry an error
  stored,    \* pages the documents table holds
  funds,     \* balance of each wallet
  calls,     \* the command of each client and its request under way
  commands,  \* commands so far
  faults     \* faults so far

tables == <<indexes, members, pending, failed>>

vars == <<enabled, tables, stored, funds, calls, commands, faults>>

-----------------------------------------------------------------------------
Ids == 0..MaxIndexes

LiveIn(rows, i) == rows[i] \notin {NotYet, Gone}

Live == {i \in Ids : LiveIn(indexes, i)}

\* normalizeUrls: one page per distinct URL, fragments dropped.
Wanted(cmd) == {PageOf[s] : s \in cmd.list}

\* Mutant of Price: the pages already held are not charged for.
PriceOfNewPages(cmd) ==
  IF cmd.op \in {"create", "append"}
  THEN PricePerPage * Cardinality(Wanted(cmd) \ stored) ELSE PricePerQuery

\* Quoted from the request body alone, before it is normalised.
Price(cmd) ==
  IF cmd.op \in {"create", "append"}
  THEN PricePerPage * Cardinality(cmd.list) ELSE PricePerQuery

NoCommand == [op |-> "none", wallet |-> None]

NoCall == [cmd |-> NoCommand, phase |-> "none", stage |-> "idle", id |-> None,
           row |-> NotYet, slug |-> None, joined |-> {},
           asked |-> 0, signed |-> 0, shown |-> None,
           spent |-> 0, works |-> 0, answer |-> "none"]

Request(call) ==
  [call EXCEPT !.stage = "resolve", !.id = None, !.row = NotYet, !.slug = None,
               !.joined = {}, !.answer = "none"]

Answered(call, answer) == [call EXCEPT !.stage = "answered", !.answer = answer, !.row = NotYet]

\* Mutant of Order: the payment is settled as soon as it is verified.
SettleFirst(op) ==
  CASE op = "create" -> <<"resolve", "authorize", "settle", "name", "join", "queue", "report">>
    [] op = "append" -> <<"resolve", "authorize", "settle", "count", "join", "queue", "report">>
    [] op = "remove" -> <<"resolve", "authorize", "delete", "report">>
    [] op = "search" -> <<"resolve", "authorize", "settle", "retrieve", "report">>

\* The awaits of each handler, in order.
Order(op) ==
  CASE op = "create" -> <<"resolve", "authorize", "name", "join", "queue", "settle", "report">>
    [] op = "append" -> <<"resolve", "authorize", "count", "join", "queue", "settle", "report">>
    [] op = "remove" -> <<"resolve", "authorize", "delete", "report">>
    [] op = "search" -> <<"resolve", "authorize", "retrieve", "settle", "report">>

Continued(call) ==
  LET order == Order(call.cmd.op)
      now == CHOOSE n \in 1..Len(order) : order[n] = call.stage
  IN  [call EXCEPT !.stage = order[now + 1]]

\* The handler of c stands before the await named stage.
At(c, stage) == calls[c].stage = stage

Becomes(c, call) == calls' = [calls EXCEPT ![c] = call]

Fault ==
  /\ faults < MaxFaults
  /\ faults' = faults + 1

Init ==
  /\ enabled \in Meter
  /\ indexes = [i \in Ids |->
       CASE i = 0 -> [slug |-> <<"global", 1>>, owner |-> None,
                      closed |-> FALSE, readers |-> {}]
         [] i = 1 -> Standing
         [] OTHER -> NotYet]
  /\ members = [i \in Ids |-> IF i = 1 THEN StandingPages ELSE {}]
  /\ pending = [i \in Ids |-> {}]
  /\ failed = [i \in Ids |-> {}]
  /\ stored = StandingPages
  /\ funds = [w \in Wallets |-> Funds]
  /\ calls = [c \in Clients |-> NoCall]
  /\ commands = 0
  /\ faults = 0

-----------------------------------------------------------------------------
(* The client.                                                             *)

\* Commissioning and appending ask the price first; the others go straight to
\* the paying fetch.
Begin(c, cmd) ==
  /\ At(c, "idle")
  /\ commands < MaxCommands
  /\ commands' = commands + 1
  /\ Becomes(c, Request([NoCall EXCEPT !.cmd = cmd,
       !.phase = IF cmd.op \in {"create", "append"} THEN "quote" ELSE "unpaid"]))
  /\ UNCHANGED <<enabled, tables, stored, funds, faults>>

\* The price is compared with the ceiling; no price means the work is free, so
\* the request is sent, whatever the answer was.
HearQuote(call) ==
  IF call.answer # "payment" THEN Request([call EXCEPT !.phase = "unpaid"])
  ELSE IF call.asked > MaxSpend THEN NoCall
  ELSE Request([call EXCEPT !.phase = "unpaid", !.shown = call.asked])

\* The paying fetch answers a 402 by signing for what it asks, up to the ceiling.
HearUnpaid(call) ==
  IF call.answer = "payment" /\ call.asked <= MaxSpend
  THEN Request([call EXCEPT !.phase = "paid", !.signed = call.asked,
                            !.shown = IF @ = None THEN call.asked ELSE @])
  ELSE NoCall

Receive(c) ==
  /\ At(c, "answered")
  /\ Becomes(c, CASE calls[c].phase = "quote" -> HearQuote(calls[c])
                  [] calls[c].phase = "unpaid" -> HearUnpaid(calls[c])
                  [] calls[c].phase = "paid" -> NoCall)
  /\ UNCHANGED <<enabled, tables, stored, funds, commands, faults>>

-----------------------------------------------------------------------------
(* The handlers.                                                           *)

\* The global row is seeded without an owner and adopts the operator the first
\* time anybody asks for the global index.
Adopted ==
  IF 0 \in Live THEN [indexes EXCEPT ![0].owner = Operator] ELSE indexes

\* The list is there and not too long for one request.
ResolveCreate(c) ==
  LET call == calls[c] IN
  /\ Becomes(c, IF \/ call.cmd.list = {}
                   \/ Cardinality(call.cmd.list) > RequestUrlLimit
                THEN Answered(call, "bad") ELSE Continued(call))
  /\ UNCHANGED indexes

\* The row as it is now: what is decided later is decided on this copy.
ResolveIndex(c) ==
  LET call  == calls[c]
      found == {i \in Live : IF call.cmd.ref = None THEN i = 0
                             ELSE indexes[i].slug = call.cmd.ref}
  IN
  /\ indexes' = IF call.cmd.ref = None THEN Adopted ELSE indexes
  /\ \/ found = {} /\ Becomes(c, Answered(call, "unknown"))
     \/ \E i \in found :
          Becomes(c, IF call.cmd.op = "append" /\ call.cmd.list = {}
                     THEN Answered(call, "bad")
                     ELSE [Continued(call) EXCEPT !.id = i, !.row = indexes'[i]])

Resolve(c) ==
  /\ At(c, "resolve")
  /\ IF calls[c].cmd.op = "create" THEN ResolveCreate(c) ELSE ResolveIndex(c)
  /\ UNCHANGED <<enabled, members, pending, failed, stored, funds, commands, faults>>

CanWrite(row, wallet) == wallet = row.owner

\* The allowlist goes with the index when it is deleted.
CanRead(i, row, wallet) ==
  \/ ~row.closed
  \/ wallet = row.owner
  \/ i \in Live /\ wallet \in indexes[i].readers

Permitted(call) ==
  CASE call.cmd.op = "create" -> TRUE
    [] call.cmd.op = "search" -> CanRead(call.id, call.row, call.cmd.wallet)
    [] OTHER -> CanWrite(call.row, call.cmd.wallet)

\* The amount signed for has to be the amount of this request's quote.
Matched(call, price) == call.signed = price

\* Mutant of Verified: the terms are compared and the balance is not asked for.
TermsOnly(call) == TRUE

\* The facilitator's check, as far as the client can fail it: the terms are
\* compared field by field and the wallet has to hold the amount.
Verified(call) == funds[call.cmd.wallet] >= call.signed

\* The meter, then the gate between verification and settlement.
Authorize(c) ==
  LET call  == calls[c]
      price == Price(call.cmd)
      ask   == [call EXCEPT !.asked = price]
  IN
  /\ At(c, "authorize")
  /\ \/ /\ ~enabled
        /\ Becomes(c, Continued(call))
        /\ UNCHANGED faults
     \/ /\ enabled /\ call.phase # "paid"
        /\ Becomes(c, Answered(ask, "payment"))
        /\ UNCHANGED faults
     \/ /\ enabled /\ call.phase = "paid"
        /\ Becomes(c, CASE ~Matched(call, price) -> Answered(ask, "unmatched")
                        [] Matched(call, price) /\ ~Verified(call) -> Answered(ask, "payment")
                        [] OTHER -> IF Permitted(call)
                                    THEN [Continued(call) EXCEPT !.row = NotYet, !.asked = 0]
                                    ELSE Answered(call, "forbidden"))
        /\ UNCHANGED faults
     \/ /\ enabled /\ call.phase = "paid"       \* the facilitator is unreachable
        /\ Fault
        /\ Becomes(c, Answered(ask, "payment"))
  /\ UNCHANGED <<enabled, tables, stored, funds, commands>>

UniqueSlug(name, taken) ==
  LET free == {k \in 1..(MaxIndexes + 2) : <<name, k>> \notin taken}
  IN  <<name, CHOOSE k \in free : \A other \in free : k <= other>>

\* What cannot be parsed to a page or to a wallet is refused with the whole list.
Malformed(cmd) == None \in Wanted(cmd) \cup cmd.readers

Name(c) ==
  LET call  == calls[c]
      taken == {s \in {indexes[i].slug : i \in Live} : s[1] = call.cmd.name}
  IN
  /\ At(c, "name")
  /\ Becomes(c, IF Malformed(call.cmd) THEN Answered(call, "bad")
                ELSE [Continued(call) EXCEPT !.slug = UniqueSlug(call.cmd.name, taken)])
  /\ UNCHANGED <<enabled, tables, stored, funds, commands, faults>>

\* The list fits one request, and the index its cap: which is held against what
\* the index had before the transaction.
Count(c) ==
  LET call == calls[c]
      held == Cardinality(members[call.id]) + Cardinality(pending[call.id])
  IN
  /\ At(c, "count")
  /\ Becomes(c, IF \/ None \in Wanted(call.cmd)
                   \/ Cardinality(Wanted(call.cmd)) > RequestUrlLimit
                   \/ held + Cardinality(Wanted(call.cmd)) > PageCap
                THEN Answered(call, "bad") ELSE Continued(call))
  /\ UNCHANGED <<enabled, tables, stored, funds, commands, faults>>

\* The pages the store holds.
Held(cmd) == Wanted(cmd) \cap stored

\* Mutant of Target: the index is found again by the name the client knows it by.
NamedNow(call) ==
  LET found == {i \in Live : indexes[i].slug = call.cmd.ref}
  IN  IF found = {} THEN call.id ELSE CHOOSE i \in found : TRUE

\* The index that is written to is the one that was looked up, by its id.
Target(call) == call.id

\* The memberships the first statement of intake inserts: of the pages the store
\* holds, those that are not in the index yet.
Joining(call) ==
  Held(call.cmd) \ (IF call.cmd.op = "create" THEN {} ELSE members[Target(call)])

\* An index that is gone refuses a row, and an insert of no rows succeeds.
Join(c) ==
  LET call == calls[c] IN
  /\ At(c, "join")
  /\ Becomes(c, IF /\ call.cmd.op = "append" /\ Target(call) \notin Live
                   /\ Joining(call) # {}
                THEN Answered(call, "error")
                ELSE [Continued(call) EXCEPT !.joined = Joining(call)])
  /\ UNCHANGED <<enabled, tables, stored, funds, commands, faults>>

\* Mutant of Missing: a page that some index has queued is not queued again.
MissingEverywhere(cmd) == Wanted(cmd) \ (stored \cup UNION {pending[i] : i \in Ids})

\* The pages the store does not hold, whoever else waits for them.
Missing(cmd) == Wanted(cmd) \ stored

\* The rows of the transaction, with the second statement's: a page that has a
\* row already, crawled in vain or not, is left alone.
Commit(c, i) ==
  LET call == calls[c] IN
  /\ members' = [members EXCEPT ![i] = @ \cup call.joined]
  /\ pending' = [pending EXCEPT ![i] = @ \cup (Missing(call.cmd) \ failed[i])]
  /\ Becomes(c, [Continued(call) EXCEPT !.id = i, !.works = @ + 1])

QueueNew(c) ==
  LET call == calls[c] IN
  IF call.slug \in {indexes[i].slug : i \in Live}
  THEN /\ Becomes(c, Answered(call, "collision"))
       /\ UNCHANGED tables
  ELSE \E i \in Ids :
         /\ indexes[i] = NotYet
         /\ \A j \in Ids : indexes[j] = NotYet => i <= j
         /\ indexes' = [indexes EXCEPT ![i] =
              [slug |-> call.slug, owner |-> call.cmd.wallet,
               closed |-> call.cmd.closed,
               readers |-> call.cmd.readers \ {call.cmd.wallet}]]
         /\ Commit(c, i)
         /\ UNCHANGED failed

\* The same of the second statement: an index deleted meanwhile refuses a row, and
\* with nothing to insert the transaction commits, and is paid for.
QueueMore(c) ==
  LET call == calls[c]
      i == Target(call)
  IN
  \/ /\ i \in Live
     /\ Commit(c, i)
     /\ UNCHANGED <<indexes, failed>>
  \/ /\ i \notin Live /\ Missing(call.cmd) # {}
     /\ Becomes(c, Answered(call, "error"))
     /\ UNCHANGED tables
  \/ /\ i \notin Live /\ Missing(call.cmd) = {}
     /\ Becomes(c, [Continued(call) EXCEPT !.works = @ + 1])
     /\ UNCHANGED tables

\* Second statement of intake, and the commit.
Queue(c) ==
  /\ At(c, "queue")
  /\ IF calls[c].cmd.op = "create" THEN QueueNew(c) ELSE QueueMore(c)
  /\ UNCHANGED <<enabled, stored, funds, commands, faults>>

\* Membership and queue go with the index.  A transaction that has inserted a row
\* for it holds the index until it commits.
Delete(c) ==
  LET i == Target(calls[c]) IN
  /\ At(c, "delete")
  /\ \A d \in Clients : At(d, "queue") /\ calls[d].id = i => calls[d].joined = {}
  /\ indexes' = IF i \in Live THEN [indexes EXCEPT ![i] = Gone] ELSE indexes
  /\ members' = [members EXCEPT ![i] = {}]
  /\ pending' = [pending EXCEPT ![i] = {}]
  /\ failed' = [failed EXCEPT ![i] = {}]
  /\ Becomes(c, Continued(calls[c]))
  /\ UNCHANGED <<enabled, stored, funds, commands, faults>>

\* A search that finds nothing is a completed query; a blank one is refused.
Retrieve(c) ==
  LET call == calls[c] IN
  /\ At(c, "retrieve")
  /\ Becomes(c, IF call.cmd.name = None THEN Answered(call, "bad") ELSE Continued(call))
  /\ UNCHANGED <<enabled, tables, stored, funds, commands, faults>>

\* The facilitator checks again and transfers.  Whatever it says, the handler
\* goes on: a settlement that fails is logged.  One whose answer is lost has moved
\* the money or has not.
Settle(c) ==
  LET call == calls[c]
      wallet == call.cmd.wallet
      pays == [Continued(call) EXCEPT !.spent = @ + call.signed]
  IN
  /\ At(c, "settle")
  /\ \/ /\ ~enabled \/ ~Verified(call)
        /\ Becomes(c, Continued(call))
        /\ UNCHANGED <<funds, faults>>
     \/ /\ enabled /\ Verified(call)
        /\ funds' = [funds EXCEPT ![wallet] = @ - call.signed]
        /\ Becomes(c, pays)
        /\ UNCHANGED faults \/ Fault           \* or the answer is lost
     \/ /\ enabled                              \* unreachable
        /\ Fault
        /\ Becomes(c, Continued(call))
        /\ UNCHANGED funds
  /\ UNCHANGED <<enabled, tables, stored, commands>>

\* requestCrawl, which never throws, and the report.
Report(c) ==
  /\ At(c, "report")
  /\ Becomes(c, Answered(calls[c], "done"))
  /\ UNCHANGED <<enabled, tables, stored, funds, commands, faults>>

\* The database cannot be reached, or the process dies: the transaction rolls
\* back and the client is told nothing but that it failed.
Fail(c) ==
  /\ Fault
  /\ calls[c].stage \notin {"idle", "answered"}
  /\ Becomes(c, Answered(calls[c], "error"))
  /\ UNCHANGED <<enabled, tables, stored, funds, commands>>

-----------------------------------------------------------------------------
(* The crawls, which run beside all this.                                  *)

Seeded(p) ==
  /\ p \in Seeds \ stored
  /\ stored' = stored \cup {p}
  /\ UNCHANGED <<enabled, tables, funds, calls, commands, faults>>

Crawled(i, p) ==
  /\ p \in pending[i]
  /\ pending' = [pending EXCEPT ![i] = @ \ {p}]
  /\ \/ /\ stored' = stored \cup {p}
        /\ members' = [members EXCEPT ![i] = @ \cup {p}]
        /\ UNCHANGED failed
     \/ /\ p \in Fails
        /\ failed' = [failed EXCEPT ![i] = @ \cup {p}]
        /\ UNCHANGED <<stored, members>>
  /\ UNCHANGED <<enabled, indexes, funds, calls, commands, faults>>

Handle(c) ==
  \/ Resolve(c) \/ Authorize(c) \/ Name(c) \/ Count(c) \/ Join(c) \/ Queue(c)
  \/ Delete(c) \/ Retrieve(c) \/ Settle(c) \/ Report(c) \/ Fail(c)

Next ==
  \/ \E c \in Clients : \/ \E cmd \in Commands : Begin(c, cmd)
                        \/ Receive(c)
                        \/ Handle(c)
  \/ \E p \in Pages : Seeded(p)
  \/ \E i \in Ids, p \in Pages : Crawled(i, p)

Spec == Init /\ [][Next]_vars

-----------------------------------------------------------------------------
(* Properties.                                                             *)

Call == [cmd : Commands \cup {NoCommand},
         phase : {"none", "quote", "unpaid", "paid"},
         stage : {"idle", "resolve", "authorize", "name", "count", "join", "queue",
                  "delete", "retrieve", "settle", "report", "answered"},
         id : Ids \cup {None}, row : Row \cup {NotYet}, slug : Slugs \cup {None},
         joined : SUBSET Pages,
         asked : Nat, signed : Nat, shown : Nat \cup {None},
         spent : Nat, works : Nat,
         answer : {"none", "bad", "payment", "unmatched", "forbidden", "unknown",
                   "collision", "error", "done"}]

TypeOK ==
  /\ enabled \in BOOLEAN
  /\ indexes \in [Ids -> Row \cup {NotYet, Gone}]
  /\ \A rows \in {members, pending, failed} : rows \in [Ids -> SUBSET Pages]
  /\ stored \subseteq Pages
  /\ funds \in [Wallets -> Nat]
  /\ calls \in [Clients -> Call]
  /\ commands \in 0..MaxCommands
  /\ faults \in 0..MaxFaults

\* A caller that is turned away - a list the service cannot read, a cap, an
\* index of somebody else, a price that is not met, a name that is lost to
\* another - has paid nothing in any of its requests (indexes.controller.ts, "a
\* rejected caller is never charged").
RefusedIsFree ==
  \A c \in Clients :
    calls[c].answer \in {"bad", "payment", "unmatched", "forbidden", "unknown", "collision"}
      => calls[c].spent = 0

\* The amount shown to the client, the amount it signs, the amount the signed
\* request is matched with and the amount that moves are one amount, though the
\* store, the index and its name change between the three requests; and with the
\* meter on a command is carried out at most once.
ChargedTheQuote ==
  \A c \in Clients :
    /\ calls[c].answer # "unmatched"
    /\ calls[c].spent \in {0, calls[c].shown}
    /\ calls[c].spent <= MaxSpend
    /\ enabled => calls[c].works <= 1

\* With the meter on, what a client's request does to an index is done for the
\* wallet that owns the index at that moment, though the owner was read before
\* the payment was verified and the name may since have passed to another index.
OwnersOnly ==
  [][\A c \in Clients, i \in Live :
       /\ enabled
       /\ calls'[c].stage # calls[c].stage
       /\ \/ indexes'[i] = Gone
          \/ members'[i] # members[i] \/ pending'[i] # pending[i]
       => indexes[i].owner = calls[c].cmd.wallet]_vars

\* A page somebody paid for is in the index, or waits to be crawled for it, or
\* has failed there before, once the transaction has committed.  The exceptions are
\* a page that reached the store after the first statement looked, and an index
\* deleted under the transaction.
PaidIsTaken ==
  [][\A c \in Clients :
       calls'[c].works > calls[c].works /\ LiveIn(indexes', calls'[c].id) =>
         LET i == calls'[c].id IN
         \A p \in Wanted(calls[c].cmd) :
           p \in members'[i] \cup pending'[i] \cup failed'[i]
             \/ p \in stored \ calls[c].joined]_vars

\* A page a client has paid for is in the index or is going to be crawled
\* (indexes.controller.ts, "it cannot take money for work that never gets
\* requested").
PaidIsRequested ==
  [][\A c \in Clients :
       calls'[c].works > calls[c].works =>
         Wanted(calls[c].cmd) \subseteq
           members'[calls'[c].id] \cup pending'[calls'[c].id]]_vars
=============================================================================
