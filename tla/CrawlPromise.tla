---------------------------- MODULE CrawlPromise ----------------------------
(***************************************************************************)
(* What a commission buys (queue/crawl.queue.ts): every page an index has  *)
(* paid for is held by it in the end, or refused with a reason, and        *)
(* neither answer is ever taken back.                                      *)
(***************************************************************************)
EXTENDS FiniteSets

CONSTANTS Indexes, Urls

VARIABLES
  bought,   \* the pages each index has paid for
  held,     \* of those, the ones it holds
  refused   \* of those, the ones it was told it does not get

vars == <<bought, held, refused>>

Init ==
  /\ bought = [i \in Indexes |-> {}]
  /\ held = [i \in Indexes |-> {}]
  /\ refused = [i \in Indexes |-> {}]

\* Pages the store has already join at once; one of them may be where a page
\* bought before is served from.
Buy(i, pages, known) ==
  /\ bought' = [bought EXCEPT ![i] = @ \cup pages]
  /\ held' = [held EXCEPT ![i] = @ \cup known]
  /\ UNCHANGED refused

Deliver(i, pages) ==
  /\ held' = [held EXCEPT ![i] = @ \cup pages]
  /\ UNCHANGED <<bought, refused>>

Refuse(i, pages) ==
  /\ refused' = [refused EXCEPT ![i] = @ \cup pages]
  /\ UNCHANGED <<bought, held>>

Next ==
  \E i \in Indexes :
    \/ \E pages \in SUBSET Urls, known \in SUBSET Urls :
         /\ known \subseteq bought[i] \cup pages
         /\ Buy(i, pages, known)
    \/ \E pages \in SUBSET bought[i] : Deliver(i, pages) \/ Refuse(i, pages)

Safe == Init /\ [][Next]_vars

Answered(i, u) == u \in held[i] \cup refused[i]

Kept == \A i \in Indexes, u \in Urls : (u \in bought[i]) ~> Answered(i, u)

Spec == Safe /\ Kept
=============================================================================
