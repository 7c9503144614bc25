---------------------------- MODULE MCCrawlQueue ----------------------------
(***************************************************************************)
(* Instances of CrawlQueue for TLC.                                        *)
(***************************************************************************)
EXTENDS CrawlQueue, TLC

CONSTANTS u1, u2, w1, w2

\* Every page is served under its own URL.
Direct == [u \in Urls |-> u]

\* Every page redirects to u1.
Redirected == [u \in Urls |-> u1]

WorkerSymmetry == Permutations(Workers)
=============================================================================
