---- MODULE MCCrawler ----
(* Two seed hosts, one of them with two origins; a redirect from one host  *)
(* to the other, one to itself, and one that leaves both; a sitemap that   *)
(* indexes itself, and one that a third origin serves.                     *)
EXTENDS Crawler

MCHostOf == [home |-> "a", moved |-> "a", plain |-> "a", other |-> "b", hidden |-> "b",
             away |-> "c"]

MCOriginOf == [MCHostOf EXCEPT !.plain = "a-http"]

MCServes == [home |-> {"page", "refused"}, moved |-> {"other", "hidden", "away", "moved"},
             plain |-> {"dead", "unusable"}, other |-> {"thin", "markdown", "coded"},
             hidden |-> {"page"}, away |-> {"page"}]

MCLinksOf == [u \in Urls |-> IF u = "home" THEN {"moved", "plain", "other", "hidden"} ELSE {"home"}]

MCRobotsOf == [o \in {"a", "a-http", "b", "c"} |->
                 CASE o = "a-http" -> {{}, Urls} [] o = "b" -> {Urls \ {"hidden"}}
                   [] OTHER -> {Urls}]

MCSitemaps == [s |-> [index |-> {"s", "t"}, pages |-> {}, at |-> {"a"}],
               t |-> [index |-> {}, pages |-> {"plain"}, at |-> {"a", "c"}]]

MCDetours == [o \in {"a", "a-http", "b", "c"} |-> IF o = "a-http" THEN {"a"} ELSE {}]

MCAgeOf == [u \in Urls |-> CASE u = "other" -> "old" [] u = "plain" -> "fresh"
                             [] OTHER -> "unknown"]
====
