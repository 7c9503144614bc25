---- MODULE MCCommission ----
(* Two wallets; two pages, one of which is written in two ways.            *)
EXTENDS Commission, TLC

CONSTANTS w1, w2, p1, p2, a, b

MCPageOf == [s1 |-> p1, s1frag |-> p1, s2 |-> p2, bad |-> None]

Ask(op, wallet, ref, name, list, closed, readers) ==
  [op |-> op, wallet |-> wallet, ref |-> ref, name |-> name, list |-> list,
   closed |-> closed, readers |-> readers]

\* A closed index of w1 that is there when the run begins.
MCStanding == [slug |-> <<"n", 1>>, owner |-> w1, closed |-> TRUE, readers |-> {}]

Nothing == NotYet

\* One of them is enough to extend the standing index, to delete it, and to give
\* its name to another.
MCCommands ==
  {Ask("create", w1, None, "n", {"s1", "s1frag"}, TRUE, {}),
   Ask("create", w2, None, "n", {"s2"}, FALSE, {}),
   Ask("create", w2, None, "n", {"s2", "bad"}, TRUE, {None}),
   Ask("append", w1, <<"n", 1>>, "n", {"s1", "s2"}, FALSE, {}),
   Ask("remove", w1, <<"n", 1>>, "n", {}, FALSE, {}),
   Ask("search", w2, <<"n", 1>>, "n", {}, FALSE, {}),
   Ask("search", w2, None, "n", {}, FALSE, {})}

OneBuyer ==
  {Ask("create", w1, None, "n", {"s1"}, FALSE, {}),
   Ask("append", w1, <<"n", 1>>, "n", {"s1"}, FALSE, {})}

Symmetry == Permutations(Clients)
====
