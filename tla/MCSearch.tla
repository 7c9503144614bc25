------------------------------ MODULE MCSearch ------------------------------
(* Two documents of two passages.  A query the arms disagree on, and one   *)
(* that finds nothing.                                                     *)
EXTENDS Search

MCDocumentOf == [a1 |-> "a", a2 |-> "a", b1 |-> "b", b2 |-> "b"]

MCLexical == [q |-> <<"a1", "b1">>, r |-> <<>>]

MCNearest == [q |-> <<"b2", "a2", "b1", "a1">>, r |-> <<>>]
=============================================================================
