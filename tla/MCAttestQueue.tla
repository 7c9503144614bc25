---------------------------- MODULE MCAttestQueue ----------------------------
(***************************************************************************)
(* Instances of AttestQueue for TLC.                                       *)
(***************************************************************************)
EXTENDS AttestQueue

\* Indexes that share what they hold.
Shared == [i \in Indexes |-> Documents]
=============================================================================
