-------------------------- MODULE MCIdentityLedger --------------------------
(***************************************************************************)
(* A small instance of IdentityLedger for TLC.  The legacy clusters hold   *)
(* one mention each (spec 05 section 7); m is a mention extracted later,   *)
(* that nobody has ruled on.                                               *)
(***************************************************************************)
EXTENDS IdentityLedger

CONSTANTS a, b, m, A, B, C

MCBaseline2 == [x \in {a, b} |-> IF x = a THEN A ELSE B]
AB == {A, B}
=============================================================================
