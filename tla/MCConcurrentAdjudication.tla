---------------------- MODULE MCConcurrentAdjudication ----------------------
(***************************************************************************)
(* Two requests in flight at a time over small ledgers.  The legacy        *)
(* clusters hold one mention each; d is extracted later and nobody has     *)
(* ruled on it.                                                            *)
(***************************************************************************)
EXTENDS ConcurrentAdjudication, TLC

CONSTANTS a, b, c, d, A, B, C, D

MCBaseline1 == [x \in {a} |-> A]
MCBaseline3 == [x \in {a, b, c} |-> CASE x = a -> A [] x = b -> B [] x = c -> C]
AlsoA == {A}
ABC == {A, B, C}

SymRequests == Permutations(Requests)
=============================================================================
