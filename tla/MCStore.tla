------------------------------ MODULE MCStore ------------------------------
(***************************************************************************)
(* TLC instance of the store and a reader: one guild of one run, an        *)
(* identity of one user and a message of another.                          *)
(***************************************************************************)
EXTENDS Readers, TLC

CONSTANTS i1, m1, u1, u2

MCIdentUser == i1 :> u1

MCMessageAuthor == (m1 :> u2)

MCCandidateReasons == {"username_exact"}
=============================================================================
