--------------------------- MODULE MCRuntimeControl ---------------------------
(***************************************************************************)
(* RuntimeControl on small instances.  Clients are interchangeable model   *)
(* values: no definition tells one from another.                           *)
(***************************************************************************)
EXTENDS RuntimeControl, TLC

ClientSymmetry == Permutations(Clients)
=============================================================================
