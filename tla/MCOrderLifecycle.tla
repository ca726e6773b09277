-------------------------- MODULE MCOrderLifecycle --------------------------
(***************************************************************************)
(* OrderLifecycle for TLC: signals of one kind, and the plans, are         *)
(* interchangeable.                                                        *)
(***************************************************************************)
EXTENDS OrderLifecycle, TLC

Interchangeable == Permutations(Signals \ Exits) \cup Permutations(Plans)
=============================================================================
