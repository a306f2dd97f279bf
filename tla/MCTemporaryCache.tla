-------------------------- MODULE MCTemporaryCache --------------------------
(* Two users who share a tab, one of whom sends requests without a tab as well. *)
EXTENDS TemporaryCache, TLC

CONSTANTS a, b, ab1, a0, k1, k2, k3, w1, w2

MCUsersOf == ab1 :> {a, b} @@ a0 :> {a}
Alike == Permutations({k1, k2, k3}) \cup Permutations({w1, w2})
=============================================================================
