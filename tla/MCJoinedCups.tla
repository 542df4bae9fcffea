---------------------------- MODULE MCJoinedCups ----------------------------
(***************************************************************************)
(* Small instances of JoinedCups.                                          *)
(***************************************************************************)
EXTENDS JoinedCups, TLC

Symmetry ==
  Permutations(Handler) \cup Permutations(User) \cup Permutations(Cup)
=============================================================================
