--------------------------- MODULE MCUserAvatars ---------------------------
(* Small instances of UserAvatars for TLC.                                 *)
EXTENDS UserAvatars, TLC

\* Nothing in the specification names a user, a slot or a file.
Symmetry == Permutations(User) \cup Permutations(Request) \cup Permutations(Path)
=============================================================================
