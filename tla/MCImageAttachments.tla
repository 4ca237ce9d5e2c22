------------------------- MODULE MCImageAttachments -------------------------
(* Small instances of ImageAttachments for TLC.                            *)
EXTENDS ImageAttachments, TLC

Symmetry == Permutations(Owner) \cup Permutations(Request) \cup Permutations(Path)
=============================================================================
