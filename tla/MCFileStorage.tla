--------------------------- MODULE MCFileStorage ----------------------------
(***************************************************************************)
(* Instances of FileStorage for TLC, with a GiB of two bytes.              *)
(***************************************************************************)
EXTENDS FileStorage, TLC

Bytes(r) == [required |-> r, limit |-> 0]

\* 1 GiB, 1.5 GiB and too many.
NewRanges == {Bytes(2), Bytes(3), Bytes(9)}

OneGiB == {Bytes(2)}

\* To 2 GiB, and out of range.
LargerRanges == {Bytes(4), Bytes(9)}

NoRanges == {}

Symmetry == Permutations(Handlers) \union Permutations(Services)

=============================================================================
