------------------------ MODULE MCBlockProvisioning -------------------------
(***************************************************************************)
(* Instances of BlockProvisioning for TLC, with a GiB of two bytes.        *)
(***************************************************************************)
EXTENDS BlockProvisioning, TLC

Req(r, l, c) == [required |-> r, limit |-> l, clone |-> c]

\* A new volume of 2 GiB, of 1.5 GiB and of too many.
NewRequests == {Req(4, 0, FALSE), Req(3, 0, FALSE), Req(9, 0, FALSE)}

\* A clone of the size of the 1 GiB source, and one that is to be larger.
CloneRequests == {Req(2, 0, TRUE), Req(4, 4, TRUE)}

\* To 3 GiB, and out of range.
WholeRanges == {[required |-> 6, limit |-> 0], [required |-> 9, limit |-> 0]}

NoRanges == {}

Symmetry == Permutations(Handlers) \union Permutations(Storages \ {Source})

=============================================================================
