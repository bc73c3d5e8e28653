----------------------------- MODULE MCBlobStore ------------------------------
(* A small instance of BlobStore: the default project and another one,     *)
(* which has a collection with a child.                                    *)
EXTENDS BlobStore, TLC

CONSTANTS r1, r2, x1, c1, c2, b1, b2, main, other, top, child

MCProjectOf == (top :> other) @@ (child :> other)
MCSubtreeOf == (top :> {top, child}) @@ (child :> {child})

Symmetry == Permutations({r1, r2}) \union Permutations({c1, c2}) \union Permutations({b1, b2})
===============================================================================
