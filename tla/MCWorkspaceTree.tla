--------------------------- MODULE MCWorkspaceTree ----------------------------
(* A small instance of WorkspaceTree: a default and another row of each    *)
(* kind, and a third collection so that a subtree can be moved.            *)
EXTENDS WorkspaceTree, TLC

CONSTANTS w0, w1, p0, p1, c0, c1, c2, e0, e1

Symmetry == Permutations({c1, c2})
===============================================================================
