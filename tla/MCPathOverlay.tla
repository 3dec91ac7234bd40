---------------------------- MODULE MCPathOverlay ----------------------------
(* Two names below the root, each a file, or a directory with one file. *)
EXTENDS PathOverlay

CONSTANTS a, b, x

Symmetry == Permutations({a, b})

MCPaths == {<<a>>, <<a, x>>, <<b>>, <<b, x>>}
=============================================================================
