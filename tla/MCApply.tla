------------------------------ MODULE MCApply ------------------------------
(* A directory of the source with a file in it, and a name outside of the *)
(* source.                                                                *)
EXTENDS Apply

CONSTANTS a, x, o

MCInside == {<<a>>, <<a, x>>}
MCPaths == MCInside \cup {<<o>>}

MCSource == [p \in MCPaths |-> CASE p = <<a>> -> "dir"
                                [] p = <<a, x>> -> Original
                                [] OTHER -> "none"]
=============================================================================
