----------------------------- MODULE MCPathMeta -----------------------------
(* Three calls for one path over two connections; the other path stays     *)
(* without a row.                                                          *)
EXTENDS PathMeta

CONSTANTS A, B, C

MCCallers == {A, B, C}
MCPaths   == {"p", "q"}
MCPathOf  == [c \in MCCallers |-> "p"]
=============================================================================
