------------------------------ MODULE MCStats ------------------------------
(* Two connections, each moving one byte; rings of three and two slots, the *)
(* slot of the second twice as long, so that one value is late for a ring   *)
(* or a full turn behind, and another is not.                               *)
EXTENDS Stats

CONSTANTS A, B

MCConns     == {A, B}
MCTransfers == {"BytesIn"}
MCRings     == {"minute", "hour"}
MCSlots     == [minute |-> 3, hour |-> 2]
MCUnit      == [minute |-> 1, hour |-> 2]
=============================================================================
