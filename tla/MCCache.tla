------------------------------ MODULE MCCache ------------------------------
(* Two uploads; units in their order, all even as in the code, so that the  *)
(* TTLs of a year wrap to a negative and to a short duration.               *)
EXTENDS Cache

CONSTANTS A, B

MCUploads == {A, B}
MCUnits == [m |-> 2, h |-> 4, d |-> 6, w |-> 8, M |-> 10, y |-> 12]

Ttl(count, unit) == [text |-> "number", count |-> count, unit |-> unit]
MCTtls == {Ttl(1, "m"), Ttl(2, "h"), Ttl(3, ""), Ttl(1, "M"), Ttl(1, "y"),
           Ttl(2, "y"), Ttl(3, "y"), Ttl(0, "d"), Ttl(-1, "w"), Ttl(3, "other"),
           [text |-> "huge", count |-> 0, unit |-> "h"],
           [text |-> "junk", count |-> 0, unit |-> "d"]}
=============================================================================
