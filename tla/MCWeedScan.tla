----------------------------- MODULE MCWeedScan -----------------------------
(* Every list of up to four servers of the three types config.go:15 names. *)
EXTENDS WeedScan

MCWeedTypes == {"master", "volume", "filer"}
MCWeedLists == UNION {[1..n -> MCWeedTypes] : n \in 0..4}
=============================================================================
