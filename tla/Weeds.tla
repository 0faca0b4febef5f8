------------------------------- MODULE Weeds -------------------------------
(***************************************************************************)
(* The choice of a seaweedfs server for one attempt of a request           *)
(* (src/server/url_generator.go).                                          *)
(*                                                                         *)
(* A list of configured servers (ps.Weeds, ps.Shadows) is the sequence of  *)
(* their types in configuration order; a server is its index in the list.  *)
(* The round is the number of the attempt: 0 first, then one more for each *)
(* retry.                                                                  *)
(***************************************************************************)
EXTENDS Integers, Sequences, FiniteSets

Master == "master"
Filer  == "filer"

\* The result of getWeed when it returns nil.
NoWeed == 0

\* What indexing an empty list, or dereferencing a nil *Weed, comes to.
Panic == -1

\* The servers of one type.
OfType(weeds, type) == {i \in DOMAIN weeds : weeds[i] = type}

\* How many servers of the type stand before position i.
Rank(weeds, type, i) == Cardinality({j \in OfType(weeds, type) : j < i})

(***************************************************************************)
(* getWeed returns a pointer to its loop variable.  It leaves the loop on  *)
(* the server of the type whose rank is the round; when the type has too   *)
(* few servers the loop runs to its end and the pointer shows what the     *)
(* variable held last, the last server of the list, whatever its type.     *)
(* WeedScan has the loop itself and WeedScanProofs shows that this is what *)
(* it computes.                                                            *)
(***************************************************************************)
getWeed(weeds, type, round) ==
    LET hits == OfType(weeds, type)
    IN  IF hits = {} THEN NoWeed
        ELSE IF round < Cardinality(hits)
             THEN CHOOSE i \in hits : Rank(weeds, type, i) = round
             ELSE Len(weeds)

TypeFor(isFiler) == IF isFiler THEN Filer ELSE Master

\* The server all three URL functions choose, or NoWeed: with fewer than two
\* servers in the list the first one, whatever its type.
Choose(weeds, isFiler, round) ==
    IF Len(weeds) = 0 THEN Panic
    ELSE IF Len(weeds) = 1 THEN 1
    ELSE getWeed(weeds, TypeFor(isFiler), round)

\* getFileUrl and submitUrl use the pointer without looking at it.
getFileUrl(weeds, isFiler, round) ==
    LET weed == Choose(weeds, isFiler, round)
    IN  IF weed = NoWeed THEN Panic ELSE weed

submitUrl(weeds, isFiler, round) == getFileUrl(weeds, isFiler, round)

\* getShadowFileUrl alone returns "" (NoWeed) when no server has the type.
getShadowFileUrl(shadows, isFiler, round) == Choose(shadows, isFiler, round)
=============================================================================
