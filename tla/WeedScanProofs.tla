--------------------------- MODULE WeedScanProofs ---------------------------
(***************************************************************************)
(* The loop of getWeed computes the closed form of module Weeds, for every *)
(* set of lists, every type and every round.  The invariant is that the    *)
(* countdown has lost one round for every server of the type met so far    *)
(* (LoopInv); Hit and End read the result off it.                          *)
(***************************************************************************)
EXTENDS WeedScan, WeedsProofs

Inv == TypeOK /\ LoopInv /\ ScanIsGetWeed

\* Reading one more server adds it to Seen or leaves Seen alone.
LEMMA SeenStep ==
  ASSUME NEW S, weeds \in Seq(S), i \in 0..Len(weeds)
  PROVE  /\ IsFiniteSet(Seen(i))
         /\ Cardinality(Seen(i)) \in Nat
         /\ i < Len(weeds) /\ weeds[i + 1] # weedType => Seen(i + 1) = Seen(i)
         /\ i < Len(weeds) /\ weeds[i + 1] = weedType
              => /\ Seen(i + 1) = Seen(i) \cup {i + 1}
                 /\ Seen(i + 1) \subseteq OfType(weeds, weedType)
                 /\ Seen(i) = {j \in OfType(weeds, weedType) : j < i + 1}
                 /\ Cardinality(Seen(i + 1)) = Cardinality(Seen(i)) + 1
         /\ i = Len(weeds) => Seen(i) = OfType(weeds, weedType)
         /\ i = 0 => Seen(i) = {}
<1> DEFINE hits == OfType(weeds, weedType)
<1>1. hits \subseteq 1..Len(weeds) /\ IsFiniteSet(hits)
  BY HitsFinite
<1>2. Seen(i) \in SUBSET hits
  BY DEF Seen
<1>3. IsFiniteSet(Seen(i)) /\ Cardinality(Seen(i)) \in Nat
  BY <1>1, <1>2, FS_Subset, FS_CardinalityType
<1>4. Len(weeds) \in Nat /\ i \in Nat
  OBVIOUS
<1>5. ASSUME i < Len(weeds), weeds[i + 1] # weedType
      PROVE  Seen(i + 1) = Seen(i)
  <2>1. i + 1 \notin hits
    BY <1>5 DEF OfType
  <2> HIDE DEF hits
  <2> QED
    BY <1>1, <1>4, <2>1 DEF Seen, hits
<1>6. ASSUME i < Len(weeds), weeds[i + 1] = weedType
      PROVE  /\ Seen(i + 1) = Seen(i) \cup {i + 1}
             /\ Seen(i + 1) \subseteq hits
             /\ Seen(i) = {j \in hits : j < i + 1}
             /\ Cardinality(Seen(i + 1)) = Cardinality(Seen(i)) + 1
  <2>1. i + 1 \in hits
    <3>1. i + 1 \in 1..Len(weeds)
      BY <1>4, <1>6
    <3> QED
      BY <1>6, <3>1 DEF OfType
  <2>2. Seen(i + 1) = Seen(i) \cup {i + 1}
    BY <1>1, <1>4, <2>1 DEF Seen
  <2>3. Seen(i) = {j \in hits : j < i + 1}
    BY <1>1, <1>4 DEF Seen
  <2>4. i + 1 \notin Seen(i)
    BY <1>4 DEF Seen
  <2>5. Cardinality(Seen(i) \cup {i + 1}) = Cardinality(Seen(i)) + 1
    BY <1>3, <2>4, FS_AddElement
  <2> QED
    BY <1>2, <2>1, <2>2, <2>3, <2>5
<1>7. i = Len(weeds) => Seen(i) = hits
  BY <1>1, <1>4 DEF Seen
<1>8. i = 0 => Seen(i) = {}
  BY <1>1 DEF Seen
<1> QED
  BY <1>3, <1>5, <1>6, <1>7, <1>8

\* A call starts within its invariant.
LEMMA InitInv == Init => Inv
<1> SUFFICES ASSUME Init PROVE Inv
  OBVIOUS
<1>1. weeds \in Seq(WeedTypes) /\ Len(weeds) \in Nat
  BY ListsAssumption DEF Init
<1>2. TypeOK
  BY <1>1, RoundAssumption DEF Init, TypeOK
<1>3. Seen(i) = {}
  BY <1>1, SeenStep DEF Init
<1>4. LoopInv
  <2>1. Cardinality(Seen(i)) = 0
    BY <1>3, FS_EmptySet
  <2>2. round \in Int /\ round = round0 /\ isNil = TRUE
    BY RoundAssumption DEF Init
  <2> QED
    BY <1>3, <2>1, <2>2 DEF LoopInv
<1> QED
  BY <1>2, <1>4 DEF Init, Inv, ScanIsGetWeed

\* Every iteration keeps it.
LEMMA NextInv == Inv /\ [Next]_vars => Inv'
<1> SUFFICES ASSUME Inv, [Next]_vars PROVE Inv'
  OBVIOUS
<1> DEFINE hits == OfType(weeds, weedType)
           n    == Len(weeds)
<1>1. /\ weeds \in Seq(WeedTypes)
      /\ n \in Nat
      /\ i \in 0..n
      /\ round0 \in Nat
      /\ round \in 0..round0
  BY ListsAssumption, RoundAssumption DEF Inv, TypeOK
<1>2. /\ hits \subseteq 1..n
      /\ IsFiniteSet(hits)
      /\ Cardinality(hits) \in Nat
      /\ Cardinality(hits) = 0 <=> hits = {}
  BY <1>1, HitsFinite
<1>3. Cardinality(Seen(i)) \in Nat /\ IsFiniteSet(Seen(i))
  BY <1>1, SeenStep
<1>0. i < n => i + 1 \in 0..n
  <2> HIDE DEF n
  <2> QED
    BY <1>1
<1>4. CASE Skip
  <2>1. Seen(i + 1) = Seen(i)
    BY <1>1, <1>4, SeenStep DEF Skip
  <2>2. Seen(i)' = Seen(i + 1)
    BY <1>4 DEF Skip, args, Seen
  <2>3. TypeOK'
    BY <1>1, <1>4 DEF Inv, TypeOK, Skip, args
  <2>4. LoopInv'
    BY <1>4, <2>1, <2>2 DEF Inv, LoopInv, Skip, args
  <2>5. ScanIsGetWeed'
    BY <1>4 DEF Skip, ScanIsGetWeed
  <2> QED
    BY <2>3, <2>4, <2>5 DEF Inv
<1>5. CASE Pass
  <2>1. /\ Seen(i + 1) = Seen(i) \cup {i + 1}
        /\ Cardinality(Seen(i + 1)) = Cardinality(Seen(i)) + 1
    BY <1>1, <1>5, SeenStep DEF Pass
  <2>2. Seen(i)' = Seen(i + 1)
    BY <1>5 DEF Pass, args, Seen
  <2>3. round = round0 - Cardinality(Seen(i))
    BY <1>5 DEF Inv, LoopInv, Pass
  <2>4. TypeOK'
    <3>1. i' \in 0..n /\ round' \in 0..round0
      BY <1>1, <1>5, <1>0 DEF Pass
    <3> QED
      BY <1>5, <3>1 DEF Inv, TypeOK, Pass, args
  <2>5. LoopInv'
    <3>1. round' = round0' - Cardinality(Seen(i + 1))
      BY <1>1, <1>3, <1>5, <2>1, <2>3 DEF Pass, args
    <3>2. isNil' = FALSE /\ Seen(i + 1) # {}
      BY <1>5, <2>1 DEF Pass
    <3> QED
      BY <2>2, <3>1, <3>2 DEF LoopInv
  <2>6. ScanIsGetWeed'
    BY <1>5 DEF Pass, ScanIsGetWeed
  <2> QED
    BY <2>4, <2>5, <2>6 DEF Inv
<1>6. CASE Hit
  <2>1. /\ i < n
        /\ weeds[i + 1] = weedType
        /\ round0 = Cardinality(Seen(i))
    BY <1>1, <1>3, <1>6 DEF Inv, LoopInv, Hit
  <2>2. /\ Seen(i + 1) = Seen(i) \cup {i + 1}
        /\ Seen(i + 1) \in SUBSET hits
        /\ Seen(i) = {j \in hits : j < i + 1}
        /\ Cardinality(Seen(i + 1)) = round0 + 1
    BY <1>1, <2>1, SeenStep
  <2>3. i + 1 \in hits /\ Rank(weeds, weedType, i + 1) = round0
    BY <2>1, <2>2 DEF Rank
  <2>4. round0 < Cardinality(hits)
    <3>1. Cardinality(Seen(i + 1)) <= Cardinality(hits)
      BY <1>2, <2>2, FS_Subset
    <3> QED
      BY <1>1, <1>2, <2>2, <3>1
  <2>5. getWeed(weeds, weedType, round0) = i + 1
    <3>1. /\ getWeed(weeds, weedType, round0) \in hits
          /\ Rank(weeds, weedType, getWeed(weeds, weedType, round0)) = round0
      BY <1>1, <2>4, GetWeedResult
    <3> QED
      BY <1>1, <2>3, <3>1, RankInjective
  <2>6. TypeOK'
    <3>1. i' \in 0..n
      BY <1>6, <1>0 DEF Hit
    <3> QED
      BY <1>6, <3>1 DEF Inv, TypeOK, Hit, args
  <2>7. ScanIsGetWeed'
    BY <1>6, <2>5 DEF Hit, args, ScanIsGetWeed, Result
  <2>8. LoopInv'
    BY <1>6 DEF Hit, LoopInv
  <2> QED
    BY <2>6, <2>7, <2>8 DEF Inv
<1>7. CASE End
  <2>1. Seen(i) = hits /\ i = n
    BY <1>1, <1>7, SeenStep DEF End
  <2>2. round = round0 - Cardinality(hits) /\ (isNil <=> hits = {})
    BY <1>7, <2>1 DEF Inv, LoopInv, End
  <2>3. round0 >= Cardinality(hits)
    BY <1>1, <1>2, <2>2
  <2>4. getWeed(weeds, weedType, round0) = IF hits = {} THEN NoWeed ELSE n
    BY <1>1, <2>3, GetWeedResult
  <2>5. TypeOK'
    BY <1>7 DEF Inv, TypeOK, End, args
  <2>6. ScanIsGetWeed'
    BY <1>7, <2>1, <2>2, <2>4 DEF End, args, ScanIsGetWeed, Result
  <2>7. LoopInv'
    BY <1>7 DEF End, LoopInv
  <2> QED
    BY <2>5, <2>6, <2>7 DEF Inv
<1>8. CASE UNCHANGED vars
  BY <1>8 DEF Inv, TypeOK, LoopInv, Seen, ScanIsGetWeed, Result, vars, args
<1> QED
  BY <1>4, <1>5, <1>6, <1>7, <1>8 DEF Next

\* The invariant holds throughout every call.
LEMMA AlwaysInv == Spec => []Inv
  BY InitInv, NextInv, PTL DEF Spec

(***************************************************************************)
(* The loop keeps its types: the countdown stays within 0..round0, so the  *)
(* round is never negative and `round == 0` is never jumped over.          *)
(***************************************************************************)
THEOREM TypeCorrect == Spec => []TypeOK
<1>1. Inv => TypeOK
  BY DEF Inv
<1> QED
  BY <1>1, AlwaysInv, PTL

(***************************************************************************)
(* getWeed returns what the closed form says (url_generator.go:99-111).    *)
(***************************************************************************)
THEOREM LoopImplementsGetWeed == Spec => []ScanIsGetWeed
<1>1. Inv => ScanIsGetWeed
  BY DEF Inv
<1> QED
  BY <1>1, AlwaysInv, PTL

(***************************************************************************)
(* While the round is below the number of servers of the type, the server  *)
(* returned has the type.                                                  *)
(***************************************************************************)
THEOREM RightType == Spec => []RightTypeInRange
<1>1. Inv => RightTypeInRange
  <2> SUFFICES ASSUME Inv, pc = "done",
                      round0 < Cardinality(OfType(weeds, weedType))
               PROVE  Result # NoWeed /\ weeds[Result] = weedType
    BY DEF RightTypeInRange
  <2>1. weeds \in Seq(WeedTypes) /\ round0 \in Nat
    BY ListsAssumption, RoundAssumption DEF Inv, TypeOK
  <2>2. Result \in OfType(weeds, weedType)
    BY <2>1, GetWeedResult DEF Inv, ScanIsGetWeed
  <2>3. OfType(weeds, weedType) \subseteq 1..Len(weeds)
    BY <2>1, HitsFinite
  <2> QED
    BY <2>2, <2>3 DEF OfType, NoWeed
<1> QED
  BY <1>1, AlwaysInv, PTL
=============================================================================
