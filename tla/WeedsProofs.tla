---------------------------- MODULE WeedsProofs ----------------------------
(***************************************************************************)
(* Facts about the choice of a server, for every list and every round.     *)
(* Positions of a type are ranked injectively, so, by counting, every      *)
(* round below their number has exactly one position: no induction over    *)
(* the list is needed.                                                     *)
(***************************************************************************)
EXTENDS Weeds, FiniteSetTheorems, TLAPS

\* The servers of a type are finitely many positions of the list.
LEMMA HitsFinite ==
  ASSUME NEW S, NEW weeds \in Seq(S), NEW type
  PROVE  /\ OfType(weeds, type) \subseteq 1..Len(weeds)
         /\ IsFiniteSet(OfType(weeds, type))
         /\ Cardinality(OfType(weeds, type)) \in Nat
         /\ Cardinality(OfType(weeds, type)) = 0 <=> OfType(weeds, type) = {}
<1>1. OfType(weeds, type) \subseteq 1..Len(weeds)
  BY DEF OfType
<1>2. IsFiniteSet(1..Len(weeds))
  BY FS_Interval
<1>3. IsFiniteSet(OfType(weeds, type))
  BY <1>1, <1>2, FS_Subset
<1> QED
  BY <1>1, <1>3, FS_CardinalityType, FS_EmptySet

\* The rank of a server of a type is below their number, and servers of the
\* type that stand apart have ranks apart.
LEMMA RankOfHit ==
  ASSUME NEW S, NEW weeds \in Seq(S), NEW type,
         NEW a \in OfType(weeds, type)
  PROVE  /\ Rank(weeds, type, a) \in 0..(Cardinality(OfType(weeds, type)) - 1)
         /\ \A b \in OfType(weeds, type) :
               a < b => Rank(weeds, type, a) < Rank(weeds, type, b)
<1> DEFINE hits     == OfType(weeds, type)
           Below(i) == {j \in hits : j < i}
<1>1. /\ hits \subseteq 1..Len(weeds)
      /\ IsFiniteSet(hits)
      /\ Cardinality(hits) \in Nat
  BY HitsFinite
<1>2. \A i \in hits : /\ IsFiniteSet(Below(i))
                      /\ Cardinality(Below(i)) \in Nat
                      /\ Cardinality(Below(i) \cup {i}) = Cardinality(Below(i)) + 1
                      /\ IsFiniteSet(Below(i) \cup {i})
  <2> TAKE i \in hits
  <2>1. Below(i) \subseteq hits
    OBVIOUS
  <2>2. IsFiniteSet(Below(i))
    BY <1>1, <2>1, FS_Subset
  <2>3. i \notin Below(i)
    BY <1>1
  <2> QED
    BY <2>2, <2>3, FS_CardinalityType, FS_AddElement
<1>3. Cardinality(Below(a) \cup {a}) <= Cardinality(hits)
  <2>1. Below(a) \cup {a} \in SUBSET hits
    OBVIOUS
  <2> QED
    BY <1>1, <2>1, FS_Subset
<1>4. \A b \in hits : a < b => Cardinality(Below(a) \cup {a}) <= Cardinality(Below(b))
  <2> SUFFICES ASSUME NEW b \in hits, a < b
               PROVE  Cardinality(Below(a) \cup {a}) <= Cardinality(Below(b))
    OBVIOUS
  <2>1. Below(a) \cup {a} \in SUBSET Below(b)
    BY <1>1
  <2> QED
    BY <1>2, <2>1, FS_Subset
<1>5. \A i : Rank(weeds, type, i) = Cardinality(Below(i))
  BY DEF Rank
<1>6. /\ Rank(weeds, type, a) \in Nat
      /\ Rank(weeds, type, a) + 1 <= Cardinality(hits)
  BY <1>2, <1>3, <1>5
<1>7. \A b \in hits : a < b => /\ Rank(weeds, type, b) \in Nat
                               /\ Rank(weeds, type, a) + 1 <= Rank(weeds, type, b)
  BY <1>2, <1>4, <1>5
<1> HIDE DEF hits
<1>8. /\ Rank(weeds, type, a) \in 0..(Cardinality(hits) - 1)
      /\ \A b \in hits : a < b => Rank(weeds, type, a) < Rank(weeds, type, b)
  BY <1>1, <1>6, <1>7
<1> QED
  BY <1>8 DEF hits

\* Two servers of a type with one rank are one server.
LEMMA RankInjective ==
  ASSUME NEW S, NEW weeds \in Seq(S), NEW type,
         NEW a \in OfType(weeds, type), NEW b \in OfType(weeds, type),
         Rank(weeds, type, a) = Rank(weeds, type, b)
  PROVE  a = b
<1>1. /\ Rank(weeds, type, a) \in Int
      /\ a < b => Rank(weeds, type, a) < Rank(weeds, type, b)
      /\ b < a => Rank(weeds, type, b) < Rank(weeds, type, a)
  BY RankOfHit
<1>2. a \in Int /\ b \in Int
  BY HitsFinite
<1> QED
  BY <1>1, <1>2

\* Every round below the number of servers of the type has its server.
LEMMA RankOnto ==
  ASSUME NEW S, NEW weeds \in Seq(S), NEW type, NEW round \in Nat,
         round < Cardinality(OfType(weeds, type))
  PROVE  \E i \in OfType(weeds, type) : Rank(weeds, type, i) = round
<1> DEFINE hits == OfType(weeds, type)
           n    == Cardinality(hits)
           f    == [i \in hits |-> Rank(weeds, type, i)]
<1>1. IsFiniteSet(hits) /\ n \in Nat
  BY HitsFinite
<1>2. IsFiniteSet(0..(n - 1)) /\ Cardinality(0..(n - 1)) = n
  <2> HIDE DEF n
  <2>1. 0 \in Int /\ n - 1 \in Int
    BY <1>1
  <2>2. Cardinality(0..(n - 1)) = IF 0 > n - 1 THEN 0 ELSE (n - 1) - 0 + 1
    BY <2>1, FS_Interval
  <2>3. IsFiniteSet(0..(n - 1))
    BY <2>1, FS_Interval
  <2> QED
    BY <1>1, <2>2, <2>3
<1>3. f \in [hits -> 0..(n - 1)]
  BY RankOfHit
<1>4. \A a, b \in hits : f[a] = f[b] => a = b
  BY RankInjective
<1>5. f \in Injection(hits, 0..(n - 1))
  BY <1>3, <1>4 DEF Injection, IsInjective
<1>6. f \in Surjection(hits, 0..(n - 1))
  BY <1>1, <1>2, <1>5, FS_Injection
<1>7. round \in 0..(n - 1)
  BY <1>1
<1> QED
  BY <1>6, <1>7 DEF Surjection

(***************************************************************************)
(* What getWeed returns (url_generator.go:99-111): nil exactly when no     *)
(* server has the type; below the number of servers of the type, the one   *)
(* of that rank; and the last server of the list beyond it.                *)
(***************************************************************************)
THEOREM GetWeedResult ==
  ASSUME NEW S, NEW weeds \in Seq(S), NEW type, NEW round \in Nat
  PROVE  LET hits == OfType(weeds, type)
             w    == getWeed(weeds, type, round)
         IN  /\ w \in 0..Len(weeds)
             /\ w = NoWeed <=> hits = {}
             /\ round < Cardinality(hits)
                  => w \in hits /\ Rank(weeds, type, w) = round
             /\ hits # {} /\ round >= Cardinality(hits) => w = Len(weeds)
<1> DEFINE hits == OfType(weeds, type)
           w    == getWeed(weeds, type, round)
<1>1. /\ hits \subseteq 1..Len(weeds)
      /\ Cardinality(hits) \in Nat
      /\ Cardinality(hits) = 0 <=> hits = {}
  BY HitsFinite
<1>2. Len(weeds) \in Nat
  OBVIOUS
<1>3. CASE hits = {}
  BY <1>1, <1>2, <1>3 DEF getWeed, NoWeed
<1>4. CASE round < Cardinality(hits)
  <2>1. \E i \in hits : Rank(weeds, type, i) = round
    BY <1>4, RankOnto
  <2>2. w \in hits /\ Rank(weeds, type, w) = round
    BY <1>1, <1>4, <2>1 DEF getWeed
  <2> QED
    BY <1>1, <1>2, <1>4, <2>2 DEF NoWeed
<1>5. CASE hits # {} /\ ~(round < Cardinality(hits))
  <2>1. w = Len(weeds)
    BY <1>5 DEF getWeed
  <2> QED
    BY <1>1, <1>2, <1>5, <2>1 DEF NoWeed
<1> QED
  BY <1>3, <1>4, <1>5

(***************************************************************************)
(* Failover spreads: two rounds below the number of servers of the type    *)
(* never choose the same server.                                           *)
(***************************************************************************)
THEOREM RoundsSpread ==
  ASSUME NEW S, NEW weeds \in Seq(S), NEW type, NEW r \in Nat, NEW s \in Nat,
         r < Cardinality(OfType(weeds, type)),
         s < Cardinality(OfType(weeds, type)),
         getWeed(weeds, type, r) = getWeed(weeds, type, s)
  PROVE  r = s
<1>1. Rank(weeds, type, getWeed(weeds, type, r)) = r
  BY GetWeedResult
<1>2. Rank(weeds, type, getWeed(weeds, type, s)) = s
  BY GetWeedResult
<1> QED
  BY <1>1, <1>2

(***************************************************************************)
(* The result of each URL function: Panic only for the lists that have no  *)
(* server to choose, a position of the list otherwise (getShadowFileUrl    *)
(* may also find none, and says so).                                       *)
(***************************************************************************)
LEMMA ChooseResult ==
  ASSUME NEW S, NEW weeds \in Seq(S), NEW isFiler \in BOOLEAN,
         NEW round \in Nat
  PROVE  /\ Choose(weeds, isFiler, round) \in {Panic, NoWeed} \cup 1..Len(weeds)
         /\ Choose(weeds, isFiler, round) = Panic => Len(weeds) = 0
         /\ Choose(weeds, isFiler, round) = NoWeed
              => Len(weeds) > 1 /\ OfType(weeds, TypeFor(isFiler)) = {}
         /\ Len(weeds) > 1 => Choose(weeds, isFiler, round)
                                = getWeed(weeds, TypeFor(isFiler), round)
         /\ getFileUrl(weeds, isFiler, round) \in {Panic} \cup 1..Len(weeds)
         /\ getFileUrl(weeds, isFiler, round) = Panic
              => \/ Len(weeds) = 0
                 \/ Len(weeds) > 1 /\ OfType(weeds, TypeFor(isFiler)) = {}
         /\ getFileUrl(weeds, isFiler, round) # Panic
              => getFileUrl(weeds, isFiler, round) = Choose(weeds, isFiler, round)
<1> DEFINE w == getWeed(weeds, TypeFor(isFiler), round)
           c == Choose(weeds, isFiler, round)
           g == getFileUrl(weeds, isFiler, round)
           n == Len(weeds)
           none == OfType(weeds, TypeFor(isFiler)) = {}
<1>1. /\ w \in 0..n
      /\ w = 0 <=> none
  BY GetWeedResult DEF NoWeed
<1>2. n \in Nat
  OBVIOUS
<1>3. c = IF n = 0 THEN -1 ELSE IF n = 1 THEN 1 ELSE w
  BY DEF Choose, Panic
<1>4. g = IF c = 0 THEN -1 ELSE c
  BY DEF getFileUrl, NoWeed, Panic
<1> HIDE DEF w, c, g, n, none
<1>5. /\ c \in {-1, 0} \cup 1..n
      /\ c = -1 => n = 0
      /\ c = 0 => n > 1 /\ none
      /\ n > 1 => c = w
  BY <1>1, <1>2, <1>3
<1>6. /\ g \in {-1} \cup 1..n
      /\ g = -1 => n = 0 \/ (n > 1 /\ none)
      /\ g # -1 => g = c
  BY <1>2, <1>4, <1>5
<1>7. Panic = -1 /\ NoWeed = 0
  BY DEF Panic, NoWeed
<1> QED
  BY <1>5, <1>6, <1>7 DEF c, g, n, none, w

\* Every server of the type is the choice of some round below their number.
LEMMA HitHasRound ==
  ASSUME NEW S, NEW weeds \in Seq(S), NEW filer \in BOOLEAN, Len(weeds) > 1,
         NEW i \in OfType(weeds, TypeFor(filer))
  PROVE  \E r \in 0..(Cardinality(OfType(weeds, TypeFor(filer))) - 1) :
            getFileUrl(weeds, filer, r) = i
<1> DEFINE hits == OfType(weeds, TypeFor(filer))
           r    == Rank(weeds, TypeFor(filer), i)
<1>1. r \in 0..(Cardinality(hits) - 1) /\ Cardinality(hits) \in Nat
  BY RankOfHit, HitsFinite
<1>2. /\ getWeed(weeds, TypeFor(filer), r) \in hits
      /\ Rank(weeds, TypeFor(filer), getWeed(weeds, TypeFor(filer), r)) = r
  BY <1>1, GetWeedResult
<1>3. getWeed(weeds, TypeFor(filer), r) = i
  BY <1>2, RankInjective
<1>4. i # NoWeed
  BY HitsFinite DEF NoWeed
<1>5. getFileUrl(weeds, filer, r) = i
  BY <1>1, <1>3, <1>4, ChooseResult DEF getFileUrl
<1> QED
  BY <1>1, <1>5
=============================================================================
