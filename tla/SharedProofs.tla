---------------------------- MODULE SharedProofs ----------------------------
(***************************************************************************)
(* The state that all requests of a server share.                          *)
(*                                                                         *)
(* The life of a redis entry, for any TTLs, units, width of an integer and *)
(* number of uploads: an entry lives as long as its TTL says, and one of a *)
(* file that is gone no longer.                                            *)
(*                                                                         *)
(* The statistics of connections, for any number of connections, counters, *)
(* rings, slots and ticks of a slot and any capacity of the channels: no   *)
(* connection is lost, and a ring is a window on what was counted.         *)
(***************************************************************************)
EXTENDS Cache, Stats, FiniteSetTheorems, TLAPS

(***************************************************************************)
(* The redis entry.                                                        *)
(***************************************************************************)

\* What is left of an entry is at least one tick.
LeftInv == entry # NoFile => left = Forever \/ left >= 1

IInv == TypeOK /\ LeftInv /\ LivesItsTtl

-----------------------------------------------------------------------------
\* Remainders, for a divisor that is not a numeral.
LEMMA ModRange ==
  ASSUME NEW n \in Nat \ {0}, NEW x \in Int
  PROVE  x % n \in 0..(n - 1)
OBVIOUS

LEMMA ModSmall ==
  ASSUME NEW n \in Nat \ {0}, NEW x \in 0..(n - 1)
  PROVE  x % n = x
OBVIOUS

\* int64 arithmetic stays in its range and leaves what is in the range alone.
LEMMA WrapRange ==
  ASSUME NEW x \in Int
  PROVE  /\ Wrap(x) \in (-(MaxInt + 1))..MaxInt
         /\ x \in 0..MaxInt => Wrap(x) = x
<1> DEFINE n == 2 * (MaxInt + 1)
<1>1. MaxInt \in Nat /\ n \in Nat \ {0} /\ x + MaxInt + 1 \in Int
  BY BoundsAssumption
<1>2. (x + MaxInt + 1) % n \in 0..(n - 1)
  BY <1>1, ModRange
<1>3. x \in 0..MaxInt => (x + MaxInt + 1) % n = x + MaxInt + 1
  <2> SUFFICES ASSUME x \in 0..MaxInt PROVE (x + MaxInt + 1) % n = x + MaxInt + 1
    OBVIOUS
  <2>1. x + MaxInt + 1 \in 0..(n - 1)
    BY <1>1
  <2> HIDE DEF n
  <2> QED
    BY <1>1, <2>1, ModSmall
<1>4. Wrap(x) = ((x + MaxInt + 1) % n) - (MaxInt + 1)
  BY DEF Wrap
<1> HIDE DEF n
<1>5. n = 2 * (MaxInt + 1)
  BY DEF n
<1> QED
  BY <1>1, <1>2, <1>3, <1>4, <1>5

-----------------------------------------------------------------------------
\* The number of minutes, hours... of a TTL without a unit is one of minutes.
UnitOf(t) == IF t.unit = "" THEN "m" ELSE t.unit

\* The TTL of the configuration is a Duration, the documented one if the text
\* is well-formed.
LEMMA ParsedTtl ==
  ASSUME TypeOK
  PROVE  /\ ParseTtlDuration(ttl) \in (-(MaxInt + 1))..MaxInt
         /\ WellFormed(ttl) => /\ ParseTtlDuration(ttl) = Documented(ttl)
                               /\ Documented(ttl) \in 1..MaxInt
<1>0. ttl \in Ttls /\ MaxInt \in Nat
  BY BoundsAssumption DEF TypeOK
<1>1. ttl.text \in Texts /\ ttl.unit \in DOMAIN Units \cup {"", "other"}
  BY <1>0, TtlsAssumption
<1>a. ttl.count \in (-MaxInt)..MaxInt
  BY <1>0, TtlsAssumption
<1>b. ttl.count \in Int
  BY <1>0, <1>a
<1>2. "m" \in DOMAIN Units /\ \A u \in DOMAIN Units : Units[u] \in Nat \ {0}
  BY UnitsAssumption, BoundsAssumption
<1>3. ParseInt(ttl) \in Int
  <2>1. CASE ttl.text = "number"
    BY <1>b, <2>1 DEF ParseInt
  <2>2. CASE ttl.text = "huge"
    BY <1>0, <2>2 DEF ParseInt
  <2>3. CASE ttl.text = "junk"
    BY <2>3 DEF ParseInt
  <2> QED
    BY <1>1, <2>1, <2>2, <2>3 DEF Texts
<1>4. toTtlUnit(UnitOf(ttl)) \in Int
  <2> DEFINE unit == UnitOf(ttl)
  <2>1. unit \in DOMAIN Units => Units[unit] \in Int
    BY <1>2
  <2> HIDE DEF unit
  <2>2. toTtlUnit(unit) \in Int
    BY <2>1 DEF toTtlUnit
  <2> QED
    BY <2>2 DEF unit
<1>5. ParseInt(ttl) * toTtlUnit(UnitOf(ttl)) \in Int
  BY <1>3, <1>4
<1>6. ParseTtlDuration(ttl) = Wrap(ParseInt(ttl) * toTtlUnit(UnitOf(ttl)))
  BY DEF ParseTtlDuration, UnitOf
<1>7. ASSUME WellFormed(ttl)
      PROVE  /\ ParseInt(ttl) * toTtlUnit(UnitOf(ttl)) = Documented(ttl)
             /\ Documented(ttl) \in 1..MaxInt
  <2>1. /\ ttl.text = "number" /\ ttl.unit # "other" /\ ttl.count > 0
        /\ Documented(ttl) = ttl.count * Units[UnitOf(ttl)]
        /\ Documented(ttl) <= MaxInt
    BY <1>7 DEF WellFormed, Documented, UnitOf
  <2>2. UnitOf(ttl) \in DOMAIN Units
    BY <1>1, <1>2, <2>1 DEF UnitOf
  <2>3. ParseInt(ttl) = ttl.count /\ toTtlUnit(UnitOf(ttl)) = Units[UnitOf(ttl)]
    BY <2>1, <2>2 DEF ParseInt, toTtlUnit
  <2>4. Documented(ttl) \in Nat \ {0}
    <3>1. ttl.count \in Nat \ {0} /\ Units[UnitOf(ttl)] \in Nat \ {0}
      <4>1. ttl.count \in Nat \ {0}
        BY <1>b, <2>1
      <4> QED
        BY <1>2, <2>2, <4>1
    <3>2. \A a, b \in Nat \ {0} : a * b \in Nat \ {0}
      OBVIOUS
    <3> QED
      BY <2>1, <3>1, <3>2
  <2>5. Documented(ttl) \in 1..MaxInt
    BY <1>0, <2>1, <2>4
  <2> QED
    BY <2>1, <2>3, <2>5
<1> QED
  BY <1>5, <1>6, <1>7, WrapRange

\* What an upload puts into the cache has its whole TTL before it.
LEMMA Remembered ==
  ASSUME IInv, NEW u \in Uploads, NEW till \in 1..MaxInt \cup {Forever},
         Remember(u, till),
         till = Forever => client = "cluster" /\ ParseTtlDuration(ttl) <= 0,
         till # Forever => till = ParseTtlDuration(ttl),
         UNCHANGED config, pc' \in [Uploads -> {"start", "stored", "done"}],
         UNCHANGED <<file, goneFor>>
  PROVE  IInv'
<1>1. client' = client /\ ttl' = ttl /\ entry' = u /\ left' = till /\ age' = 0
  BY DEF config, Remember
<1>2. TypeOK'
  BY <1>1, BoundsAssumption DEF IInv, TypeOK
<1>3. LeftInv'
  BY <1>1, BoundsAssumption DEF LeftInv
<1>4. WellFormed(ttl) => ParseTtlDuration(ttl) = Documented(ttl) /\ Documented(ttl) \in 1..MaxInt
  BY ParsedTtl DEF IInv
<1>5. LivesItsTtl'
  <2>1. WellFormed(ttl)' <=> WellFormed(ttl)
    BY <1>1 DEF WellFormed
  <2>2. Documented(ttl)' = Documented(ttl)
    BY <1>1 DEF Documented
  <2>3. WellFormed(ttl) => till # Forever
    BY <1>4, BoundsAssumption
  <2>4. WellFormed(ttl) => 0 + till = Documented(ttl)
    BY <1>4, <2>3, BoundsAssumption
  <2> QED
    BY <1>1, <2>1, <2>2, <2>3, <2>4 DEF LivesItsTtl
<1> QED
  BY <1>2, <1>3, <1>5 DEF IInv

LEMMA InitInv == Init => IInv
BY BoundsAssumption DEF Init, IInv, TypeOK, LeftInv, LivesItsTtl

\* What does not touch the entry.
LEMMA EntryKept ==
  ASSUME IInv, UNCHANGED <<config, entry, left, age>>, TypeOK'
  PROVE  IInv'
BY DEF IInv, LeftInv, LivesItsTtl, WellFormed, Documented, config

LEMMA CacheStep ==
  ASSUME IInv, NEW u \in Uploads, CacheFilePath(u)
  PROVE  IInv'
<1> DEFINE d == ParseTtlDuration(ttl)
<1>1. /\ pc' \in [Uploads -> {"start", "stored", "done"}]
      /\ UNCHANGED <<config, file, goneFor>>
      /\ IF client = "plain" THEN SetEx(u, d) ELSE Set(u, d)
  BY DEF CacheFilePath, IInv, TypeOK
<1>2. d \in (-(MaxInt + 1))..MaxInt /\ MaxInt \in Nat
  BY ParsedTtl, BoundsAssumption DEF IInv
<1>3. client # "plain" => client = "cluster"
  BY DEF IInv, TypeOK
<1> HIDE DEF d
<1>4. CASE d > 0
  <2>1. d \in 1..MaxInt /\ Remember(u, d) /\ d # Forever
    BY <1>1, <1>2, <1>4, SentinelsAssumption DEF SetEx, Set
  <2> QED
    BY <1>1, <2>1, Remembered DEF d
<1>5. CASE ~(d > 0) /\ client = "plain"
  <2>1. UNCHANGED <<entry, left, age>>
    BY <1>1, <1>5 DEF SetEx
  <2>2. TypeOK'
    BY <1>1, <2>1 DEF IInv, TypeOK, config
  <2> QED
    BY <1>1, <2>1, <2>2, EntryKept
<1>6. CASE ~(d > 0) /\ client # "plain"
  <2>1. Remember(u, Forever) /\ d <= 0
    BY <1>1, <1>2, <1>6 DEF Set
  <2> QED
    BY <1>1, <1>3, <1>6, <2>1, Remembered DEF d
<1> QED
  BY <1>4, <1>5, <1>6

LEMMA TickStep ==
  ASSUME IInv, Tick
  PROVE  IInv'
<1>1. /\ UNCHANGED <<client, ttl, pc, file>>
      /\ goneFor' = [u \in Uploads |-> IF Gone(u) THEN Older(goneFor[u]) ELSE 0]
      /\ MaxAge \in Nat /\ MaxInt \in Nat /\ MaxAge > MaxInt
  BY BoundsAssumption DEF Tick, config
<1>2. \A n \in 0..MaxAge : Older(n) \in 0..MaxAge /\ (n < MaxAge => Older(n) = n + 1)
  BY <1>1 DEF Older
<1>3. goneFor' \in [Uploads -> 0..MaxAge]
  BY <1>1, <1>2 DEF IInv, TypeOK
<1>4. CASE entry = NoFile
  <2>1. UNCHANGED <<entry, left, age>>
    BY <1>4 DEF Tick
  <2> QED
    BY <1>1, <1>3, <2>1, EntryKept DEF IInv, TypeOK, config
<1>5. CASE entry # NoFile
  <2>1. /\ age' = Older(age) /\ left' = IF left = Forever THEN left ELSE left - 1
        /\ entry' = IF left = 1 THEN NoFile ELSE entry
    BY <1>5 DEF Tick
  <2>2. /\ left = Forever \/ left \in 1..MaxInt
        /\ age \in 0..MaxAge
        /\ WellFormed(ttl) => left # Forever /\ age + left = Documented(ttl)
        /\ left = Forever => client = "cluster" /\ ~WellFormed(ttl)
    BY <1>1, <1>5, SentinelsAssumption DEF IInv, TypeOK, LeftInv, LivesItsTtl
  <2>3. TypeOK'
    BY <1>1, <1>2, <1>3, <2>1, <2>2 DEF IInv, TypeOK
  <2>4. LeftInv'
    BY <1>1, <2>1, <2>2 DEF LeftInv
  <2>5. LivesItsTtl'
    <3>1. (WellFormed(ttl)' <=> WellFormed(ttl)) /\ Documented(ttl)' = Documented(ttl)
      BY <1>1 DEF WellFormed, Documented
    <3>2. ASSUME WellFormed(ttl) PROVE left' # Forever /\ age' + left' = Documented(ttl)
      <4>1. /\ left \in 1..MaxInt /\ age + left = Documented(ttl)
            /\ Documented(ttl) <= MaxInt
        BY <2>2, <3>2, ParsedTtl, BoundsAssumption DEF IInv
      <4>2. age < MaxAge
        BY <1>1, <2>2, <4>1
      <4>3. age' = age + 1 /\ left' = left - 1
        BY <1>2, <2>1, <2>2, <4>1, <4>2, SentinelsAssumption
      <4> QED
        BY <2>2, <4>1, <4>3, SentinelsAssumption
    <3>3. left' = Forever => left = Forever
      BY <1>1, <2>1, <2>2, SentinelsAssumption
    <3> QED
      BY <1>1, <2>2, <3>1, <3>2, <3>3 DEF LivesItsTtl
  <2> QED
    BY <2>3, <2>4, <2>5 DEF IInv
<1> QED
  BY <1>4, <1>5

LEMMA AlwaysInv == Spec => []IInv
<1>1. IInv /\ [Next]_vars => IInv'
  <2> SUFFICES ASSUME IInv, [Next]_vars PROVE IInv'
    OBVIOUS
  <2>1. ASSUME NEW u \in Uploads, Upload(u) \/ CacheFails(u)
        PROVE  IInv'
    <3>1. TypeOK' /\ UNCHANGED <<config, entry, left, age>>
      BY <2>1 DEF Upload, CacheFails, IInv, TypeOK, config
    <3> QED
      BY <3>1, EntryKept
  <2>2. CASE Delete
    <3>1. TypeOK' /\ UNCHANGED <<config, entry, left, age>>
      BY <2>2 DEF Delete, IInv, TypeOK, config
    <3> QED
      BY <3>1, EntryKept
  <2>3. CASE UNCHANGED vars
    <3>1. TypeOK' /\ UNCHANGED <<config, entry, left, age>>
      BY <2>3 DEF vars, IInv, TypeOK, config
    <3> QED
      BY <3>1, EntryKept
  <2> QED
    BY <2>1, <2>2, <2>3, CacheStep, TickStep DEF Next
<1> QED
  BY InitInv, <1>1, PTL DEF Spec

-----------------------------------------------------------------------------
(***************************************************************************)
(* Every variable keeps its type: what is left of an entry fits an int64,  *)
(* whatever the product of ParseTtlDuration wrapped to.                    *)
(***************************************************************************)
THEOREM TypeCorrect == Spec => []TypeOK
<1>1. IInv => TypeOK
  BY DEF IInv
<1> QED
  BY AlwaysInv, <1>1, PTL

(***************************************************************************)
(* An entry lives for the TTL of the configuration when that is one, and   *)
(* an entry that never expires needs the cluster client and a TTL that is  *)
(* none, or that does not fit.                                             *)
(***************************************************************************)
THEOREM TtlTheorem == Spec => []LivesItsTtl
<1>1. IInv => LivesItsTtl
  BY DEF IInv
<1> QED
  BY AlwaysInv, <1>1, PTL

(***************************************************************************)
(* Redis names a file that is gone for less than the TTL, if it was cached *)
(* before it went.                                                         *)
(***************************************************************************)
THEOREM StaleTheorem == Spec => []StaleWindow
<1>1. ASSUME IInv, NEW u \in Uploads,
             entry = u, Gone(u), WellFormed(ttl), age >= goneFor[u]
      PROVE  goneFor[u] < Documented(ttl)
  <2>1. /\ entry # NoFile /\ age \in Nat /\ goneFor[u] \in Nat
        /\ left \in Int /\ left >= 1 /\ age + left = Documented(ttl)
    BY <1>1, SentinelsAssumption, BoundsAssumption
       DEF IInv, TypeOK, LeftInv, LivesItsTtl
  <2> QED
    BY <1>1, <2>1
<1>2. IInv => StaleWindow
  BY <1>1 DEF StaleWindow
<1> QED
  BY AlwaysInv, <1>2, PTL

-----------------------------------------------------------------------------
(***************************************************************************)
(* The statistics.  Quotients and remainders first, for divisors that are  *)
(* not numerals: two units of time share a slot if they are a turn apart.  *)
(***************************************************************************)

\* A number is its quotient and its remainder.
LEMMA DivMod ==
  ASSUME NEW n \in Nat \ {0}, NEW x \in Int
  PROVE  x \div n \in Int /\ x = n * (x \div n) + (x % n)
OBVIOUS

\* 0 is the only multiple less than n from 0.
LEMMA NoMultiple ==
  ASSUME NEW n \in Nat \ {0}, NEW q \in Int, n * q < n, n * q > -n
  PROVE  q = 0
<1>1. ASSUME q >= 1 PROVE FALSE
  <2>1. \A a, b \in Nat : a * b >= 0
    OBVIOUS
  <2>2. n * (q - 1) >= 0
    BY <1>1, <2>1
  <2> QED
    BY <2>2
<1>2. ASSUME q <= -1 PROVE FALSE
  <2>1. \A a, b \in Nat : a * b >= 0
    OBVIOUS
  <2>2. n * (-q - 1) >= 0
    BY <1>2, <2>1
  <2> QED
    BY <2>2
<1> QED
  BY <1>1, <1>2

\* Units less than a turn apart have slots of their own.
LEMMA SameSlot ==
  ASSUME NEW n \in Nat \ {0}, NEW a \in Int, NEW b \in Int,
         a % n = b % n, a - b < n, b - a < n
  PROVE  a = b
<1> DEFINE q == (a \div n) - (b \div n)
<1>1. q \in Int /\ n * q = a - b
  <2>1. /\ a \div n \in Int /\ b \div n \in Int
        /\ a = n * (a \div n) + (a % n) /\ b = n * (b \div n) + (b % n)
    BY DivMod
  <2>2. a % n \in Int
    BY ModRange
  <2>3. \A x, y, m \in Int : m * (x - y) = m * x - m * y
    OBVIOUS
  <2>4. n * q = n * (a \div n) - n * (b \div n)
    BY <2>1, <2>3
  <2>5. n * (a \div n) \in Int /\ n * (b \div n) \in Int
    BY <2>1
  <2> QED
    BY <2>1, <2>2, <2>4, <2>5
<1> HIDE DEF q
<1>2. q = 0
  BY <1>1, NoMultiple
<1> QED
  BY <1>1, <1>2

\* What is in the range and differs by a multiple is the remainder.
LEMMA ModUnique ==
  ASSUME NEW n \in Nat \ {0}, NEW a \in Int, NEW b \in 0..(n - 1), NEW q \in Int,
         a = n * q + b
  PROVE  a % n = b
<1>1. /\ a \div n \in Int /\ a % n \in 0..(n - 1)
      /\ a = n * (a \div n) + (a % n)
  BY DivMod, ModRange
<1>2. n * (q - (a \div n)) = n * q - n * (a \div n)
  <2>1. \A x, y, m \in Int : m * (x - y) = m * x - m * y
    OBVIOUS
  <2> QED
    BY <1>1, <2>1
<1> DEFINE p == q - (a \div n)
           nq == n * q
           na == n * (a \div n)
<1>3. p \in Int /\ nq \in Int /\ na \in Int /\ n * p = nq - na /\ a = nq + b /\ a = na + (a % n)
  BY <1>1, <1>2
<1>4. p = q - (a \div n)
  OBVIOUS
<1> HIDE DEF p, nq, na
<1>5. p = 0
  BY <1>1, <1>3, NoMultiple
<1>6. n * p = 0
  BY <1>5
<1> QED
  BY <1>1, <1>3, <1>6

\* The distance of two slots, going round, is that of their units.
LEMMA Distance ==
  ASSUME NEW n \in Nat \ {0}, NEW a \in Int, NEW b \in Int
  PROVE  ((a % n) - (b % n) - 1) % n = (a - b - 1) % n
<1> DEFINE qa == a \div n
           qb == b \div n
           c == a - b - 1
           qc == c \div n
           ra == a % n
           rb == b % n
           rc == c % n
<1>1. qa \in Int /\ a = n * qa + ra /\ ra \in 0..(n - 1)
  BY DivMod, ModRange
<1>2. qb \in Int /\ b = n * qb + rb /\ rb \in 0..(n - 1)
  BY DivMod, ModRange
<1>3. c \in Int /\ c = a - b - 1
  OBVIOUS
<1>4. qc \in Int /\ c = n * qc + rc /\ rc \in 0..(n - 1)
  <2> HIDE DEF c
  <2> QED
    BY <1>3, DivMod, ModRange
<1> HIDE DEF qa, qb, qc, ra, rb, rc, c
<1>5. n * (qc - qa + qb) = n * qc - n * qa + n * qb
  <2>1. \A x, y, z, m \in Int : m * (x - y + z) = m * x - m * y + m * z
    OBVIOUS
  <2> QED
    BY <1>1, <1>2, <1>4, <2>1
<1>6. n * qa \in Int /\ n * qb \in Int /\ n * qc \in Int
  BY <1>1, <1>2, <1>4
<1>7. ra - rb - 1 = n * (qc - qa + qb) + rc
  BY <1>1, <1>2, <1>3, <1>4, <1>5, <1>6
<1>8. ra - rb - 1 \in Int /\ qc - qa + qb \in Int
  BY <1>1, <1>2, <1>4
<1>9. (ra - rb - 1) % n = rc
  <2> DEFINE e == ra - rb - 1
             q == qc - qa + qb
  <2>1. e \in Int /\ q \in Int /\ e = n * q + rc
    BY <1>7, <1>8
  <2> HIDE DEF e, q
  <2>2. e % n = rc
    BY <1>4, <2>1, ModUnique
  <2> QED
    BY <2>2 DEF e
<1> QED
  BY <1>9 DEF ra, rb, rc, c

\* The unit of a time.
LEMMA UnitOfTime ==
  ASSUME NEW n \in Nat \ {0}, NEW x \in Nat
  PROVE  x \div n \in 0..x
<1>1. /\ x \div n \in Int /\ x % n \in 0..(n - 1) /\ x = n * (x \div n) + (x % n)
  BY DivMod, ModRange
<1> DEFINE q == x \div n
<1> HIDE DEF q
<1>2. q \in Int /\ x % n \in 0..(n - 1) /\ x = n * q + (x % n)
  BY <1>1 DEF q
<1>3. ASSUME q < 0 PROVE FALSE
  <2>1. \A a, b \in Nat : a * b >= 0
    OBVIOUS
  <2>2. n * (-q - 1) >= 0
    BY <1>2, <1>3, <2>1
  <2>3. n * (-q - 1) = -(n * q) - n
    BY <1>2
  <2> QED
    BY <1>2, <2>2, <2>3
<1>4. ASSUME q >= 0 PROVE n * q >= q
  <2>1. \A a, b \in Nat : a * b >= 0
    OBVIOUS
  <2>2. (n - 1) * q >= 0
    BY <1>2, <1>4, <2>1
  <2>3. (n - 1) * q = n * q - q
    BY <1>2
  <2> QED
    BY <1>2, <2>2, <2>3
<1>5. q >= 0 /\ q <= x
  BY <1>2, <1>3, <1>4
<1> QED
  BY <1>2, <1>5 DEF q

\* Later times are of later units.
LEMMA UnitsInOrder ==
  ASSUME NEW n \in Nat \ {0}, NEW x \in Int, NEW y \in Int, x <= y
  PROVE  x \div n <= y \div n
<1> DEFINE qx == x \div n
           qy == y \div n
<1>1. /\ qx \in Int /\ x % n \in 0..(n - 1) /\ x = n * qx + (x % n)
      /\ qy \in Int /\ y % n \in 0..(n - 1) /\ y = n * qy + (y % n)
  BY DivMod, ModRange
<1> HIDE DEF qx, qy
<1>2. ASSUME qx >= qy + 1 PROVE FALSE
  <2>1. \A a, b \in Nat : a * b >= 0
    OBVIOUS
  <2>2. n * (qx - qy - 1) >= 0
    BY <1>1, <1>2, <2>1
  <2>3. n * (qx - qy - 1) = n * qx - n * qy - n
    BY <1>1
  <2>4. n * qx \in Int /\ n * qy \in Int
    BY <1>1
  <2> QED
    BY <1>1, <2>2, <2>3, <2>4
<1>3. qx <= qy
  BY <1>1, <1>2
<1> QED
  BY <1>3 DEF qx, qy

\* The places of a sequence that hold x.
At(s, x) == {i \in DOMAIN s : s[i].val = x}

\* There are finitely many.
LEMMA AtFinite ==
  ASSUME NEW S, NEW s \in Seq(S), NEW x
  PROVE  IsFiniteSet(At(s, x)) /\ Cardinality(At(s, x)) \in Nat
<1>1. Len(s) \in Nat /\ At(s, x) \in SUBSET (1..Len(s))
  BY DEF At
<1>2. IsFiniteSet(1..Len(s))
  BY <1>1, FS_Interval
<1>3. IsFiniteSet(At(s, x))
  BY <1>1, <1>2, FS_Subset
<1> QED
  BY <1>3, FS_CardinalityType

\* A value appended is one place more.
LEMMA AtAppend ==
  ASSUME NEW S, NEW s \in Seq(S), NEW e \in S, NEW x
  PROVE  Cardinality(At(Append(s, e), x))
            = Cardinality(At(s, x)) + (IF e.val = x THEN 1 ELSE 0)
<1> DEFINE n == Len(s) + 1
<1>1. /\ Len(s) \in Nat /\ DOMAIN s = 1..Len(s) /\ DOMAIN Append(s, e) = 1..n
      /\ \A i \in 1..Len(s) : Append(s, e)[i] = s[i]
      /\ Append(s, e)[n] = e
  OBVIOUS
<1>2. n \notin At(s, x) /\ IsFiniteSet(At(s, x)) /\ Cardinality(At(s, x)) \in Nat
  <2>1. n \notin At(s, x)
    BY <1>1 DEF At
  <2> QED
    BY <2>1, AtFinite
<1>3. CASE e.val = x
  <2>1. At(Append(s, e), x) = At(s, x) \cup {n}
    BY <1>1, <1>3 DEF At
  <2> HIDE DEF n
  <2>2. Cardinality(At(s, x) \cup {n}) = Cardinality(At(s, x)) + 1
    BY <1>2, FS_AddElement
  <2> QED
    BY <1>3, <2>1, <2>2
<1>4. CASE e.val # x
  <2>1. At(Append(s, e), x) = At(s, x)
    BY <1>1, <1>4 DEF At
  <2> QED
    BY <1>2, <1>4, <2>1
<1> QED
  BY <1>3, <1>4

\* The head gone, all places move by one.
LEMMA AtTail ==
  ASSUME NEW S, NEW s \in Seq(S), s # <<>>, NEW x
  PROVE  Cardinality(At(Tail(s), x))
            = Cardinality(At(s, x)) - (IF Head(s).val = x THEN 1 ELSE 0)
<1> DEFINE T == At(Tail(s), x)
           U == At(s, x) \ {1}
           f == [i \in T |-> i + 1]
<1>1. /\ Len(s) \in Nat /\ Len(s) >= 1 /\ DOMAIN s = 1..Len(s)
      /\ DOMAIN Tail(s) = 1..(Len(s) - 1) /\ Tail(s) \in Seq(S) /\ Head(s) = s[1]
      /\ \A i \in 1..(Len(s) - 1) : Tail(s)[i] = s[i + 1]
  OBVIOUS
<1>2. /\ \A i \in T : i \in Int /\ i + 1 \in U
      /\ \A j \in U : j \in Int /\ j - 1 \in T
  BY <1>1 DEF At
<1>3. IsFiniteSet(T) /\ IsFiniteSet(At(s, x)) /\ Cardinality(At(s, x)) \in Nat
  BY <1>1, AtFinite
<1>4. 1 \in At(s, x) <=> Head(s).val = x
  BY <1>1 DEF At
<1>5. Cardinality(U) = Cardinality(At(s, x)) - (IF Head(s).val = x THEN 1 ELSE 0)
  <2>1. \A W : IsFiniteSet(W) => Cardinality(W \ {1})
           = IF 1 \in W THEN Cardinality(W) - 1 ELSE Cardinality(W)
    BY FS_RemoveElement
  <2> QED
    BY <1>3, <1>4, <2>1
<1> HIDE DEF T, U
<1>6. f \in Bijection(T, U)
  <2>1. f \in [T -> U] /\ \A i \in T : f[i] = i + 1
    BY <1>2
  <2>2. \A j \in U : j - 1 \in T /\ f[j - 1] = j
    BY <1>2, <2>1
  <2>3. \A a, b \in T : f[a] = f[b] => a = b
    BY <1>2, <2>1
  <2> HIDE DEF f
  <2>4. f \in Injection(T, U)
    BY <2>1, <2>3 DEF Injection, IsInjective
  <2>5. f \in Surjection(T, U)
    BY <2>1, <2>2 DEF Surjection
  <2> QED
    BY <2>4, <2>5 DEF Bijection
<1>7. Cardinality(U) = Cardinality(T)
  <2>1. ExistsBijection(T, U)
    BY <1>6 DEF ExistsBijection
  <2> QED
    BY <1>3, <2>1, FS_Bijection
<1> QED
  BY <1>5, <1>7 DEF T

\* The rings: last, values and counts of n slots.
RingOf(n) == [last : -1..(n - 1), values : [0..(n - 1) -> Int], counts : [0..(n - 1) -> Int]]

\* Add keeps a ring one.
LEMMA AddType ==
  ASSUME NEW n \in Nat \ {0}, NEW g \in RingOf(n), NEW index \in 0..(n - 1), NEW val \in Int
  PROVE  Add(g, index, val, n) \in RingOf(n)
<1> DEFINE Emptied(f) == [i \in DOMAIN f |-> IF i \in Passed(g.last, index, n) THEN 0 ELSE f[i]]
           h == Add(g, index, val, n)
<1>1. g.values \in [0..(n - 1) -> Int] /\ g.counts \in [0..(n - 1) -> Int]
  BY DEF RingOf
<1>2. Emptied(g.values) \in [0..(n - 1) -> Int] /\ Emptied(g.counts) \in [0..(n - 1) -> Int]
  BY <1>1
<1>3. h = [last |-> index, values |-> [Emptied(g.values) EXCEPT ![index] = @ + val],
           counts |-> [Emptied(g.counts) EXCEPT ![index] = @ + 1]]
  BY DEF Add
<1> HIDE DEF Emptied, h
<1>4. /\ [Emptied(g.values) EXCEPT ![index] = @ + val] \in [0..(n - 1) -> Int]
      /\ [Emptied(g.counts) EXCEPT ![index] = @ + 1] \in [0..(n - 1) -> Int]
  BY <1>2
<1>5. index \in -1..(n - 1)
  OBVIOUS
<1>6. h \in RingOf(n)
  BY <1>3, <1>4, <1>5 DEF RingOf
<1> QED
  BY <1>6 DEF h

\* What Add does to a slot, and where it leaves the ring.
LEMMA AddValue ==
  ASSUME NEW n \in Nat \ {0}, NEW g \in RingOf(n), NEW index \in 0..(n - 1), NEW val \in Int,
         NEW i \in 0..(n - 1)
  PROVE  /\ Add(g, index, val, n).last = index
         /\ Add(g, index, val, n).values[i]
               = (IF i \in Passed(g.last, index, n) THEN 0 ELSE g.values[i])
                 + (IF i = index THEN val ELSE 0)
<1> DEFINE Emptied(f) == [j \in DOMAIN f |-> IF j \in Passed(g.last, index, n) THEN 0 ELSE f[j]]
           e == Emptied(g.values)
<1>1. g.values \in [0..(n - 1) -> Int]
  BY DEF RingOf
<1>2. /\ e \in [0..(n - 1) -> Int]
      /\ e[i] = IF i \in Passed(g.last, index, n) THEN 0 ELSE g.values[i]
  BY <1>1
<1>3. /\ Add(g, index, val, n).last = index
      /\ Add(g, index, val, n).values = [e EXCEPT ![index] = @ + val]
  BY DEF Add
<1> HIDE DEF e
<1>4. [e EXCEPT ![index] = @ + val][i] = e[i] + (IF i = index THEN val ELSE 0)
  BY <1>2
<1> QED
  BY <1>2, <1>3, <1>4

-----------------------------------------------------------------------------
(***************************************************************************)
(* The loop of RoundRobinCounter.Add.                                      *)
(***************************************************************************)

\* Its body: the next slot, going round, is emptied.
NextSlot(last, n) == (last + 1) % n
Turn(g, n) ==
    LET next == NextSlot(g.last, n)
    IN  [last |-> next, values |-> [g.values EXCEPT ![next] = 0],
         counts |-> [g.counts EXCEPT ![next] = 0]]

\* What follows it, and how often its body is still to run.
Bump(g, index, val) ==
    [last |-> g.last, values |-> [g.values EXCEPT ![index] = @ + val],
     counts |-> [g.counts EXCEPT ![index] = @ + 1]]
TurnsLeft(g, index, n) == IF g.last = index THEN 0 ELSE ((index - g.last - 1) % n) + 1

\* The remainder of the number before.
LEMMA ModPred ==
  ASSUME NEW n \in Nat \ {0}, NEW x \in Int
  PROVE  (x - 1) % n = IF x % n = 0 THEN n - 1 ELSE (x % n) - 1
<1> DEFINE q == x \div n
           a == x % n
           y == x - 1
<1>1. q \in Int /\ a \in 0..(n - 1) /\ x = n * q + a /\ n * q \in Int
  BY DivMod, ModRange
<1>2. y \in Int /\ y = x - 1
  OBVIOUS
<1> HIDE DEF q, a, y
<1>3. CASE a = 0
  <2> DEFINE p == q - 1
  <2>1. n * (q - 1) = n * q - n
    BY <1>1
  <2>2. p \in Int /\ y = n * p + (n - 1) /\ n - 1 \in 0..(n - 1)
    BY <1>1, <1>2, <1>3, <2>1
  <2> HIDE DEF p
  <2>3. y % n = n - 1
    BY <1>2, <2>2, ModUnique
  <2> QED
    BY <1>3, <2>3 DEF a, y
<1>4. CASE a # 0
  <2> DEFINE b == a - 1
  <2>1. b \in 0..(n - 1) /\ y = n * q + b
    BY <1>1, <1>2, <1>4
  <2> HIDE DEF b
  <2>2. y % n = b
    BY <1>1, <1>2, <2>1, ModUnique
  <2> QED
    BY <1>4, <2>2 DEF a, b, y
<1> QED
  BY <1>3, <1>4

\* The way from a slot to any other, and from the slot after it.
LEMMA OneOn ==
  ASSUME NEW n \in Nat \ {0}, NEW last \in Int
  PROVE  /\ NextSlot(last, n) \in 0..(n - 1)
         /\ \A i \in 0..(n - 1) :
               /\ (i - last - 1) % n \in 0..(n - 1)
               /\ (i - last - 1) % n = 0 <=> i = NextSlot(last, n)
               /\ i # NextSlot(last, n) =>
                     (i - NextSlot(last, n) - 1) % n = ((i - last - 1) % n) - 1
<1> DEFINE next == NextSlot(last, n)
<1>0. next \in 0..(n - 1) /\ next = (last + 1) % n
  <2> DEFINE l == last + 1
  <2>1. l \in Int
    OBVIOUS
  <2> HIDE DEF l
  <2>2. l % n \in 0..(n - 1)
    BY <2>1, ModRange
  <2> QED
    BY <2>2 DEF l, NextSlot
<1> SUFFICES ASSUME NEW i \in 0..(n - 1)
             PROVE  /\ (i - last - 1) % n \in 0..(n - 1)
                    /\ (i - last - 1) % n = 0 <=> i = next
                    /\ i # next => (i - next - 1) % n = ((i - last - 1) % n) - 1
  BY <1>0
<1> DEFINE x == i - last - 1
           a == x % n
           y == i - next - 1
           l == last + 1
<1>1. l \in Int /\ l = last + 1 /\ x \in Int /\ x = i - last - 1 /\ i \in Int
  OBVIOUS
<1>2. next \in 0..(n - 1) /\ next = l % n
  BY <1>0
<1>3. y \in Int /\ y = i - next - 1
  BY <1>2
<1> HIDE DEF x, y, l, next
<1>4. a \in 0..(n - 1)
  BY <1>1, ModRange
<1>5. y % n = (x - 1) % n
  <2>1. ((i % n) - (l % n) - 1) % n = (i - l - 1) % n
    BY <1>1, Distance
  <2>2. i % n = i /\ l % n = next
    BY <1>1, <1>2, ModSmall
  <2>3. i - l - 1 = x - 1
    BY <1>1
  <2> QED
    BY <1>3, <2>1, <2>2, <2>3
<1>6. (x - 1) % n = IF a = 0 THEN n - 1 ELSE a - 1
  BY <1>1, ModPred
<1> HIDE DEF a
<1>7. y % n = n - 1 <=> i = next
  <2>1. CASE i = next
    <3> DEFINE b == n - 1
    <3>1. y = n * (-1) + b /\ b \in 0..(n - 1)
      BY <1>2, <1>3, <2>1
    <3> HIDE DEF b
    <3>2. y % n = b
      BY <1>3, <3>1, ModUnique
    <3> QED
      BY <2>1, <3>2 DEF b
  <2>2. CASE i > next
    <3>1. y \in 0..(n - 1) /\ y # n - 1
      BY <1>2, <1>3, <2>2
    <3>2. y % n = y
      BY <3>1, ModSmall
    <3> QED
      BY <1>2, <2>2, <3>1, <3>2
  <2>3. CASE i < next
    <3> DEFINE b == y + n
    <3>1. y = n * (-1) + b /\ b \in 0..(n - 1) /\ b # n - 1
      BY <1>2, <1>3, <2>3
    <3> HIDE DEF b
    <3>2. y % n = b
      BY <1>3, <3>1, ModUnique
    <3> QED
      BY <1>2, <2>3, <3>1, <3>2
  <2> QED
    BY <1>1, <1>2, <2>1, <2>2, <2>3
<1>8. a = 0 <=> i = next
  BY <1>4, <1>5, <1>6, <1>7
<1> QED
  BY <1>2, <1>4, <1>5, <1>6, <1>8 DEF a, x, y

\* A turn takes the slot it empties from those that are passed.
LEMMA PassedByTurn ==
  ASSUME NEW n \in Nat \ {0}, NEW last \in -1..(n - 1), NEW index \in 0..(n - 1),
         last # index
  PROVE  /\ \A i \in 0..(n - 1) :
               i \in Passed(last, index, n)
               <=> i = NextSlot(last, n) \/ i \in Passed(NextSlot(last, n), index, n)
         /\ NextSlot(last, n) \notin Passed(NextSlot(last, n), index, n)
<1> DEFINE next == NextSlot(last, n)
<1>0. \A i \in 0..(n - 1) :
         /\ next \in 0..(n - 1)
         /\ (i - last - 1) % n \in 0..(n - 1)
         /\ (i - last - 1) % n = 0 <=> i = next
         /\ i # next => (i - next - 1) % n = ((i - last - 1) % n) - 1
  <2>1. last \in Int
    OBVIOUS
  <2> QED
    BY <2>1, OneOn
<1> HIDE DEF next
<1> DEFINE a(i) == (i - last - 1) % n
           b(i) == (i - next - 1) % n
<1>1. \A i \in 0..(n - 1) : /\ next \in 0..(n - 1) /\ a(i) \in 0..(n - 1)
                            /\ a(i) = 0 <=> i = next
                            /\ i # next => b(i) = a(i) - 1
  BY <1>0
<1>2. next \in 0..(n - 1)
  BY <1>1
<1>3. \A i \in 0..(n - 1) : i \in Passed(last, index, n) <=> a(i) <= a(index)
  BY DEF Passed
<1>4. \A i \in 0..(n - 1) : i \in Passed(next, index, n) <=> next # index /\ b(i) <= b(index)
  BY DEF Passed
<1>5. b(next) = n - 1
  <2> DEFINE y == next - next - 1
  <2>1. y = n * (-1) + (n - 1) /\ n - 1 \in 0..(n - 1) /\ y \in Int
    BY <1>2
  <2> HIDE DEF y
  <2>2. y % n = n - 1
    BY <2>1, ModUnique
  <2> QED
    BY <2>2 DEF y
<1> HIDE DEF a, b
<1>6. next \notin Passed(next, index, n)
  <2>1. CASE next = index
    BY <1>2, <1>4, <2>1
  <2>2. CASE next # index
    <3>1. b(index) = a(index) - 1 /\ a(index) <= n - 1 /\ a(index) \in Int
      BY <1>1, <2>2
    <3> QED
      BY <1>2, <1>4, <1>5, <3>1
  <2> QED
    BY <2>1, <2>2
<1>7. ASSUME NEW i \in 0..(n - 1)
      PROVE  i \in Passed(last, index, n) <=> i = next \/ i \in Passed(next, index, n)
  <2>1. a(i) \in 0..(n - 1) /\ a(index) \in 0..(n - 1)
    BY <1>1
  <2>2. CASE i = next
    BY <1>1, <1>3, <2>1, <2>2
  <2>3. CASE i # next /\ next = index
    BY <1>1, <1>3, <1>4, <2>1, <2>3
  <2>4. CASE i # next /\ next # index
    BY <1>1, <1>3, <1>4, <2>1, <2>4
  <2> QED
    BY <2>2, <2>3, <2>4
<1> QED
  BY <1>6, <1>7 DEF next

\* A function changed at a place keeps its type.
LEMMA UpdateType ==
  ASSUME NEW S, NEW R, NEW f \in [S -> R], NEW x \in S, NEW v \in R
  PROVE  [f EXCEPT ![x] = v] \in [S -> R]
OBVIOUS

(***************************************************************************)
(* Add is what the loop of RoundRobinCounter.Add computes, for a ring of   *)
(* any number of slots: once it has ended nothing but the addition is      *)
(* left, each turn of it leaves the result as it is, and one turn less is  *)
(* to be made after it, so that it does end.                               *)
(***************************************************************************)
THEOREM LoopTheorem ==
  ASSUME NEW n \in Nat \ {0}, NEW g \in RingOf(n), NEW index \in 0..(n - 1), NEW val \in Int
  PROVE  /\ g.last = index => Add(g, index, val, n) = Bump(g, index, val)
         /\ g.last # index => /\ Turn(g, n) \in RingOf(n)
                              /\ Add(Turn(g, n), index, val, n) = Add(g, index, val, n)
                              /\ TurnsLeft(Turn(g, n), index, n) = TurnsLeft(g, index, n) - 1
         /\ TurnsLeft(g, index, n) \in Nat
<1> DEFINE next == NextSlot(g.last, n)
           h == Turn(g, n)
           Emptied(k, f) == [i \in DOMAIN f |-> IF i \in Passed(k.last, index, n) THEN 0 ELSE f[i]]
<1>1. /\ g.last \in -1..(n - 1) /\ g.last \in Int
      /\ g.values \in [0..(n - 1) -> Int] /\ g.counts \in [0..(n - 1) -> Int]
  BY DEF RingOf
<1>2. \A k : Add(k, index, val, n)
               = [last |-> index, values |-> [Emptied(k, k.values) EXCEPT ![index] = @ + val],
                  counts |-> [Emptied(k, k.counts) EXCEPT ![index] = @ + 1]]
  BY DEF Add
<1>3. h.last = next /\ h.values = [g.values EXCEPT ![next] = 0]
      /\ h.counts = [g.counts EXCEPT ![next] = 0]
      /\ h = [last |-> next, values |-> [g.values EXCEPT ![next] = 0],
              counts |-> [g.counts EXCEPT ![next] = 0]]
  BY DEF Turn
<1>4. next = NextSlot(g.last, n) /\ next \in 0..(n - 1) /\ (index - g.last - 1) % n \in 0..(n - 1)
  BY <1>1, OneOn
<1> DEFINE D == 0..(n - 1)
<1>d. g.values \in [D -> Int] /\ g.counts \in [D -> Int] /\ next \in D
  BY <1>1, <1>4
<1> HIDE DEF next, D
<1>5. TurnsLeft(g, index, n) \in Nat
  BY <1>4 DEF TurnsLeft
<1>6. g.last = index => Add(g, index, val, n) = Bump(g, index, val)
  <2> SUFFICES ASSUME g.last = index PROVE Add(g, index, val, n) = Bump(g, index, val)
    OBVIOUS
  <2>1. Emptied(g, g.values) = g.values /\ Emptied(g, g.counts) = g.counts
    BY <1>1 DEF Passed
  <2> HIDE DEF Emptied
  <2> QED
    BY <1>2, <2>1 DEF Bump
<1>7. ASSUME g.last # index
      PROVE  /\ h \in RingOf(n)
             /\ Add(h, index, val, n) = Add(g, index, val, n)
             /\ TurnsLeft(h, index, n) = TurnsLeft(g, index, n) - 1
  <2>1. h \in RingOf(n)
    <3>1. next \in -1..(n - 1)
      BY <1>4
    <3>2. /\ [g.values EXCEPT ![next] = 0] \in [0..(n - 1) -> Int]
          /\ [g.counts EXCEPT ![next] = 0] \in [0..(n - 1) -> Int]
      <4>2. [g.values EXCEPT ![next] = 0] \in [D -> Int] /\ [g.counts EXCEPT ![next] = 0] \in [D -> Int]
        BY <1>d, UpdateType
      <4> QED
        BY <4>2 DEF D
    <3> QED
      BY <1>3, <3>1, <3>2 DEF RingOf
  <2>2. /\ \A i \in 0..(n - 1) :
              i \in Passed(g.last, index, n) <=> i = next \/ i \in Passed(next, index, n)
        /\ next \notin Passed(next, index, n)
    <3> HIDE DEF h
    <3> QED
      BY <1>1, <1>7, PassedByTurn DEF next
  <2>3. Emptied(h, h.values) = Emptied(g, g.values) /\ Emptied(h, h.counts) = Emptied(g, g.counts)
    <3> HIDE DEF h
    <3> QED
      BY <1>1, <1>3, <1>4, <2>2
  <2>4. Add(h, index, val, n) = Add(g, index, val, n)
    <3> HIDE DEF h, Emptied
    <3> QED
      BY <1>2, <2>3
  <2>5. TurnsLeft(h, index, n) = TurnsLeft(g, index, n) - 1
    <3> DEFINE a == (index - g.last - 1) % n
               b == (index - next - 1) % n
    <3>1. /\ a \in 0..(n - 1) /\ (a = 0 <=> index = next)
          /\ (index # next => b = a - 1)
      <4> DEFINE l == g.last
                 m == next
      <4>1. l \in Int /\ m = NextSlot(l, n)
        BY <1>1, <1>4
      <4> HIDE DEF l, m
      <4>2. /\ (index - l - 1) % n \in 0..(n - 1)
            /\ (index - l - 1) % n = 0 <=> index = m
            /\ index # m => (index - m - 1) % n = ((index - l - 1) % n) - 1
        BY <4>1, OneOn
      <4> QED
        BY <4>2 DEF l, m
    <3>2. TurnsLeft(g, index, n) = a + 1
      BY <1>7 DEF TurnsLeft
    <3>3. TurnsLeft(h, index, n) = IF next = index THEN 0 ELSE b + 1
      BY <1>3 DEF TurnsLeft
    <3> HIDE DEF a, b, h
    <3> QED
      BY <3>1, <3>2, <3>3
  <2> QED
    BY <2>1, <2>4, <2>5
<1> QED
  BY <1>5, <1>6, <1>7

-----------------------------------------------------------------------------
\* What the slots of a ring hold.

\* The slots passed on the way from one unit to a later one, less than a turn
\* away, are those of the units after the first.
LEMMA PassedUnits ==
  ASSUME NEW n \in Nat \ {0}, NEW top \in Int, NEW new \in Int, new - top \in 0..(n - 1),
         NEW u \in (new - n + 1)..new
  PROVE  u % n \in Passed(top % n, new % n, n) <=> u > top
<1>1. u \in Int /\ u <= new /\ new - u < n
  OBVIOUS
<1>2. /\ ((u % n) - (top % n) - 1) % n = (u - top - 1) % n
      /\ ((new % n) - (top % n) - 1) % n = (new - top - 1) % n
  BY <1>1, Distance
<1>3. u % n \in 0..(n - 1)
  BY <1>1, ModRange
<1>4. CASE new = top
  BY <1>1, <1>4 DEF Passed
<1>5. CASE new # top
  <2>1. top % n # new % n
    <3>1. new - top < n /\ top - new < n
      OBVIOUS
    <3> QED
      BY <1>5, <3>1, SameSlot
  <2>2. (new - top - 1) % n = new - top - 1
    <3>1. new - top - 1 \in 0..(n - 1)
      BY <1>5
    <3> QED
      BY <3>1, ModSmall
  <2>3. u % n \in Passed(top % n, new % n, n) <=> (u - top - 1) % n <= new - top - 1
    BY <1>2, <1>3, <2>1, <2>2 DEF Passed
  <2>4. CASE u > top
    <3>1. u - top - 1 \in 0..(n - 1)
      BY <1>1, <2>4
    <3>2. (u - top - 1) % n = u - top - 1
      BY <3>1, ModSmall
    <3> QED
      BY <1>1, <2>3, <2>4, <3>2
  <2>5. CASE ~(u > top)
    <3> DEFINE e == u - top - 1
               b == e + n
    <3>1. e \in Int /\ b \in 0..(n - 1) /\ e = n * (-1) + b /\ b > new - top - 1
      BY <1>1, <2>5
    <3> HIDE DEF b, e
    <3>2. e % n = b
      BY <3>1, ModUnique
    <3> QED
      BY <2>3, <2>5, <3>1, <3>2 DEF e
  <2> QED
    BY <2>4, <2>5
<1> QED
  BY <1>4, <1>5

\* A ring holds the last n units up to top of what f has of each.
Window(g, f, top, n) ==
    \A u \in (top - n + 1)..top : g.values[u % n] = IF u < 0 THEN 0 ELSE f[u]

\* A value in turn keeps it so.
LEMMA WindowMoves ==
  ASSUME NEW n \in Nat \ {0}, NEW g \in RingOf(n), NEW f \in [0..MaxTime -> Int],
         NEW top \in Nat, NEW new \in 0..MaxTime, NEW val \in Int,
         new - top \in 0..(n - 1), g.last = top % n,
         \A u \in 0..MaxTime : u > top => f[u] = 0,
         Window(g, f, top, n)
  PROVE  Window(Add(g, new % n, val, n), Plus(f, new, val), new, n)
<1> SUFFICES ASSUME NEW u \in (new - n + 1)..new
             PROVE  Add(g, new % n, val, n).values[u % n]
                       = IF u < 0 THEN 0 ELSE Plus(f, new, val)[u]
  BY DEF Window
<1> DEFINE i == u % n
           index == new % n
<1>1. /\ u \in Int /\ new \in Int /\ top \in Int /\ MaxTime \in Nat
      /\ u <= new /\ new - u < n /\ new >= 0 /\ new <= MaxTime /\ new >= top
  BY BoundsOfStats
<1>2. i \in 0..(n - 1) /\ index \in 0..(n - 1)
  BY <1>1, ModRange
<1>3. i = index <=> u = new
  <2>1. i = index => u = new
    <3>1. new - u < n /\ u - new < n
      BY <1>1
    <3> QED
      BY <1>1, <3>1, SameSlot
  <2> QED
    BY <2>1
<1>4. i \in Passed(g.last, index, n) <=> u > top
  BY <1>1, PassedUnits
<1>5. u <= top => g.values[i] = IF u < 0 THEN 0 ELSE f[u]
  <2>1. u <= top => u \in (top - n + 1)..top
    BY <1>1
  <2> QED
    BY <2>1 DEF Window
<1>6. u >= 0 => /\ u \in 0..MaxTime /\ f[u] \in Int
                /\ Plus(f, new, val)[u] = f[u] + (IF u = new THEN val ELSE 0)
  BY <1>1 DEF Plus
<1>7. u > top => f[u] = 0 /\ u >= 0
  BY <1>1, <1>6
<1>8. Add(g, index, val, n).values[i]
         = (IF u > top THEN 0 ELSE g.values[i]) + (IF u = new THEN val ELSE 0)
  <2> HIDE DEF i, index
  <2>1. Add(g, index, val, n).values[i]
           = (IF i \in Passed(g.last, index, n) THEN 0 ELSE g.values[i])
             + (IF i = index THEN val ELSE 0)
    BY <1>2, AddValue
  <2> QED
    BY <1>3, <1>4, <2>1
<1> DEFINE a == Add(g, index, val, n).values[i]
           b == g.values[i]
           e == Plus(f, new, val)[u]
           fu == f[u]
<1> HIDE DEF i, index, a, b, e, fu
<1>9. Add(g, index, val, n).values[i] = IF u < 0 THEN 0 ELSE Plus(f, new, val)[u]
  <2>1. /\ a = (IF u > top THEN 0 ELSE b) + (IF u = new THEN val ELSE 0)
        /\ u <= top => b = IF u < 0 THEN 0 ELSE fu
        /\ u >= 0 => fu \in Int /\ e = fu + (IF u = new THEN val ELSE 0)
        /\ u > top => fu = 0 /\ u >= 0
    BY <1>5, <1>6, <1>7, <1>8 DEF a, b, e, fu
  <2>2. a = IF u < 0 THEN 0 ELSE e
    BY <1>1, <2>1
  <2> QED
    BY <2>2 DEF a, e
<1> QED
  BY <1>9 DEF i, index

\* The first value opens it.
LEMMA WindowOpens ==
  ASSUME NEW n \in Nat \ {0}, NEW g \in RingOf(n), NEW f \in [0..MaxTime -> Int],
         NEW new \in 0..MaxTime, NEW val \in Int,
         \A i \in 0..(n - 1) : g.values[i] = 0, \A u \in 0..MaxTime : f[u] = 0
  PROVE  Window(Add(g, new % n, val, n), Plus(f, new, val), new, n)
<1> SUFFICES ASSUME NEW u \in (new - n + 1)..new
             PROVE  Add(g, new % n, val, n).values[u % n]
                       = IF u < 0 THEN 0 ELSE Plus(f, new, val)[u]
  BY DEF Window
<1> DEFINE i == u % n
           index == new % n
<1>1. /\ u \in Int /\ new \in Int /\ MaxTime \in Nat
      /\ u <= new /\ new - u < n /\ new >= 0 /\ new <= MaxTime
  BY BoundsOfStats
<1>2. i \in 0..(n - 1) /\ index \in 0..(n - 1)
  BY <1>1, ModRange
<1>3. i = index <=> u = new
  <2>1. i = index => u = new
    <3>1. new - u < n /\ u - new < n
      BY <1>1
    <3> QED
      BY <1>1, <3>1, SameSlot
  <2> QED
    BY <2>1
<1>4. u >= 0 => Plus(f, new, val)[u] = IF u = new THEN val ELSE 0
  <2>1. u >= 0 => u \in 0..MaxTime
    BY <1>1
  <2> QED
    BY <2>1 DEF Plus
<1>5. g.values[i] = 0
  BY <1>2
<1>6. Add(g, index, val, n).values[i] = IF u = new THEN val ELSE 0
  <2>1. Add(g, index, val, n).values[i]
           = (IF i \in Passed(g.last, index, n) THEN 0 ELSE g.values[i])
             + (IF i = index THEN val ELSE 0)
    BY <1>2, AddValue
  <2> QED
    BY <1>3, <1>5, <2>1
<1> QED
  BY <1>1, <1>4, <1>6

-----------------------------------------------------------------------------
\* Who is about to send knows what and where to.
SendInv == \A c \in Conns :
    /\ conn[c] = "opening" => value[c].to = "Connections" /\ value[c].val = 1
    /\ conn[c] = "closing" => value[c].to = "Connections" /\ value[c].val = -1
    /\ conn[c] = "moving" => value[c].to \in Transfers

\* Connections are opened and closed one at a time.
ChanInv == \A i \in DOMAIN chan["Connections"] : chan["Connections"][i].val \in {1, -1}

\* Before the first value a ring is empty, and nothing is counted for units to
\* come.
NothingAhead == \A k \in Counters, r \in Rings :
    /\ newest[k] = -1 => \A i \in 0..(Slots[r] - 1) : ring[k][r].values[i] = 0
    /\ \A u \in 0..MaxTime :
          newest[k] = -1 \/ u > newest[k] \div Unit[r] => got[k][r][u] = 0

\* The slot a ring is turned to is that of the newest value.
LastIsNewest == \A k \in Counters, r \in Rings :
    newest[k] >= 0 /\ <<k, r>> \notin disorder => ring[k][r].last = Index(newest[k], r)

RingInv == NothingAhead /\ LastIsNewest /\ RingIsWindow
CountInv == SendInv /\ ChanInv /\ IsFiniteSet(Open) /\ NothingLost
StatsInv == StatsTypeOK /\ CountInv /\ RingInv

\* The slots and units of a ring.
LEMMA RingConstants ==
  ASSUME NEW r \in Rings
  PROVE  Slots[r] \in Nat \ {0} /\ Unit[r] \in Nat \ {0}
BY RingsAssumption

\* A unit is a time, and its slot one of the ring.
LEMMA IndexRange ==
  ASSUME NEW r \in Rings, NEW t \in 0..MaxTime
  PROVE  /\ t \div Unit[r] \in 0..MaxTime
         /\ Index(t, r) \in 0..(Slots[r] - 1)
<1>1. t \in Nat /\ t <= MaxTime /\ MaxTime \in Nat
  BY BoundsOfStats
<1>2. t \div Unit[r] \in 0..t
  BY <1>1, RingConstants, UnitOfTime
<1>3. t \div Unit[r] \in 0..MaxTime
  BY <1>1, <1>2
<1>4. (t \div Unit[r]) % Slots[r] \in 0..(Slots[r] - 1)
  <2> DEFINE u == t \div Unit[r]
  <2>1. u \in Int
    BY <1>2
  <2> HIDE DEF u
  <2>2. u % Slots[r] \in 0..(Slots[r] - 1)
    BY <2>1, RingConstants, ModRange
  <2> QED
    BY <2>2 DEF u
<1> QED
  BY <1>3, <1>4 DEF Index

\* What a value that is received changes, counter by counter.
LEMMA Received ==
  ASSUME StatsTypeOK, NEW k \in Counters, Receive(k), NEW v, v = Head(chan[k])
  PROVE  /\ v \in [t : 0..MaxTime, val : Int]
         /\ chan[k] # <<>> /\ chan' = [chan EXCEPT ![k] = Tail(@)]
         /\ DOMAIN ring' = Counters /\ \A j \in Counters : DOMAIN ring'[j] = Rings
         /\ \A j \in Counters, r \in Rings : ring'[j][r]
               = IF j = k THEN Add(ring[j][r], Index(v.t, r), v.val, Slots[r]) ELSE ring[j][r]
         /\ \A j \in Counters : total'[j] = IF j = k THEN total[j] + v.val ELSE total[j]
         /\ \A j \in Counters : newest'[j] = IF j = k /\ v.t > newest[j] THEN v.t ELSE newest[j]
         /\ \A j \in Counters, r \in Rings : got'[j][r]
               = IF j = k THEN Plus(got[j][r], v.t \div Unit[r], v.val) ELSE got[j][r]
         /\ disorder \subseteq disorder'
         /\ \A r \in Rings : OutOfTurn(k, r, v.t) => <<k, r>> \in disorder'
<1>1. chan[k] \in Seq([t : 0..MaxTime, val : Int]) /\ chan[k] # <<>>
  BY DEF StatsTypeOK, Receive
<1>2. v \in [t : 0..MaxTime, val : Int]
  <2>1. \A S : \A s \in Seq(S) : s # <<>> => Head(s) \in S
    OBVIOUS
  <2> QED
    BY <1>1, <2>1
<1>3. /\ chan' = [chan EXCEPT ![k] = Tail(@)]
      /\ ring' = [ring EXCEPT ![k] =
            [r \in Rings |-> Add(@[r], Index(v.t, r), v.val, Slots[r])]]
      /\ total' = [total EXCEPT ![k] = @ + v.val]
      /\ got' = [got EXCEPT ![k] = [r \in Rings |-> Plus(@[r], v.t \div Unit[r], v.val)]]
      /\ newest' = [newest EXCEPT ![k] = IF v.t > @ THEN v.t ELSE @]
      /\ disorder' = disorder \cup {<<k, r>> : r \in {x \in Rings : OutOfTurn(k, x, v.t)}}
  BY DEF Receive
<1>4. /\ DOMAIN ring' = Counters /\ \A j \in Counters : DOMAIN ring'[j] = Rings
      /\ \A j \in Counters, r \in Rings : ring'[j][r]
            = IF j = k THEN Add(ring[j][r], Index(v.t, r), v.val, Slots[r]) ELSE ring[j][r]
  <2>1. DOMAIN ring = Counters /\ \A j \in Counters : DOMAIN ring[j] = Rings
    BY DEF StatsTypeOK
  <2> DEFINE e == [r \in Rings |-> Add(ring[k][r], Index(v.t, r), v.val, Slots[r])]
  <2>2. ring' = [ring EXCEPT ![k] = e]
    BY <1>3
  <2>3. DOMAIN e = Rings /\ \A r \in Rings : e[r] = Add(ring[k][r], Index(v.t, r), v.val, Slots[r])
    OBVIOUS
  <2> HIDE DEF e
  <2>4. DOMAIN ring' = Counters /\ \A j \in Counters : ring'[j] = IF j = k THEN e ELSE ring[j]
    BY <2>1, <2>2
  <2> QED
    BY <2>1, <2>3, <2>4
<1>5. \A j \in Counters : total'[j] = IF j = k THEN total[j] + v.val ELSE total[j]
  BY <1>3 DEF StatsTypeOK
<1>6. \A j \in Counters : newest'[j] = IF j = k /\ v.t > newest[j] THEN v.t ELSE newest[j]
  BY <1>3 DEF StatsTypeOK
<1>7. \A j \in Counters, r \in Rings : got'[j][r]
         = IF j = k THEN Plus(got[j][r], v.t \div Unit[r], v.val) ELSE got[j][r]
  <2>1. got \in [Counters -> [Rings -> [0..MaxTime -> Int]]]
    BY DEF StatsTypeOK
  <2> DEFINE e == [r \in Rings |-> Plus(got[k][r], v.t \div Unit[r], v.val)]
  <2>2. got' = [got EXCEPT ![k] = e]
    BY <1>3
  <2>3. \A r \in Rings : e[r] = Plus(got[k][r], v.t \div Unit[r], v.val)
    OBVIOUS
  <2> HIDE DEF e
  <2>4. \A j \in Counters : got'[j] = IF j = k THEN e ELSE got[j]
    BY <2>1, <2>2
  <2> QED
    BY <2>3, <2>4
<1>8. disorder \subseteq disorder' /\ \A r \in Rings : OutOfTurn(k, r, v.t) => <<k, r>> \in disorder'
  BY <1>3
<1> QED
  BY <1>1, <1>2, <1>3, <1>4, <1>5, <1>6, <1>7, <1>8

\* The history of a ring, with a value more.
LEMMA PlusType ==
  ASSUME NEW f \in [0..MaxTime -> Int], NEW u \in 0..MaxTime, NEW val \in Int
  PROVE  /\ Plus(f, u, val) \in [0..MaxTime -> Int]
         /\ \A i \in 0..MaxTime : Plus(f, u, val)[i] = f[i] + (IF i = u THEN val ELSE 0)
BY DEF Plus

\* The types of one ring.
LEMMA TypedRing ==
  ASSUME StatsTypeOK, NEW k \in Counters, NEW r \in Rings
  PROVE  /\ ring[k][r] \in RingOf(Slots[r]) /\ got[k][r] \in [0..MaxTime -> Int]
         /\ newest[k] \in -1..MaxTime
BY DEF StatsTypeOK, RingOf

\* The newest value after one of time t.
Newer(m, t) == IF t > m THEN t ELSE m

\* The ring r of the counter that receives a value.
LEMMA RingReceives ==
  ASSUME StatsTypeOK, RingInv, NEW k \in Counters, NEW r \in Rings,
         NEW t \in 0..MaxTime, NEW val \in Int
  PROVE  LET u == t \div Unit[r]
             g == Add(ring[k][r], Index(t, r), val, Slots[r])
             f == Plus(got[k][r], u, val)
             m == Newer(newest[k], t)
         IN  /\ m \in 0..MaxTime
             /\ \A i \in 0..MaxTime : i > m \div Unit[r] => f[i] = 0
             /\ <<k, r>> \notin disorder /\ ~OutOfTurn(k, r, t) =>
                   g.last = Index(m, r) /\ Window(g, f, m \div Unit[r], Slots[r])
<1> DEFINE n == Slots[r]
           u == t \div Unit[r]
           top == newest[k] \div Unit[r]
           g == Add(ring[k][r], Index(t, r), val, n)
           f == Plus(got[k][r], u, val)
           m == Newer(newest[k], t)
           new == m \div Unit[r]
<1>1. /\ n \in Nat \ {0} /\ Unit[r] \in Nat \ {0} /\ MaxTime \in Nat
      /\ ring[k][r] \in RingOf(n) /\ got[k][r] \in [0..MaxTime -> Int]
      /\ newest[k] \in -1..MaxTime
  BY RingConstants, TypedRing, BoundsOfStats
<1>2. u \in 0..MaxTime /\ u = t \div Unit[r] /\ Index(t, r) = u % n /\ u % n \in 0..(n - 1)
  BY <1>1, IndexRange DEF Index
<1>3. m \in 0..MaxTime /\ m >= t /\ m >= newest[k] /\ (m = t \/ m = newest[k])
  BY <1>1 DEF Newer
<1>4. new \in 0..MaxTime /\ new = m \div Unit[r] /\ Index(m, r) = new % n
  BY <1>3, IndexRange DEF Index
<1>o. \A x, y \in 0..MaxTime : x <= y => x \div Unit[r] <= y \div Unit[r]
  <2>1. Unit[r] \in Nat \ {0}
    BY <1>1
  <2>2. \A x, y \in Int : x <= y => x \div Unit[r] <= y \div Unit[r]
    BY <2>1, UnitsInOrder
  <2> QED
    BY <1>1, <2>2
<1>5. u <= new
  BY <1>1, <1>3, <1>o
<1>6. newest[k] # -1 => top \in 0..MaxTime /\ top <= new /\ top = newest[k] \div Unit[r]
                        /\ Index(newest[k], r) = top % n
  <2>1. newest[k] # -1 => newest[k] \in 0..MaxTime
    BY <1>1
  <2>2. newest[k] # -1 => top <= new
    BY <1>1, <1>3, <2>1, <1>o
  <2> QED
    BY <2>1, <2>2, IndexRange DEF Index
<1>7. /\ newest[k] = -1 => \A i \in 0..(n - 1) : ring[k][r].values[i] = 0
      /\ newest[k] = -1 => \A i \in 0..MaxTime : got[k][r][i] = 0
      /\ \A i \in 0..MaxTime : i > top => got[k][r][i] = 0
  BY DEF RingInv, NothingAhead
<1> HIDE DEF n, u, top, m, new
<1>8. \A i \in 0..MaxTime : f[i] = got[k][r][i] + (IF i = u THEN val ELSE 0)
  <2> DEFINE f0 == got[k][r]
  <2>1. f0 \in [0..MaxTime -> Int]
    BY <1>1
  <2> HIDE DEF f0
  <2>2. \A i \in 0..MaxTime : Plus(f0, u, val)[i] = f0[i] + (IF i = u THEN val ELSE 0)
    BY <1>2, <2>1, PlusType
  <2> QED
    BY <2>2 DEF f0
<1>9. g.last = u % n
  <2> DEFINE x == u % n
             g0 == ring[k][r]
  <2>1. x \in 0..(n - 1) /\ Index(t, r) = x /\ g0 \in RingOf(n)
    BY <1>1, <1>2
  <2> HIDE DEF x, g0
  <2>2. Add(g0, x, val, n).last = x
    BY <1>1, <2>1, AddValue
  <2> QED
    BY <2>1, <2>2 DEF x, g0
<1> HIDE DEF g, f
<1>10. \A i \in 0..MaxTime : i > new => f[i] = 0
  <2>1. ASSUME NEW i \in 0..MaxTime, i > new PROVE f[i] = 0
    <3>1. got[k][r][i] = 0
      <4>1. CASE newest[k] = -1
        BY <1>7, <4>1
      <4>2. CASE newest[k] # -1
        <5>1. i > top
          BY <1>4, <1>6, <2>1, <4>2
        <5> QED
          BY <1>7, <5>1
      <4> QED
        BY <4>1, <4>2
    <3>2. i # u
      BY <1>2, <1>4, <1>5, <2>1
    <3> QED
      BY <1>8, <3>1, <3>2
  <2> QED
    BY <2>1
<1>11. ASSUME newest[k] = -1
       PROVE  g.last = Index(m, r) /\ Window(g, f, new, n)
  <2>1. m = t
    BY <1>1, <1>3, <1>11
  <2>2. new = u
    BY <1>2, <1>4, <2>1
  <2>3. Window(Add(ring[k][r], u % n, val, n), Plus(got[k][r], u, val), u, n)
    BY <1>1, <1>2, <1>7, <1>11, WindowOpens
  <2>4. Window(g, f, u, n)
    BY <1>2, <2>3 DEF g, f
  <2> QED
    BY <1>4, <1>9, <2>2, <2>4
<1>12. ASSUME newest[k] # -1, <<k, r>> \notin disorder, ~OutOfTurn(k, r, t)
       PROVE  g.last = Index(m, r) /\ Window(g, f, new, n)
  <2>1. newest[k] >= 0
    BY <1>1, <1>12
  <2>2. u - top \in 0..(n - 1)
    BY <1>12, <2>1 DEF OutOfTurn, u, top, n
  <2>3. ring[k][r].last = top % n
    BY <1>6, <1>12, <2>1 DEF RingInv, LastIsNewest
  <2>4. Window(ring[k][r], got[k][r], top, n)
    BY <1>12, <2>1 DEF RingInv, RingIsWindow, Window, top, n
  <2>5. new = u
    <3>1. CASE m = t
      BY <1>2, <1>4, <3>1
    <3>2. CASE m = newest[k]
      <4>1. new = top
        BY <1>4, <1>6, <1>12, <3>2
      <4> QED
        BY <1>1, <1>2, <1>4, <1>5, <1>6, <1>12, <2>2, <4>1
    <3> QED
      BY <1>3, <3>1, <3>2
  <2>6. Window(Add(ring[k][r], u % n, val, n), Plus(got[k][r], u, val), u, n)
    <3>1. top \in Nat
      BY <1>6, <1>12
    <3> QED
      BY <1>1, <1>2, <1>7, <2>2, <2>3, <2>4, <3>1, WindowMoves
  <2>7. Window(g, f, u, n)
    BY <1>2, <2>6 DEF g, f
  <2> QED
    BY <1>4, <1>9, <2>5, <2>7
<1>13. <<k, r>> \notin disorder /\ ~OutOfTurn(k, r, t) =>
          g.last = Index(m, r) /\ Window(g, f, new, n)
  BY <1>11, <1>12
<1> QED
  BY <1>3, <1>10, <1>13 DEF n, u, g, f, m, new

\* A value received keeps all rings windows.
LEMMA RingStep ==
  ASSUME StatsInv, NEW k \in Counters, Receive(k)
  PROVE  RingInv'
<1> DEFINE v == Head(chan[k])
<1>0. StatsTypeOK /\ RingInv
  BY DEF StatsInv
<1>1. /\ v \in [t : 0..MaxTime, val : Int]
      /\ \A j \in Counters, r \in Rings : ring'[j][r]
            = IF j = k THEN Add(ring[j][r], Index(v.t, r), v.val, Slots[r]) ELSE ring[j][r]
      /\ \A j \in Counters : newest'[j] = IF j = k /\ v.t > newest[j] THEN v.t ELSE newest[j]
      /\ \A j \in Counters, r \in Rings : got'[j][r]
            = IF j = k THEN Plus(got[j][r], v.t \div Unit[r], v.val) ELSE got[j][r]
      /\ disorder \subseteq disorder'
      /\ \A r \in Rings : OutOfTurn(k, r, v.t) => <<k, r>> \in disorder'
  BY <1>0, Received
<1> DEFINE t == v.t
           val == v.val
           m == Newer(newest[k], t)
<1>2. t \in 0..MaxTime /\ val \in Int /\ newest'[k] = m
  BY <1>1 DEF Newer
<1> HIDE DEF v, t, val, m
<1>3. \A r \in Rings :
         /\ m \in 0..MaxTime
         /\ \A i \in 0..MaxTime :
               i > m \div Unit[r] => Plus(got[k][r], t \div Unit[r], val)[i] = 0
         /\ <<k, r>> \notin disorder /\ ~OutOfTurn(k, r, t) =>
               /\ Add(ring[k][r], Index(t, r), val, Slots[r]).last = Index(m, r)
               /\ Window(Add(ring[k][r], Index(t, r), val, Slots[r]),
                         Plus(got[k][r], t \div Unit[r], val), m \div Unit[r], Slots[r])
  BY <1>0, <1>2, RingReceives DEF m
<1>4. \A r \in Rings :
         /\ ring'[k][r] = Add(ring[k][r], Index(t, r), val, Slots[r])
         /\ got'[k][r] = Plus(got[k][r], t \div Unit[r], val)
         /\ OutOfTurn(k, r, t) => <<k, r>> \in disorder'
  BY <1>1 DEF t, val
<1>5. \A j \in Counters : j # k =>
         newest'[j] = newest[j] /\ \A r \in Rings : ring'[j][r] = ring[j][r] /\ got'[j][r] = got[j][r]
  BY <1>1
<1>6. \A j \in Counters, r \in Rings : <<j, r>> \notin disorder' => <<j, r>> \notin disorder
  BY <1>1
<1>7. ASSUME NEW j \in Counters, NEW r \in Rings
      PROVE  /\ newest'[j] = -1 => \A i \in 0..(Slots[r] - 1) : ring'[j][r].values[i] = 0
             /\ \A u \in 0..MaxTime :
                   newest'[j] = -1 \/ u > newest'[j] \div Unit[r] => got'[j][r][u] = 0
             /\ newest'[j] >= 0 /\ <<j, r>> \notin disorder' =>
                   /\ ring'[j][r].last = Index(newest'[j], r)
                   /\ Window(ring'[j][r], got'[j][r], newest'[j] \div Unit[r], Slots[r])
  <2>1. CASE j = k
    <3>1. /\ m \in 0..MaxTime /\ m # -1
          /\ \A i \in 0..MaxTime : i > m \div Unit[r] => got'[k][r][i] = 0
          /\ <<k, r>> \notin disorder /\ ~OutOfTurn(k, r, t) =>
                ring'[k][r].last = Index(m, r) /\ Window(ring'[k][r], got'[k][r], m \div Unit[r], Slots[r])
      BY <1>3, <1>4
    <3> QED
      BY <1>2, <1>4, <1>6, <2>1, <3>1
  <2>2. CASE j # k
    <3>1. /\ newest[j] = -1 => \A i \in 0..(Slots[r] - 1) : ring[j][r].values[i] = 0
          /\ \A u \in 0..MaxTime :
                newest[j] = -1 \/ u > newest[j] \div Unit[r] => got[j][r][u] = 0
          /\ newest[j] >= 0 /\ <<j, r>> \notin disorder =>
                /\ ring[j][r].last = Index(newest[j], r)
                /\ Window(ring[j][r], got[j][r], newest[j] \div Unit[r], Slots[r])
      BY <1>0 DEF RingInv, NothingAhead, LastIsNewest, RingIsWindow, Window
    <3>2. newest'[j] = newest[j] /\ ring'[j][r] = ring[j][r] /\ got'[j][r] = got[j][r]
      BY <1>5, <2>2
    <3> QED
      BY <1>6, <3>1, <3>2
  <2> QED
    BY <2>1, <2>2
<1>8. NothingAhead'
  BY <1>7 DEF NothingAhead
<1>9. LastIsNewest'
  BY <1>7 DEF LastIsNewest, Index
<1>10. RingIsWindow'
  BY <1>7 DEF RingIsWindow, Window
<1> QED
  BY <1>8, <1>9, <1>10 DEF RingInv

\* So does what counts nothing.
LEMMA RingKept ==
  ASSUME RingInv, UNCHANGED counted
  PROVE  RingInv'
BY DEF RingInv, NothingAhead, LastIsNewest, RingIsWindow, Index, counted

-----------------------------------------------------------------------------
\* A connection that stamps a value: what it does not touch stays in order.
LEMMA Stamped ==
  ASSUME StatsInv, NEW c \in Conns, NEW stage \in Sending, NEW k \in Counters, NEW val \in Int,
         Stamp(c, stage, k, val), moves' \in [Conns -> 0..MaxMoves],
         stage = "opening" => k = "Connections" /\ val = 1,
         stage = "closing" => k = "Connections" /\ val = -1,
         stage = "moving" => k \in Transfers,
         conn[c] \in {"open", "moving", "closing"} <=> stage # "opening"
  PROVE  StatsInv'
<1>0. StatsTypeOK /\ CountInv /\ RingInv
  BY DEF StatsInv
<1>1. /\ conn' = [conn EXCEPT ![c] = stage]
      /\ value' = [value EXCEPT ![c] = [to |-> k, t |-> now, val |-> val]]
      /\ UNCHANGED <<counting, now, chan, counted>>
  BY DEF Stamp
<1>2. UNCHANGED <<ring, total, got, newest, disorder>>
  BY <1>1 DEF counted
<1>3. /\ conn \in [Conns -> {"backlog", "open", "closed"} \cup Sending]
      /\ value \in [Conns -> [to : Counters \cup {"none"}, t : 0..MaxTime, val : Int]]
      /\ now \in 0..MaxTime
  BY <1>0 DEF StatsTypeOK
<1>4. /\ conn' \in [Conns -> {"backlog", "open", "closed"} \cup Sending]
      /\ \A d \in Conns : conn'[d] = IF d = c THEN stage ELSE conn[d]
  BY <1>1, <1>3
<1>5. /\ value' \in [Conns -> [to : Counters \cup {"none"}, t : 0..MaxTime, val : Int]]
      /\ \A d \in Conns : value'[d]
            = IF d = c THEN [to |-> k, t |-> now, val |-> val] ELSE value[d]
  <2> DEFINE e == [to |-> k, t |-> now, val |-> val]
  <2>1. e \in [to : Counters \cup {"none"}, t : 0..MaxTime, val : Int]
    BY <1>3
  <2>2. value' = [value EXCEPT ![c] = e]
    BY <1>1
  <2> HIDE DEF e
  <2>3. /\ value' \in [Conns -> [to : Counters \cup {"none"}, t : 0..MaxTime, val : Int]]
        /\ \A d \in Conns : value'[d] = IF d = c THEN e ELSE value[d]
    BY <1>3, <2>1, <2>2
  <2> QED
    BY <2>3 DEF e
<1>6. StatsTypeOK'
  <2>1. \A d \in Conns : conn'[d] \in Sending <=> value'[d].to # "none"
    <3>1. k # "none"
      BY NamesAssumption DEF Counters
    <3>2. \A d \in Conns : conn[d] \in Sending <=> value[d].to # "none"
      BY <1>0 DEF StatsTypeOK
    <3> QED
      BY <1>4, <1>5, <3>1, <3>2
  <2> QED
    BY <1>0, <1>1, <1>2, <1>4, <1>5, <2>1 DEF StatsTypeOK
<1>7. SendInv'
  <2>1. SendInv
    BY <1>0 DEF CountInv
  <2>2. ASSUME NEW d \in Conns
        PROVE  /\ conn'[d] = "opening" => value'[d].to = "Connections" /\ value'[d].val = 1
               /\ conn'[d] = "closing" => value'[d].to = "Connections" /\ value'[d].val = -1
               /\ conn'[d] = "moving" => value'[d].to \in Transfers
    <3>1. CASE d = c
      BY <1>4, <1>5, <3>1
    <3>2. CASE d # c
      BY <1>4, <1>5, <2>1, <3>2 DEF SendInv
    <3> QED
      BY <3>1, <3>2
  <2> QED
    BY <2>2 DEF SendInv
<1>8. CountInv'
  <2>1. Open' = Open
    BY <1>4 DEF Open, Sending
  <2>2. chan' = chan /\ total' = total
    BY <1>1, <1>2
  <2> QED
    BY <1>0, <1>7, <2>1, <2>2 DEF CountInv, ChanInv, NothingLost, Places
<1>9. RingInv'
  BY <1>0, <1>1, RingKept
<1> QED
  BY <1>6, <1>8, <1>9 DEF StatsInv

\* The three that stamp.
LEMMA AcceptStep ==
  ASSUME StatsInv, NEW c \in Conns, Accept(c)
  PROVE  StatsInv'
<1>1. /\ Stamp(c, "opening", "Connections", 1) /\ conn[c] = "backlog"
      /\ moves' \in [Conns -> 0..MaxMoves]
  BY DEF Accept, StatsInv, StatsTypeOK
<1>2. "opening" \in Sending /\ "Connections" \in Counters
  BY DEF Sending, Counters
<1> QED
  BY <1>1, <1>2, Stamped

LEMMA CloseStep ==
  ASSUME StatsInv, NEW c \in Conns, Close(c)
  PROVE  StatsInv'
<1>1. /\ Stamp(c, "closing", "Connections", -1) /\ conn[c] = "open"
      /\ moves' \in [Conns -> 0..MaxMoves]
  BY DEF Close, StatsInv, StatsTypeOK
<1>2. "closing" \in Sending /\ "Connections" \in Counters
  BY DEF Sending, Counters
<1> QED
  BY <1>1, <1>2, Stamped

LEMMA MoveStep ==
  ASSUME StatsInv, NEW c \in Conns, NEW k \in Transfers, Move(c, k)
  PROVE  StatsInv'
<1>1. /\ Stamp(c, "moving", k, 1) /\ conn[c] = "open"
      /\ moves[c] < MaxMoves /\ moves' = [moves EXCEPT ![c] = @ + 1]
      /\ moves \in [Conns -> 0..MaxMoves]
  BY DEF Move, StatsInv, StatsTypeOK
<1>2. moves' \in [Conns -> 0..MaxMoves]
  BY <1>1, BoundsOfStats
<1>3. "moving" \in Sending /\ k \in Counters
  BY DEF Sending, Counters
<1> QED
  BY <1>1, <1>2, <1>3, Stamped

\* A value sent leaves the connection for the channel.
LEMMA SendStep ==
  ASSUME StatsInv, NEW c \in Conns, Send(c)
  PROVE  StatsInv'
<1> DEFINE k == value[c].to
           e == [t |-> value[c].t, val |-> value[c].val]
           E == [t : 0..MaxTime, val : Int]
           V == [to : Counters \cup {"none"}, t : 0..MaxTime, val : Int]
<1>0. StatsTypeOK /\ CountInv /\ RingInv
  BY DEF StatsInv
<1>1. /\ conn[c] \in Sending
      /\ Len(chan[k]) < Cap
      /\ chan' = [chan EXCEPT ![k] = Append(@, e)]
      /\ conn' = [conn EXCEPT ![c] = After(conn[c])]
      /\ value' = [value EXCEPT ![c] = NoValue]
      /\ UNCHANGED <<counting, now, moves, counted>>
  BY DEF Send
<1>2. UNCHANGED <<ring, total, got, newest, disorder>>
  BY <1>1 DEF counted
<1>3. /\ conn \in [Conns -> {"backlog", "open", "closed"} \cup Sending]
      /\ value \in [Conns -> V]
      /\ chan \in [Counters -> Seq(E)]
      /\ \A d \in Conns : conn[d] \in Sending <=> value[d].to # "none"
      /\ \A j \in Counters : Len(chan[j]) <= Cap
      /\ Cap \in Nat
  BY <1>0, CapAssumption DEF StatsTypeOK
<1>4. value[c] \in V /\ k # "none"
  BY <1>1, <1>3
<1>5. k \in Counters /\ e \in E /\ e.val = value[c].val
  BY <1>4
<1>6. NoValue \in V /\ NoValue.to = "none"
  BY BoundsOfStats DEF NoValue
<1>7. /\ After(conn[c]) \in {"open", "closed"}
      /\ After(conn[c]) = "open" <=> conn[c] # "closing"
  BY DEF After
<1> HIDE DEF k, e, E, V
<1>8. /\ conn' \in [Conns -> {"backlog", "open", "closed"} \cup Sending]
      /\ \A d \in Conns : conn'[d] = IF d = c THEN After(conn[c]) ELSE conn[d]
  BY <1>1, <1>3, <1>7
<1>9. /\ value' \in [Conns -> V]
      /\ \A d \in Conns : value'[d] = IF d = c THEN NoValue ELSE value[d]
  BY <1>1, <1>3, <1>6
<1>10. /\ chan' \in [Counters -> Seq(E)]
       /\ \A j \in Counters : chan'[j] = IF j = k THEN Append(chan[j], e) ELSE chan[j]
  <2>1. chan[k] \in Seq(E)
    BY <1>3, <1>5
  <2>2. Append(chan[k], e) \in Seq(E)
    BY <1>5, <2>1
  <2> QED
    BY <1>1, <1>3, <1>5, <2>2
<1>11. Len(chan'[k]) = Len(chan[k]) + 1
  <2>1. chan[k] \in Seq(E)
    BY <1>3, <1>5
  <2> QED
    BY <1>5, <1>10, <2>1
<1>12. \A j \in Counters : Len(chan'[j]) <= Cap
  <2>1. chan[k] \in Seq(E) /\ Len(chan[k]) \in Nat
    BY <1>3, <1>5
  <2> QED
    BY <1>1, <1>3, <1>10, <1>11, <2>1
<1>13. StatsTypeOK'
  <2>1. \A d \in Conns : conn'[d] \in Sending <=> value'[d].to # "none"
    <3>1. After(conn[c]) \notin Sending
      BY <1>7 DEF Sending
    <3> QED
      BY <1>3, <1>6, <1>8, <1>9, <3>1
  <2> QED
    BY <1>0, <1>1, <1>2, <1>8, <1>9, <1>10, <1>12, <2>1 DEF StatsTypeOK, E, V
<1>14. SendInv /\ ChanInv /\ IsFiniteSet(Open) /\ NothingLost
  BY <1>0 DEF CountInv
<1>15. SendInv'
  <2>1. After(conn[c]) \notin {"opening", "closing", "moving"}
    BY <1>7
  <2> QED
    BY <1>8, <1>9, <1>14, <2>1 DEF SendInv
<1> DEFINE s == chan["Connections"]
<1>16. "Connections" \in Counters /\ s \in Seq(E) /\ Cardinality(Open) \in Nat
  BY <1>3, <1>14, FS_CardinalityType DEF Counters
<1>17. /\ \A x : Places(x) = At(s, x) /\ Places(x)' = At(s', x)
       /\ Cardinality(At(s, 1)) \in Nat /\ Cardinality(At(s, -1)) \in Nat
  BY <1>16, AtFinite DEF Places, At
<1>18. total["Connections"] \in Int /\ total' = total
  BY <1>0, <1>2, <1>16 DEF StatsTypeOK
<1>19. CASE conn[c] = "moving"
  <2>1. k # "Connections"
    BY <1>14, <1>19, NamesAssumption DEF SendInv, k
  <2>2. s' = s
    BY <1>10, <1>16, <2>1
  <2>3. Open' = Open
    BY <1>7, <1>8, <1>19 DEF Open
  <2>4. CountInv'
    BY <1>14, <1>15, <1>17, <1>18, <2>2, <2>3 DEF CountInv, ChanInv, NothingLost
  <2> QED
    BY <1>0, <1>1, <1>13, <2>4, RingKept DEF StatsInv
<1>20. CASE conn[c] # "moving"
  <2>1. /\ conn[c] \in {"opening", "closing"} /\ k = "Connections"
        /\ e.val = IF conn[c] = "opening" THEN 1 ELSE -1
    BY <1>1, <1>5, <1>14, <1>20 DEF SendInv, Sending, k
  <2>2. s' = Append(s, e)
    BY <1>10, <1>16, <2>1
  <2>3. /\ Cardinality(At(s', 1)) = Cardinality(At(s, 1)) + (IF e.val = 1 THEN 1 ELSE 0)
        /\ Cardinality(At(s', -1)) = Cardinality(At(s, -1)) + (IF e.val = -1 THEN 1 ELSE 0)
    BY <1>5, <1>16, <2>2, AtAppend
  <2>4. ChanInv'
    <3>1. /\ DOMAIN s' = 1..(Len(s) + 1) /\ DOMAIN s = 1..Len(s) /\ Len(s) \in Nat
          /\ s'[Len(s) + 1] = e /\ \A i \in DOMAIN s : s'[i] = s[i]
      BY <1>5, <1>16, <2>2
    <3>2. e.val \in {1, -1}
      BY <2>1
    <3>3. ASSUME NEW i \in DOMAIN s' PROVE s'[i].val \in {1, -1}
      <4>1. i \in DOMAIN s \/ i = Len(s) + 1
        BY <3>1
      <4> QED
        BY <1>14, <3>1, <3>2, <4>1 DEF ChanInv
    <3> QED
      BY <3>3 DEF ChanInv
  <2>5. /\ IsFiniteSet(Open')
        /\ Cardinality(Open') = Cardinality(Open) + e.val
    <3>1. CASE conn[c] = "opening"
      <4>1. Open' = Open \cup {c} /\ c \notin Open
        BY <1>7, <1>8, <3>1 DEF Open
      <4>2. IsFiniteSet(Open \cup {c}) /\ Cardinality(Open \cup {c}) = Cardinality(Open) + 1
        BY <1>14, <4>1, FS_AddElement
      <4> QED
        BY <2>1, <3>1, <4>1, <4>2
    <3>2. CASE conn[c] = "closing"
      <4>1. Open' = Open \ {c} /\ c \in Open
        BY <1>7, <1>8, <3>2 DEF Open
      <4>2. IsFiniteSet(Open \ {c}) /\ Cardinality(Open \ {c}) = Cardinality(Open) - 1
        BY <1>14, <4>1, FS_RemoveElement
      <4>3. Cardinality(Open) - 1 = Cardinality(Open) + (-1)
        BY <1>16
      <4> QED
        BY <2>1, <3>2, <4>1, <4>2, <4>3
    <3> QED
      BY <2>1, <3>1, <3>2
  <2>6. NothingLost'
    <3>1. total["Connections"] + Cardinality(At(s, 1)) - Cardinality(At(s, -1)) = Cardinality(Open)
      BY <1>14, <1>17 DEF NothingLost
    <3>2. e.val = 1 \/ e.val = -1
      BY <2>1
    <3>3. total["Connections"] + Cardinality(At(s', 1)) - Cardinality(At(s', -1)) = Cardinality(Open')
      <4> DEFINE a == Cardinality(At(s, 1))
                 b == Cardinality(At(s, -1))
                 o == Cardinality(Open)
                 n == total["Connections"]
      <4>1. /\ a \in Int /\ b \in Int /\ o \in Int /\ n \in Int /\ n + a - b = o
            /\ Cardinality(At(s', 1)) = a + (IF e.val = 1 THEN 1 ELSE 0)
            /\ Cardinality(At(s', -1)) = b + (IF e.val = -1 THEN 1 ELSE 0)
            /\ Cardinality(Open') = o + e.val
        BY <1>16, <1>17, <1>18, <2>3, <2>5, <3>1
      <4> HIDE DEF a, b, o, n
      <4>2. CASE e.val = 1
        BY <4>1, <4>2 DEF n
      <4>3. CASE e.val = -1
        BY <4>1, <4>3 DEF n
      <4> QED
        BY <3>2, <4>2, <4>3
    <3> QED
      BY <1>17, <1>18, <3>3 DEF NothingLost
  <2>7. CountInv'
    BY <1>15, <2>4, <2>5, <2>6 DEF CountInv
  <2> QED
    BY <1>0, <1>1, <1>13, <2>7, RingKept DEF StatsInv
<1> QED
  BY <1>19, <1>20

\* A value counted leaves the channel for the counter.
LEMMA CountStep ==
  ASSUME StatsInv, NEW k \in Counters, Count(k)
  PROVE  StatsInv'
<1> DEFINE v == Head(chan[k])
           E == [t : 0..MaxTime, val : Int]
<1>0. StatsTypeOK /\ CountInv /\ RingInv /\ Receive(k)
  BY DEF StatsInv, Count
<1>1. /\ v \in E /\ chan[k] # <<>> /\ chan' = [chan EXCEPT ![k] = Tail(@)]
      /\ DOMAIN ring' = Counters /\ \A j \in Counters : DOMAIN ring'[j] = Rings
      /\ \A j \in Counters, r \in Rings : ring'[j][r]
            = IF j = k THEN Add(ring[j][r], Index(v.t, r), v.val, Slots[r]) ELSE ring[j][r]
      /\ \A j \in Counters : total'[j] = IF j = k THEN total[j] + v.val ELSE total[j]
      /\ \A j \in Counters, r \in Rings : got'[j][r]
            = IF j = k THEN Plus(got[j][r], v.t \div Unit[r], v.val) ELSE got[j][r]
  BY <1>0, Received
<1>2. /\ UNCHANGED <<counting, now, conn, moves, value>>
      /\ total' = [total EXCEPT ![k] = @ + v.val]
      /\ newest' = [newest EXCEPT ![k] = IF v.t > @ THEN v.t ELSE @]
      /\ disorder' = disorder \cup {<<k, r>> : r \in {x \in Rings : OutOfTurn(k, x, v.t)}}
      /\ got' = [got EXCEPT ![k] = [r \in Rings |-> Plus(@[r], v.t \div Unit[r], v.val)]]
  BY <1>0 DEF Receive
<1>3. v.t \in 0..MaxTime /\ v.val \in Int
  BY <1>1
<1> HIDE DEF v, E
<1>4. /\ chan \in [Counters -> Seq(E)] /\ \A j \in Counters : Len(chan[j]) <= Cap
      /\ total \in [Counters -> Int] /\ newest \in [Counters -> -1..MaxTime]
      /\ got \in [Counters -> [Rings -> [0..MaxTime -> Int]]]
      /\ disorder \subseteq Counters \X Rings
  BY <1>0 DEF StatsTypeOK, E
<1>5. /\ chan' \in [Counters -> Seq(E)] /\ \A j \in Counters : Len(chan'[j]) <= Cap
      /\ \A j \in Counters : chan'[j] = IF j = k THEN Tail(chan[j]) ELSE chan[j]
  <2>1. /\ chan[k] \in Seq(E) /\ Tail(chan[k]) \in Seq(E)
        /\ Len(Tail(chan[k])) = Len(chan[k]) - 1 /\ Len(chan[k]) \in Nat
    BY <1>1, <1>4
  <2>2. chan' \in [Counters -> Seq(E)]
    BY <1>1, <1>4, <2>1
  <2>3. \A j \in Counters : chan'[j] = IF j = k THEN Tail(chan[j]) ELSE chan[j]
    BY <1>1, <1>4
  <2>4. \A j \in Counters : Len(chan'[j]) <= Cap
    <3>1. Len(chan'[k]) = Len(chan[k]) - 1 /\ Len(chan[k]) <= Cap
      BY <1>4, <2>1, <2>3
    <3>2. Len(chan'[k]) <= Cap
      BY <2>1, <3>1, CapAssumption
    <3> QED
      BY <1>4, <2>3, <3>2
  <2> QED
    BY <2>2, <2>3, <2>4
<1>6. total' \in [Counters -> Int]
  BY <1>2, <1>3, <1>4
<1>7. newest' \in [Counters -> -1..MaxTime]
  <2>1. v.t \in -1..MaxTime
    BY <1>3
  <2> QED
    BY <1>2, <1>4, <2>1
<1>8. disorder' \subseteq Counters \X Rings
  BY <1>2, <1>4
<1>9. \A r \in Rings : v.t \div Unit[r] \in 0..MaxTime /\ Index(v.t, r) \in 0..(Slots[r] - 1)
  BY <1>3, IndexRange
<1>10. got' \in [Counters -> [Rings -> [0..MaxTime -> Int]]]
  <2> DEFINE F == [0..MaxTime -> Int]
             e == [r \in Rings |-> Plus(got[k][r], v.t \div Unit[r], v.val)]
  <2>1. \A f \in F, u \in 0..MaxTime, x \in Int : Plus(f, u, x) \in F
    BY PlusType
  <2>2. \A r \in Rings : got[k][r] \in F
    BY <1>4
  <2> HIDE DEF F
  <2>3. e \in [Rings -> F]
    BY <1>3, <1>9, <2>1, <2>2
  <2>4. got' = [got EXCEPT ![k] = e]
    BY <1>2
  <2> HIDE DEF e
  <2>5. got' \in [Counters -> [Rings -> F]]
    BY <1>4, <2>3, <2>4 DEF F
  <2> QED
    BY <2>5 DEF F
<1>11. \A j \in Counters, r \in Rings : ring'[j][r] \in RingOf(Slots[r])
  <2>1. ASSUME NEW r \in Rings
        PROVE  Add(ring[k][r], Index(v.t, r), v.val, Slots[r]) \in RingOf(Slots[r])
    <3> DEFINE g == ring[k][r]
               n == Slots[r]
               x == Index(v.t, r)
               y == v.val
    <3>1. g \in RingOf(n) /\ n \in Nat \ {0} /\ x \in 0..(n - 1) /\ y \in Int
      BY <1>0, <1>3, <1>9, TypedRing, RingConstants
    <3> HIDE DEF g, n, x, y
    <3>2. Add(g, x, y, n) \in RingOf(n)
      BY <3>1, AddType
    <3> QED
      BY <3>2 DEF g, n, x, y
  <2>2. \A j \in Counters, r \in Rings : ring[j][r] \in RingOf(Slots[r])
    BY <1>0, TypedRing
  <2> QED
    BY <1>1, <2>1, <2>2
<1>12. StatsTypeOK'
  BY <1>0, <1>1, <1>2, <1>5, <1>6, <1>7, <1>8, <1>10, <1>11 DEF StatsTypeOK, RingOf, E
<1>13. SendInv /\ ChanInv /\ IsFiniteSet(Open) /\ NothingLost
  BY <1>0 DEF CountInv
<1>14. SendInv' /\ Open' = Open
  BY <1>2, <1>13 DEF SendInv, Open
<1> DEFINE s == chan["Connections"]
<1>15. "Connections" \in Counters /\ s \in Seq(E) /\ s' \in Seq(E)
  BY <1>4, <1>5 DEF Counters
<1>16. /\ \A x : Places(x) = At(s, x) /\ Places(x)' = At(s', x)
       /\ Cardinality(At(s, 1)) \in Nat /\ Cardinality(At(s, -1)) \in Nat
  BY <1>15, AtFinite DEF Places, At
<1>17. total["Connections"] \in Int
  BY <1>4, <1>15
<1>18. ChanInv' /\ NothingLost'
  <2>1. CASE k # "Connections"
    <3>1. s' = s /\ total'["Connections"] = total["Connections"]
      BY <1>1, <1>5, <1>15, <2>1
    <3> QED
      BY <1>13, <1>14, <1>16, <3>1 DEF ChanInv, NothingLost
  <2>2. CASE k = "Connections"
    <3>1. /\ s # <<>> /\ s' = Tail(s) /\ v = Head(s)
          /\ total'["Connections"] = total["Connections"] + v.val
      BY <1>1, <1>5, <1>15, <2>2 DEF v
    <3>2. /\ DOMAIN s = 1..Len(s) /\ Len(s) \in Nat /\ Len(s) >= 1 /\ v = s[1]
          /\ DOMAIN s' = 1..(Len(s) - 1) /\ \A i \in DOMAIN s' : s'[i] = s[i + 1]
      BY <1>15, <3>1
    <3>3. ChanInv'
      <4>1. ASSUME NEW i \in DOMAIN s' PROVE s'[i].val \in {1, -1}
        <5>1. i + 1 \in DOMAIN s /\ s'[i] = s[i + 1]
          BY <3>2
        <5> QED
          BY <1>13, <5>1 DEF ChanInv
      <4> QED
        BY <4>1 DEF ChanInv
    <3>4. v.val = 1 \/ v.val = -1
      <4>1. 1 \in DOMAIN s
        BY <3>2
      <4> QED
        BY <1>13, <3>2, <4>1 DEF ChanInv
    <3>5. /\ Cardinality(At(s', 1)) = Cardinality(At(s, 1)) - (IF v.val = 1 THEN 1 ELSE 0)
          /\ Cardinality(At(s', -1)) = Cardinality(At(s, -1)) - (IF v.val = -1 THEN 1 ELSE 0)
      BY <1>15, <3>1, AtTail
    <3>6. total["Connections"] + Cardinality(At(s, 1)) - Cardinality(At(s, -1)) = Cardinality(Open)
      BY <1>13, <1>16 DEF NothingLost
    <3>7. total'["Connections"] + Cardinality(At(s', 1)) - Cardinality(At(s', -1)) = Cardinality(Open)
      <4> DEFINE a == Cardinality(At(s, 1))
                 b == Cardinality(At(s, -1))
                 n == total["Connections"]
                 x == v.val
      <4>1. /\ a \in Int /\ b \in Int /\ n \in Int /\ n + a - b = Cardinality(Open)
            /\ Cardinality(At(s', 1)) = a - (IF x = 1 THEN 1 ELSE 0)
            /\ Cardinality(At(s', -1)) = b - (IF x = -1 THEN 1 ELSE 0)
            /\ total'["Connections"] = n + x
            /\ x = 1 \/ x = -1
        BY <1>16, <1>17, <3>1, <3>4, <3>5, <3>6
      <4> HIDE DEF a, b, n, x
      <4>2. CASE x = 1
        BY <4>1, <4>2
      <4>3. CASE x = -1
        BY <4>1, <4>3
      <4> QED
        BY <4>1, <4>2, <4>3
    <3> QED
      BY <1>14, <1>16, <3>3, <3>7 DEF NothingLost
  <2> QED
    BY <2>1, <2>2
<1>19. CountInv'
  BY <1>13, <1>14, <1>18 DEF CountInv
<1>20. RingInv'
  BY <1>0, RingStep
<1> QED
  BY <1>12, <1>19, <1>20 DEF StatsInv

\* What only the clock and nobody else touches.
LEMMA ClockStep ==
  ASSUME StatsInv, ClockTick \/ UNCHANGED statsVars
  PROVE  StatsInv'
<1>1. /\ UNCHANGED <<counting, conn, moves, value, chan, counted>>
      /\ now' \in 0..MaxTime
  BY BoundsOfStats DEF StatsInv, StatsTypeOK, ClockTick, statsVars, counted
<1>2. UNCHANGED <<ring, total, got, newest, disorder>>
  BY <1>1 DEF counted
<1>3. StatsTypeOK'
  BY <1>1, <1>2 DEF StatsInv, StatsTypeOK
<1>4. CountInv'
  BY <1>1, <1>2 DEF StatsInv, CountInv, SendInv, ChanInv, NothingLost, Places, Open
<1>5. RingInv'
  BY <1>1, RingKept DEF StatsInv
<1> QED
  BY <1>3, <1>4, <1>5 DEF StatsInv

\* Nothing has come in yet.
LEMMA StatsInitInv == StatsInit => StatsInv
<1> SUFFICES ASSUME StatsInit PROVE StatsInv
  OBVIOUS
<1>1. /\ counting \in BOOLEAN /\ now = 0
      /\ conn = [c \in Conns |-> "backlog"] /\ moves = [c \in Conns |-> 0]
      /\ value = [c \in Conns |-> NoValue]
      /\ chan = [k \in Counters |-> <<>>]
      /\ ring = [k \in Counters |-> [r \in Rings |-> Fresh(r)]]
      /\ total = [k \in Counters |-> 0]
      /\ got = [k \in Counters |-> [r \in Rings |-> [u \in 0..MaxTime |-> 0]]]
      /\ newest = [k \in Counters |-> -1]
      /\ disorder = {}
  BY DEF StatsInit
<1>2. MaxTime \in Nat /\ MaxMoves \in Nat /\ Cap \in Nat
  BY BoundsOfStats, CapAssumption
<1>3. \A r \in Rings : /\ Fresh(r) \in RingOf(Slots[r])
                       /\ \A i \in 0..(Slots[r] - 1) : Fresh(r).values[i] = 0
  BY RingConstants DEF Fresh, RingOf
<1>4. \A k \in Counters, r \in Rings :
         /\ ring[k][r] = Fresh(r) /\ newest[k] = -1
         /\ \A u \in 0..MaxTime : got[k][r][u] = 0
  BY <1>1
<1>5. StatsTypeOK
  <2>1. NoValue \in [to : Counters \cup {"none"}, t : 0..MaxTime, val : Int] /\ NoValue.to = "none"
    BY <1>2 DEF NoValue
  <2>2. /\ value \in [Conns -> [to : Counters \cup {"none"}, t : 0..MaxTime, val : Int]]
        /\ \A c \in Conns : value[c].to = "none"
    BY <1>1, <2>1
  <2>3. \A c \in Conns : conn[c] \in Sending <=> value[c].to # "none"
    BY <1>1, <2>2 DEF Sending
  <2>4. /\ chan \in [Counters -> Seq([t : 0..MaxTime, val : Int])]
        /\ \A k \in Counters : Len(chan[k]) <= Cap
    <3>1. <<>> \in Seq([t : 0..MaxTime, val : Int]) /\ Len(<<>>) = 0
      OBVIOUS
    <3> QED
      BY <1>1, <1>2, <3>1
  <2>5. got \in [Counters -> [Rings -> [0..MaxTime -> Int]]]
    <3> DEFINE z == [u \in 0..MaxTime |-> 0]
    <3>1. z \in [0..MaxTime -> Int]
      OBVIOUS
    <3>2. got = [k \in Counters |-> [r \in Rings |-> z]]
      BY <1>1
    <3> HIDE DEF z
    <3> QED
      BY <3>1, <3>2
  <2>6. DOMAIN ring = Counters /\ \A k \in Counters : DOMAIN ring[k] = Rings
    BY <1>1
  <2>7. total \in [Counters -> Int] /\ newest \in [Counters -> -1..MaxTime]
    BY <1>1, <1>2
  <2>8. \A k \in Counters, r \in Rings : ring[k][r] \in RingOf(Slots[r])
    BY <1>3, <1>4
  <2> QED
    BY <1>1, <1>2, <2>2, <2>3, <2>4, <2>5, <2>6, <2>7, <2>8 DEF StatsTypeOK, RingOf
<1>6. CountInv
  <2>1. "Connections" \in Counters /\ chan["Connections"] = <<>> /\ total["Connections"] = 0
    BY <1>1 DEF Counters
  <2>2. Open = {}
    BY <1>1 DEF Open
  <2>3. \A x : Places(x) = {}
    BY <2>1 DEF Places
  <2>4. IsFiniteSet({}) /\ Cardinality({}) = 0
    BY FS_EmptySet
  <2>5. SendInv /\ ChanInv
    BY <1>1, <2>1 DEF SendInv, ChanInv
  <2>6. NothingLost
    <3>1. /\ Cardinality(Places(1)) = 0 /\ Cardinality(Places(-1)) = 0
          /\ Cardinality(Open) = 0
      BY <2>2, <2>3, <2>4
    <3> QED
      BY <2>1, <3>1 DEF NothingLost
  <2> QED
    BY <2>2, <2>4, <2>5, <2>6 DEF CountInv
<1>7. RingInv
  <2>1. NothingAhead
    BY <1>3, <1>4 DEF NothingAhead
  <2>2. \A k \in Counters : ~(newest[k] >= 0)
    BY <1>1
  <2> QED
    BY <2>1, <2>2 DEF RingInv, LastIsNewest, RingIsWindow
<1> QED
  BY <1>5, <1>6, <1>7 DEF StatsInv

\* StatsInv is inductive.
LEMMA StatsAlwaysInv == StatsSpec => []StatsInv
<1>1. StatsInv /\ [StatsNext]_statsVars => StatsInv'
  <2> SUFFICES ASSUME StatsInv, [StatsNext]_statsVars PROVE StatsInv'
    OBVIOUS
  <2>1. ASSUME NEW c \in Conns, Accept(c) \/ Close(c) \/ Send(c) PROVE StatsInv'
    BY <2>1, AcceptStep, CloseStep, SendStep
  <2>2. ASSUME NEW c \in Conns, NEW k \in Transfers, Move(c, k) PROVE StatsInv'
    BY <2>2, MoveStep
  <2>3. ASSUME NEW k \in Counters, Count(k) PROVE StatsInv'
    BY <2>3, CountStep
  <2>4. CASE ClockTick \/ UNCHANGED statsVars
    BY <2>4, ClockStep
  <2> QED
    BY <2>1, <2>2, <2>3, <2>4 DEF StatsNext
<1> QED
  BY StatsInitInv, <1>1, PTL DEF StatsSpec

-----------------------------------------------------------------------------
(***************************************************************************)
(* Every variable of the statistics keeps its type: a ring its slots, a    *)
(* channel its capacity.                                                   *)
(***************************************************************************)
THEOREM StatsTypeCorrect == StatsSpec => []StatsTypeOK
<1>1. StatsInv => StatsTypeOK
  BY DEF StatsInv
<1> QED
  BY StatsAlwaysInv, <1>1, PTL

(***************************************************************************)
(* The connections counted and those that wait in the channel are those    *)
(* that are open, for any number of connections, any capacity of the       *)
(* channels, and whether somebody counts or not.                           *)
(***************************************************************************)
THEOREM CountTheorem == StatsSpec => []NothingLost
<1>1. StatsInv => NothingLost
  BY DEF StatsInv, CountInv
<1> QED
  BY StatsAlwaysInv, <1>1, PTL

(***************************************************************************)
(* A ring of any number of slots, of units of any length, holds its last   *)
(* turn, unless a value came late or after a full turn.                    *)
(***************************************************************************)
THEOREM RingTheorem == StatsSpec => []RingIsWindow
<1>1. StatsInv => RingIsWindow
  BY DEF StatsInv, RingInv
<1> QED
  BY StatsAlwaysInv, <1>1, PTL

-----------------------------------------------------------------------------
\* Each connection accepted has its value in the channel.
AcceptsWait ==
    ~counting => IsFiniteSet(Accepted) /\ Cardinality(Accepted) = Cardinality(Places(1))

LEMMA AcceptsKept ==
  ASSUME AcceptsWait, counting' = counting, Accepted' = Accepted,
         chan'["Connections"] = chan["Connections"]
  PROVE  AcceptsWait'
BY DEF AcceptsWait, Places

\* Only a connection that opens changes either.
LEMMA AcceptsSend ==
  ASSUME StatsInv, AcceptsWait, NEW c \in Conns, Send(c)
  PROVE  AcceptsWait'
<1> DEFINE s == chan["Connections"]
           E == [t : 0..MaxTime, val : Int]
           e == [t |-> value[c].t, val |-> value[c].val]
           k == value[c].to
<1>1. /\ conn[c] \in Sending
      /\ chan' = [chan EXCEPT ![k] = Append(@, e)]
      /\ conn' = [conn EXCEPT ![c] = After(conn[c])]
      /\ counting' = counting
  BY DEF Send
<1>2. /\ conn \in [Conns -> {"backlog", "open", "closed"} \cup Sending]
      /\ chan \in [Counters -> Seq(E)]
      /\ value[c] \in [to : Counters \cup {"none"}, t : 0..MaxTime, val : Int]
      /\ k # "none"
  BY <1>1 DEF StatsInv, StatsTypeOK
<1>3. "Connections" \in Counters /\ k \in Counters /\ s \in Seq(E) /\ e \in E /\ e.val = value[c].val
  BY <1>2 DEF Counters
<1>4. SendInv
  BY DEF StatsInv, CountInv
<1>5. After(conn[c]) \notin {"backlog", "opening"}
  BY DEF After
<1>6. \A d \in Conns : conn'[d] = IF d = c THEN After(conn[c]) ELSE conn[d]
  BY <1>1, <1>2
<1>7. \A x : Places(x) = At(s, x) /\ Places(x)' = At(s', x)
  BY DEF Places, At
<1>8. Cardinality(At(s, 1)) \in Nat
  BY <1>3, AtFinite
<1>9. \A j \in Counters : chan'[j] = IF j = k THEN Append(chan[j], e) ELSE chan[j]
  BY <1>1, <1>2
<1> HIDE DEF E, e
<1>10. CASE conn[c] = "opening"
  <2>1. s' = Append(s, e) /\ e.val = 1
    BY <1>3, <1>4, <1>9, <1>10 DEF SendInv
  <2>2. Cardinality(At(s', 1)) = Cardinality(At(s, 1)) + 1
    BY <1>3, <2>1, AtAppend
  <2>3. Accepted' = Accepted \cup {c} /\ c \notin Accepted
    BY <1>5, <1>6, <1>10 DEF Accepted
  <2>4. IsFiniteSet(Accepted) => /\ IsFiniteSet(Accepted')
                                 /\ Cardinality(Accepted') = Cardinality(Accepted) + 1
    BY <2>3, FS_AddElement
  <2> HIDE DEF s
  <2> QED
    BY <1>1, <1>7, <2>2, <2>4 DEF AcceptsWait
<1>11. CASE conn[c] # "opening"
  <2>1. Accepted' = Accepted
    BY <1>1, <1>5, <1>6, <1>11 DEF Accepted, Sending
  <2>2. Cardinality(At(s', 1)) = Cardinality(At(s, 1))
    <3>1. CASE conn[c] = "closing"
      <4>1. s' = Append(s, e) /\ e.val = -1
        BY <1>3, <1>4, <1>9, <3>1 DEF SendInv
      <4>2. Cardinality(At(s', 1)) = Cardinality(At(s, 1)) + 0
        BY <1>3, <4>1, AtAppend
      <4> QED
        BY <1>8, <4>2
    <3>2. CASE conn[c] = "moving"
      <4>1. s' = s
        BY <1>3, <1>4, <1>9, <3>2, NamesAssumption DEF SendInv
      <4> QED
        BY <4>1
    <3> QED
      BY <1>1, <1>11, <3>1, <3>2 DEF Sending
  <2> HIDE DEF s
  <2> QED
    BY <1>1, <1>7, <2>1, <2>2 DEF AcceptsWait
<1> QED
  BY <1>10, <1>11

(***************************************************************************)
(* A server that listens through NewListener without ServerStats.Start     *)
(* accepts Cap connections at most, 100 in the code, however many come in  *)
(* and however many of them have been closed.                              *)
(***************************************************************************)
THEOREM AcceptsTheorem == StatsSpec => []AcceptsBounded
<1>1. StatsInit => AcceptsWait
  <2> SUFFICES ASSUME StatsInit PROVE AcceptsWait
    OBVIOUS
  <2>1. Accepted = {} /\ Places(1) = {}
    BY DEF StatsInit, Accepted, Places, Counters
  <2> QED
    BY <2>1, FS_EmptySet DEF AcceptsWait
<1>2. StatsInv /\ AcceptsWait /\ [StatsNext]_statsVars => AcceptsWait'
  <2> SUFFICES ASSUME StatsInv, AcceptsWait, [StatsNext]_statsVars PROVE AcceptsWait'
    OBVIOUS
  <2>0. conn \in [Conns -> {"backlog", "open", "closed"} \cup Sending]
    BY DEF StatsInv, StatsTypeOK
  <2>1. ASSUME NEW c \in Conns, Accept(c) \/ Close(c) PROVE AcceptsWait'
    <3>1. /\ counting' = counting /\ chan' = chan
          /\ Accepted' = Accepted
      BY <2>0, <2>1 DEF Accept, Close, Stamp, Accepted
    <3> QED
      BY <3>1, AcceptsKept
  <2>2. ASSUME NEW c \in Conns, NEW k \in Transfers, Move(c, k) PROVE AcceptsWait'
    <3>1. counting' = counting /\ chan' = chan /\ Accepted' = Accepted
      BY <2>0, <2>2 DEF Move, Stamp, Accepted
    <3> QED
      BY <3>1, AcceptsKept
  <2>3. ASSUME NEW k \in Counters, Count(k) PROVE AcceptsWait'
    BY <2>3 DEF Count, Receive, AcceptsWait
  <2>4. CASE ClockTick \/ UNCHANGED statsVars
    <3>1. counting' = counting /\ chan' = chan /\ Accepted' = Accepted
      BY <2>4 DEF ClockTick, statsVars, Accepted
    <3> QED
      BY <3>1, AcceptsKept
  <2> QED
    BY <2>1, <2>2, <2>3, <2>4, AcceptsSend DEF StatsNext
<1>3. StatsInv /\ AcceptsWait => AcceptsBounded
  <2> SUFFICES ASSUME StatsInv, AcceptsWait, ~counting
               PROVE  IsFiniteSet(Accepted) /\ Cardinality(Accepted) <= Cap
    BY DEF AcceptsBounded
  <2> DEFINE s == chan["Connections"]
  <2>1. s \in Seq([t : 0..MaxTime, val : Int]) /\ Len(s) <= Cap
    BY DEF StatsInv, StatsTypeOK, Counters
  <2>2. Len(s) \in Nat /\ Places(1) \in SUBSET (1..Len(s))
    BY <2>1 DEF Places
  <2>3. IsFiniteSet(1..Len(s)) /\ Cardinality(1..Len(s)) = Len(s)
    BY <2>2, FS_Interval
  <2>4. Cardinality(Places(1)) <= Len(s) /\ Cardinality(Places(1)) \in Nat
    BY <2>2, <2>3, FS_Subset, FS_CardinalityType
  <2>5. IsFiniteSet(Accepted) /\ Cardinality(Accepted) = Cardinality(Places(1))
    BY DEF AcceptsWait
  <2> QED
    BY <2>1, <2>2, <2>4, <2>5, CapAssumption
<1> QED
  BY StatsAlwaysInv, <1>1, <1>2, <1>3, PTL DEF StatsSpec
=============================================================================
