------------------------------- MODULE Cache -------------------------------
(***************************************************************************)
(* The life of a redis entry: doSubmitFile caches the fid of a file under  *)
(* its path after the filer stored it, deleteFile removes the file and     *)
(* leaves the entry (src/server/proxy_file_handler.go), and the entry      *)
(* expires as ParseTtlDuration (src/util/config.go) and CacheFilePath      *)
(* (src/util/redis) had it.  One path, several uploads, deletions at any   *)
(* time; retries and lost calls are in Upload and Delete.                  *)
(*                                                                         *)
(* Time is counted in ticks, and a Duration in the same unit: its width is *)
(* 2 * (MaxInt + 1) values, as int64 has 2^64, so that a product may wrap. *)
(***************************************************************************)
EXTENDS Integers

CONSTANTS Uploads,   \* the uploads of files to the path; each gets a fid
          Ttls,      \* the values of RedisCacheTtl tried
          Units,     \* time.Minute ... as function of 'm', 'h', ...
          MaxInt,    \* the largest int64
          MaxAge,    \* bound: ages are counted up to here
          NoFile,    \* no file under the path
          Forever    \* what is left of an entry without expiry

\* A TTL as text: count is the number before the unit, if there is one
\* ("number") that fits ("huge" if not); unit is the last byte, "" if that
\* is a digit.
Texts == {"number", "huge", "junk"}

ASSUME TtlsAssumption ==
    \A t \in Ttls : /\ t.text \in Texts
                    /\ t.count \in (-MaxInt)..MaxInt
                    /\ t.unit \in DOMAIN Units \cup {"", "other"}
ASSUME UnitsAssumption ==
    /\ {"m", "h", "d", "w", "M", "y"} = DOMAIN Units
    /\ \A u \in DOMAIN Units : Units[u] \in 1..MaxInt
ASSUME BoundsAssumption == MaxInt \in Nat /\ MaxAge \in Nat /\ MaxAge > MaxInt
ASSUME SentinelsAssumption == NoFile \notin Uploads /\ Forever \notin Int

VARIABLES
    client,    \* "plain" or "cluster": NewRedisClusterClient wants several hosts
    ttl,       \* RedisCacheTtl, not empty
    pc,        \* where each upload is
    file,      \* external: the upload whose file the filer has
    entry,     \* external: the upload redis names, or NoFile
    left,      \* external: the ticks until the entry expires
    age,       \* history: the ticks since the entry was set
    goneFor    \* history: the ticks since each file was removed or replaced

vars == <<client, ttl, pc, file, entry, left, age, goneFor>>
config == <<client, ttl>>

-----------------------------------------------------------------------------
\* Mutant of toTtlUnit: 'M' is read as 'm'.
toTtlUnitFolded(unit) ==
    IF unit = "M" THEN Units["m"] ELSE IF unit \in DOMAIN Units THEN Units[unit] ELSE 0

toTtlUnit(unit) == IF unit \in DOMAIN Units THEN Units[unit] ELSE 0

\* strconv.ParseInt: 0 with an error, or the nearest value with an error.
ParseInt(t) == CASE t.text = "number" -> t.count
                 [] t.text = "huge"   -> MaxInt
                 [] t.text = "junk"   -> 0

\* int64 arithmetic.
Wrap(x) == ((x + MaxInt + 1) % (2 * (MaxInt + 1))) - (MaxInt + 1)

\* Mutant of ParseTtlDuration: a number without a unit is one of hours.
ParseTtlDurationHours(t) ==
    Wrap(ParseInt(t) * toTtlUnit(IF t.unit = "" THEN "h" ELSE t.unit))

\* A number without a unit is one of minutes.
ParseTtlDuration(t) ==
    Wrap(ParseInt(t) * toTtlUnit(IF t.unit = "" THEN "m" ELSE t.unit))

-----------------------------------------------------------------------------
Init == /\ client \in {"plain", "cluster"}
        /\ ttl \in Ttls
        /\ pc = [u \in Uploads |-> "start"]
        /\ file = NoFile
        /\ entry = NoFile
        /\ left = 0
        /\ age = 0
        /\ goneFor = [u \in Uploads |-> 0]

\* The POST of the file is answered; the filer drops the file it had.
Upload(u) == /\ pc[u] = "start"
             /\ pc' = [pc EXCEPT ![u] = "stored"]
             /\ file' = u
             /\ UNCHANGED <<config, entry, left, age, goneFor>>

Remember(u, till) == entry' = u /\ left' = till /\ age' = 0

\* SETEX, which redis refuses for an expiry that is not positive.
SetEx(u, d) == IF d > 0 THEN Remember(u, d) ELSE UNCHANGED <<entry, left, age>>

\* SET, with an expiry if it is positive.
Set(u, d) == Remember(u, IF d > 0 THEN d ELSE Forever)

\* Mutant of CacheFilePath: both clients use SET.
CacheFilePathSet(u) ==
    /\ pc[u] = "stored"
    /\ pc' = [pc EXCEPT ![u] = "done"]
    /\ Set(u, ParseTtlDuration(ttl))
    /\ UNCHANGED <<config, file, goneFor>>

\* The error of ParseTtlDuration is logged and the duration used.
CacheFilePath(u) ==
    /\ pc[u] = "stored"
    /\ pc' = [pc EXCEPT ![u] = "done"]
    /\ LET d == ParseTtlDuration(ttl)
       IN  IF client = "plain" THEN SetEx(u, d) ELSE Set(u, d)
    /\ UNCHANGED <<config, file, goneFor>>

\* The error of CacheFilePath is ignored.
CacheFails(u) ==
    /\ pc[u] = "stored"
    /\ pc' = [pc EXCEPT ![u] = "done"]
    /\ UNCHANGED <<config, file, entry, left, age, goneFor>>

\* deleteFile turns to the seaweedfs servers only.
Delete == /\ file # NoFile
          /\ file' = NoFile
          /\ UNCHANGED <<config, pc, entry, left, age, goneFor>>

Gone(u) == pc[u] # "start" /\ file # u
Older(n) == IF n < MaxAge THEN n + 1 ELSE n

\* A tick of the clock; redis drops an entry that expires.
Tick ==
    /\ goneFor' = [u \in Uploads |-> IF Gone(u) THEN Older(goneFor[u]) ELSE 0]
    /\ IF entry = NoFile THEN UNCHANGED <<entry, left, age>>
       ELSE /\ age' = Older(age)
            /\ left' = IF left = Forever THEN left ELSE left - 1
            /\ entry' = IF left = 1 THEN NoFile ELSE entry
    /\ UNCHANGED <<config, pc, file>>

Next == \/ \E u \in Uploads : Upload(u) \/ CacheFilePath(u) \/ CacheFails(u)
        \/ Delete
        \/ Tick

Spec == Init /\ [][Next]_vars
FairSpec == Spec /\ WF_vars(Tick)

-----------------------------------------------------------------------------
\* What the comment of ParseTtlDuration calls a TTL: a count of a known unit,
\* or of minutes, that a Duration can hold.
WellFormed(t) ==
    /\ t.text = "number" /\ t.unit # "other"
    /\ t.count > 0
    /\ t.count * Units[IF t.unit = "" THEN "m" ELSE t.unit] <= MaxInt
Documented(t) == t.count * Units[IF t.unit = "" THEN "m" ELSE t.unit]

\* Every variable keeps its type.
TypeOK == /\ client \in {"plain", "cluster"}
          /\ ttl \in Ttls
          /\ pc \in [Uploads -> {"start", "stored", "done"}]
          /\ file \in Uploads \cup {NoFile}
          /\ entry \in Uploads \cup {NoFile}
          /\ left \in 0..MaxInt \cup {Forever}
          /\ age \in 0..MaxAge
          /\ goneFor \in [Uploads -> 0..MaxAge]

\* An entry set under a well-formed TTL lives for exactly that long, and one
\* that never expires was set by the cluster client under a TTL that is not
\* well-formed: an unknown unit, no number, a count that is not positive or
\* a product that wrapped.
LivesItsTtl == entry # NoFile =>
    /\ WellFormed(ttl) => left # Forever /\ age + left = Documented(ttl)
    /\ left = Forever => client = "cluster" /\ ~WellFormed(ttl)

\* Nothing removes the entry of a file that is deleted or replaced, but
\* redis names it for less than the TTL after it is gone - unless it was
\* cached when it was gone already, by an upload a deletion overtook.
StaleWindow == \A u \in Uploads :
    entry = u /\ Gone(u) /\ WellFormed(ttl) /\ age >= goneFor[u]
        => goneFor[u] < Documented(ttl)

\* The entry of a file that is gone disappears or is replaced in the end,
\* whatever the TTL with the plain client, with a well-formed one with the
\* cluster client.
StaleDies == \A u \in Uploads :
    (client = "plain" \/ WellFormed(ttl)) /\ entry = u /\ Gone(u) ~> entry # u
=============================================================================
