------------------------------- MODULE Stats -------------------------------
(***************************************************************************)
(* The statistics of connections: Listener and Conn (src/server/           *)
(* listener.go) send timed values through bounded channels (src/stats/     *)
(* stats.go), one goroutine receives them, if somebody runs                *)
(* ServerStats.Start, and adds them to rings of counters, one slot per     *)
(* second, minute, ... (src/stats/duration_counter.go).                    *)
(*                                                                         *)
(* A value is stamped with the time before it is sent; a sender waits in   *)
(* between while the channel is full.  The functions that feed the other   *)
(* channels have no callers and are not modelled; NewListener and          *)
(* ServerStats.Start have none in the repository either, so that a server  *)
(* that listens through the one may do so with or without the other.       *)
(***************************************************************************)
EXTENDS Integers, Sequences, FiniteSets

CONSTANTS Conns,     \* the connections that come in
          Transfers, \* the counters of what Read and Write move
          Rings,     \* the rings of a DurationCounter
          Slots,     \* how many slots each has: 60, 60, 24, 7
          Unit,      \* the ticks one slot of it stands for
          Cap,       \* of the channels: 100
          MaxMoves,  \* bound: reads and writes of a connection
          MaxTime    \* bound: the last tick

Counters == {"Connections"} \cup Transfers

ASSUME RingsAssumption == Slots \in [Rings -> Nat \ {0}] /\ Unit \in [Rings -> Nat \ {0}]
ASSUME CapAssumption == Cap \in Nat \ {0}
ASSUME NamesAssumption == {"Connections", "none"} \cap Transfers = {}
ASSUME BoundsOfStats == MaxMoves \in Nat /\ MaxTime \in Nat

VARIABLES
    counting,  \* does somebody run ServerStats.Start?
    now,       \* the clock
    conn,      \* where each connection is
    moves,     \* the reads and writes of each connection
    value,     \* the value a goroutine is about to send
    chan,      \* the channels
    ring,      \* the rings of each counter: last, values, counts
    total,     \* history: the sum of the values counted
    got,       \* history: the same for each unit of time of each ring
    newest,    \* history: the newest time counted, -1 if there is none
    disorder   \* history: <<counter, ring>>s that got a value late, or the
               \* first one after a full turn

statsVars == <<counting, now, conn, moves, value, chan, ring, total, got, newest, disorder>>
counted == <<ring, total, got, newest, disorder>>

\* Stages in which a goroutine is about to send, and where it goes on.
Sending == {"opening", "moving", "closing"}
After(stage) == IF stage = "closing" THEN "closed" ELSE "open"

NoValue == [to |-> "none", t |-> 0, val |-> 0]

-----------------------------------------------------------------------------
Fresh(r) == [last |-> -1, values |-> [i \in 0..(Slots[r] - 1) |-> 0],
             counts |-> [i \in 0..(Slots[r] - 1) |-> 0]]

StatsInit ==
    /\ counting \in BOOLEAN
    /\ now = 0
    /\ conn = [c \in Conns |-> "backlog"]
    /\ moves = [c \in Conns |-> 0]
    /\ value = [c \in Conns |-> NoValue]
    /\ chan = [k \in Counters |-> <<>>]
    /\ ring = [k \in Counters |-> [r \in Rings |-> Fresh(r)]]
    /\ total = [k \in Counters |-> 0]
    /\ got = [k \in Counters |-> [r \in Rings |-> [u \in 0..MaxTime |-> 0]]]
    /\ newest = [k \in Counters |-> -1]
    /\ disorder = {}

\* NewTimedValue(time.Now(), val), in a goroutine of the connection.
Stamp(c, stage, k, val) ==
    /\ conn' = [conn EXCEPT ![c] = stage]
    /\ value' = [value EXCEPT ![c] = [to |-> k, t |-> now, val |-> val]]
    /\ UNCHANGED <<counting, now, chan, counted>>

\* The accept loop calls Accept when the last one has returned.
Accept(c) == /\ conn[c] = "backlog"
             /\ \A d \in Conns : conn[d] # "opening"
             /\ Stamp(c, "opening", "Connections", 1)
             /\ UNCHANGED moves

\* Read and Write that move a byte; those that fail count nothing.
Move(c, k) == /\ conn[c] = "open"
              /\ moves[c] < MaxMoves
              /\ moves' = [moves EXCEPT ![c] = @ + 1]
              /\ Stamp(c, "moving", k, 1)

\* Close counts before it closes; a server closes a connection once.
Close(c) == /\ conn[c] = "open"
            /\ Stamp(c, "closing", "Connections", -1)
            /\ UNCHANGED moves

\* Mutant of Send: a value that finds the channel full is dropped.
SendOrDrop(c) ==
    /\ conn[c] \in Sending
    /\ chan' = IF Len(chan[value[c].to]) < Cap
               THEN [chan EXCEPT ![value[c].to] = Append(@, [t |-> value[c].t, val |-> value[c].val])]
               ELSE chan
    /\ conn' = [conn EXCEPT ![c] = After(conn[c])]
    /\ value' = [value EXCEPT ![c] = NoValue]
    /\ UNCHANGED <<counting, now, moves, counted>>

\* Chan.Connections <- ...: waits while the channel is full.
Send(c) ==
    /\ conn[c] \in Sending
    /\ Len(chan[value[c].to]) < Cap
    /\ chan' = [chan EXCEPT ![value[c].to] = Append(@, [t |-> value[c].t, val |-> value[c].val])]
    /\ conn' = [conn EXCEPT ![c] = After(conn[c])]
    /\ value' = [value EXCEPT ![c] = NoValue]
    /\ UNCHANGED <<counting, now, moves, counted>>

-----------------------------------------------------------------------------
\* The slots from behind last up to index, going round; none if last = index.
Passed(last, index, n) ==
    {i \in 0..(n - 1) : last # index /\ (i - last - 1) % n <= (index - last - 1) % n}

\* Mutant of Add: only the slot turned to is emptied, not those passed.
AddSkipping(g, index, val, n) ==
    [last   |-> index,
     values |-> [g.values EXCEPT ![index] = IF g.last # index THEN val ELSE @ + val],
     counts |-> [g.counts EXCEPT ![index] = IF g.last # index THEN 1 ELSE @ + 1]]

\* RoundRobinCounter.Add: the slots passed on the way to index are emptied.
\* (An index behind the last slot, for which it returns, is not passed.)
\* LoopTheorem of SharedProofs is about its loop and this form of it.
Add(g, index, val, n) ==
    LET Emptied(f) == [i \in DOMAIN f |-> IF i \in Passed(g.last, index, n) THEN 0 ELSE f[i]]
    IN  [last   |-> index,
         values |-> [Emptied(g.values) EXCEPT ![index] = @ + val],
         counts |-> [Emptied(g.counts) EXCEPT ![index] = @ + 1]]

\* Second(), Minute(), Hour(), Weekday() of a time.
Index(t, r) == (t \div Unit[r]) % Slots[r]

\* A value of time t is late for a ring, or comes a full turn after the last.
OutOfTurn(k, r, t) == newest[k] >= 0 /\ t \div Unit[r] - newest[k] \div Unit[r] \notin 0..(Slots[r] - 1)

\* The history of a ring, with a value more in unit u.
Plus(f, u, val) == [f EXCEPT ![u] = @ + val]

\* A value is received and added by DurationCounter.Add.
Receive(k) ==
    /\ chan[k] # <<>>
    /\ LET v == Head(chan[k])
       IN  /\ chan' = [chan EXCEPT ![k] = Tail(@)]
           /\ ring' = [ring EXCEPT ![k] =
                 [r \in Rings |-> Add(@[r], Index(v.t, r), v.val, Slots[r])]]
           /\ total' = [total EXCEPT ![k] = @ + v.val]
           /\ got' = [got EXCEPT ![k] =
                 [r \in Rings |-> Plus(@[r], v.t \div Unit[r], v.val)]]
           /\ newest' = [newest EXCEPT ![k] = IF v.t > @ THEN v.t ELSE @]
           /\ disorder' = disorder \cup {<<k, r>> : r \in {x \in Rings : OutOfTurn(k, x, v.t)}}
    /\ UNCHANGED <<counting, now, conn, moves, value>>

\* Mutant of Count: the select of Start lacks the case of the connections.
CountTransfers(k) == counting /\ k \in Transfers /\ Receive(k)

\* A case of the select of Start.
Count(k) == counting /\ Receive(k)

ClockTick == /\ now < MaxTime
             /\ now' = now + 1
             /\ UNCHANGED <<counting, conn, moves, value, chan, counted>>

StatsNext == \/ \E c \in Conns : Accept(c) \/ Close(c) \/ Send(c)
             \/ \E c \in Conns, k \in Transfers : Move(c, k)
             \/ \E k \in Counters : Count(k)
             \/ ClockTick

StatsSpec == StatsInit /\ [][StatsNext]_statsVars

\* Goroutines that can run do, and select starves no channel.
StatsFairSpec == /\ StatsSpec
                 /\ \A c \in Conns : WF_statsVars(Send(c))
                 /\ \A k \in Counters : WF_statsVars(Count(k))

-----------------------------------------------------------------------------
\* Every variable keeps its type.
StatsTypeOK ==
    /\ counting \in BOOLEAN
    /\ now \in 0..MaxTime
    /\ conn \in [Conns -> {"backlog", "open", "closed"} \cup Sending]
    /\ moves \in [Conns -> 0..MaxMoves]
    /\ value \in [Conns -> [to : Counters \cup {"none"}, t : 0..MaxTime, val : Int]]
    /\ \A c \in Conns : conn[c] \in Sending <=> value[c].to # "none"
    /\ chan \in [Counters -> Seq([t : 0..MaxTime, val : Int])]
    /\ \A k \in Counters : Len(chan[k]) <= Cap
    /\ DOMAIN ring = Counters /\ \A k \in Counters : DOMAIN ring[k] = Rings
    /\ \A k \in Counters, r \in Rings :
          ring[k][r] \in [last : -1..(Slots[r] - 1), values : [0..(Slots[r] - 1) -> Int],
                          counts : [0..(Slots[r] - 1) -> Int]]
    /\ total \in [Counters -> Int]
    /\ got \in [Counters -> [Rings -> [0..MaxTime -> Int]]]
    /\ newest \in [Counters -> -1..MaxTime]
    /\ disorder \subseteq Counters \X Rings

\* The connections whose Accept has returned and whose Close has not counted,
\* and the places in the channel that hold the value x.
Open == {c \in Conns : conn[c] \in {"open", "moving", "closing"}}
Places(x) == {i \in DOMAIN chan["Connections"] : chan["Connections"][i].val = x}

\* The number of connections counted is behind the truth by what waits in
\* the channel, nothing else.
NothingLost ==
    total["Connections"] + Cardinality(Places(1)) - Cardinality(Places(-1)) = Cardinality(Open)

\* The connections whose Accept has returned.
Accepted == {c \in Conns : conn[c] \notin {"backlog", "opening"}}

\* A server that listens through NewListener without ServerStats.Start
\* accepts no more connections than the channel has room for, open or closed:
\* then the accept loop stays in the Send of the next one.
AcceptsBounded == ~counting => IsFiniteSet(Accepted) /\ Cardinality(Accepted) <= Cap

\* A slot of a ring holds the sum of its unit of time in the last turn - the
\* ring is the last minute, hour, ... up to the newest value - as long as no
\* value came late and none came a full turn after the one before.
RingIsWindow == \A k \in Counters, r \in Rings :
    newest[k] >= 0 /\ <<k, r>> \notin disorder =>
        LET top == newest[k] \div Unit[r]
        IN  \A u \in (top - Slots[r] + 1)..top :
               ring[k][r].values[u % Slots[r]] = IF u < 0 THEN 0 ELSE got[k][r][u]

\* If somebody counts, whoever waits to send goes on: the accept loop and
\* every connection that is read, written or closed.
EveryoneProceeds == \A c \in Conns :
    counting /\ conn[c] \in Sending ~> conn[c] \notin Sending
=============================================================================
