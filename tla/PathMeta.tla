------------------------------ MODULE PathMeta ------------------------------
(***************************************************************************)
(* SetPathMeta of the MySQL client (src/util/mysql/mysql_client.go) called *)
(* by several requests at once: INSERT, and UPDATE when the INSERT fails   *)
(* for whatever reason, over a pool of connections.                        *)
(*                                                                         *)
(* A statement is sent over a connection of the pool, carried out by the   *)
(* server at any later time, and answered.  The connection may break in    *)
(* between; the server may carry the statement out all the same, even      *)
(* after the caller went on.  folderPath is the key of filer_path_ttl, and *)
(* nobody deletes its rows.                                                *)
(***************************************************************************)
EXTENDS Integers, FiniteSets

CONSTANTS Callers,            \* the calls of SetPathMeta; each makes one
          Paths,
          PathOf,             \* the path each call is for
          NoRow,              \* no row under a path
          MaxOpenConnections  \* of the pool

ASSUME PathOfAssumption == PathOf \in [Callers -> Paths]
ASSUME NoRowAssumption == NoRow \notin Callers
ASSUME PoolAssumption == MaxOpenConnections \in Nat \ {0}

Kinds      == {"insert", "update"}
Statements == [by : Callers, kind : Kinds]
Answers    == [by : Callers, kind : Kinds, ok : BOOLEAN]

VARIABLES
    pc,        \* where each call is
    net,       \* statements sent and not carried out
    answers,   \* answers on their way
    row,       \* external: the call that wrote the row of each path
    written,   \* history: the calls that wrote a row
    troubled   \* history: the calls with a statement refused or unanswered

serverVars == <<row, written>>
vars == <<pc, net, answers, serverVars, troubled>>

Finals == {"ok", "err"}
Waits  == {"insertWait", "updateWait"}
Stages == {"idle"} \cup Kinds \cup Waits \cup Finals

WaitFor(kind) == IF kind = "insert" THEN "insertWait" ELSE "updateWait"

-----------------------------------------------------------------------------
Init == /\ pc = [c \in Callers |-> "idle"]
        /\ net = {}
        /\ answers = {}
        /\ row = [p \in Paths |-> NoRow]
        /\ written = {}
        /\ troubled = {}

Goto(c, stage) == pc' = [pc EXCEPT ![c] = stage]

\* The pool opens no more than MaxOpenConnections; one more Exec waits.
InUse == {c \in Callers : pc[c] \in Waits}
Free  == Cardinality(InUse) < MaxOpenConnections

\* Mutant of KindOf: UPDATE first, INSERT when it fails.
KindOfSwapped(stage) == IF stage = "insert" THEN "update" ELSE "insert"

\* The statement Exec sends from a stage.
KindOf(stage) == stage

\* SetPathMeta is called with a path and a ttl.
Begin(c) == /\ pc[c] = "idle"
            /\ Goto(c, "insert")
            /\ UNCHANGED <<net, answers, serverVars, troubled>>

\* Client.Exec of Insert or Update.
Exec(c) == /\ pc[c] \in Kinds
           /\ Free
           /\ net' = net \cup {[by |-> c, kind |-> KindOf(pc[c])]}
           /\ Goto(c, WaitFor(KindOf(pc[c])))
           /\ UNCHANGED <<answers, serverVars, troubled>>

Take(c, kind, ok) ==
    LET a == [by |-> c, kind |-> kind, ok |-> ok]
    IN  /\ pc[c] = WaitFor(kind)
        /\ a \in answers
        /\ answers' = answers \ {a}
        /\ UNCHANGED <<net, serverVars, troubled>>

\* Mutant of InsertAnswered: an INSERT that fails ends the call, without an
\* error.
InsertAnsweredDone(c) == \E ok \in BOOLEAN : Take(c, "insert", ok) /\ Goto(c, "ok")

\* Any error of the INSERT is taken for a row that exists.
InsertAnswered(c) ==
    \E ok \in BOOLEAN : /\ Take(c, "insert", ok)
                        /\ Goto(c, IF ok THEN "ok" ELSE "update")

\* The number of rows an UPDATE affected is not looked at.
UpdateAnswered(c) ==
    \E ok \in BOOLEAN : /\ Take(c, "update", ok)
                        /\ Goto(c, IF ok THEN "ok" ELSE "err")

\* Mutant of ExecFails: a failed statement is sent again, for ever.
ExecFailsAgain(c) ==
    /\ pc[c] \in Waits
    /\ Goto(c, IF pc[c] = "insertWait" THEN "insert" ELSE "update")
    /\ answers' = {a \in answers : a.by # c}
    /\ troubled' = troubled \cup {c}
    /\ UNCHANGED <<net, serverVars>>

\* The connection breaks; an answer on its way is lost.
ExecFails(c) ==
    /\ pc[c] \in Waits
    /\ Goto(c, IF pc[c] = "insertWait" THEN "update" ELSE "err")
    /\ answers' = {a \in answers : a.by # c}
    /\ troubled' = troubled \cup {c}
    /\ UNCHANGED <<net, serverVars>>

-----------------------------------------------------------------------------
\* MySQL.
Answer(s, ok) ==
    /\ s \in net
    /\ net' = net \ {s}
    /\ answers' = IF pc[s.by] = WaitFor(s.kind)
                  THEN answers \cup {[by |-> s.by, kind |-> s.kind, ok |-> ok]}
                  ELSE answers
    /\ UNCHANGED pc

Write(c) == /\ row' = [row EXCEPT ![PathOf[c]] = c]
            /\ written' = written \cup {c}

\* INSERT INTO filer_path_ttl.
Insert(s) == /\ s.kind = "insert"
             /\ row[PathOf[s.by]] = NoRow
             /\ Write(s.by)
             /\ Answer(s, TRUE)
             /\ UNCHANGED troubled

Duplicate(s) == /\ s.kind = "insert"
                /\ row[PathOf[s.by]] # NoRow
                /\ Answer(s, FALSE)
                /\ UNCHANGED <<serverVars, troubled>>

\* UPDATE filer_path_ttl: without a row it changes nothing and succeeds.
Update(s) == /\ s.kind = "update"
             /\ IF row[PathOf[s.by]] # NoRow THEN Write(s.by) ELSE UNCHANGED serverVars
             /\ Answer(s, TRUE)
             /\ UNCHANGED troubled

\* A deadlock, a lock wait timeout, a server that is read-only.
Refuse(s) == /\ Answer(s, FALSE)
             /\ troubled' = troubled \cup {s.by}
             /\ UNCHANGED serverVars

-----------------------------------------------------------------------------
SetPathMeta(c) == \/ Begin(c) \/ Exec(c) \/ InsertAnswered(c)
                  \/ UpdateAnswered(c) \/ ExecFails(c)

Next == \/ \E c \in Callers : SetPathMeta(c)
        \/ \E s \in net : Insert(s) \/ Duplicate(s) \/ Update(s) \/ Refuse(s)

Spec == Init /\ [][Next]_vars

\* A call that began runs on; a statement is answered or its connection
\* breaks.
Running(c) == \/ Exec(c) \/ InsertAnswered(c) \/ UpdateAnswered(c) \/ ExecFails(c)
FairSpec == Spec /\ \A c \in Callers : WF_vars(Running(c))

-----------------------------------------------------------------------------
\* Every variable keeps its type.
TypeOK == /\ pc \in [Callers -> Stages]
          /\ net \subseteq Statements
          /\ answers \subseteq Answers
          /\ row \in [Paths -> Callers \cup {NoRow}]
          /\ written \subseteq Callers
          /\ troubled \subseteq Callers

\* SetPathMeta returns no error and leaves its path without a row only if
\* one of its statements was refused or got no answer: the UPDATE that
\* follows an INSERT refused for the row that exists finds that row.
OkHasRow == \A c \in Callers :
    pc[c] = "ok" /\ row[PathOf[c]] = NoRow => c \in troubled

\* For a caller, INSERT and UPDATE are one indivisible step: the two
\* statements of a call never both take effect, an ok means one did, and
\* what a later call wrote is not replaced by an earlier one, whatever other
\* calls do between them - calls in trouble apart.
Phase == [c \in Callers |-> IF pc[c] \in {"idle"} \cup Finals THEN pc[c] ELSE "calling"]
Table == INSTANCE PathTable WITH phase <- Phase
Atomic == Table!Spec

\* Every call of SetPathMeta returns, also when there are more of them than
\* connections.
Settles == \A c \in Callers : pc[c] \in Kinds \cup Waits ~> pc[c] \in Finals
=============================================================================
