--------------------------- MODULE PathMetaProofs ---------------------------
(***************************************************************************)
(* SetPathMeta of the MySQL client, for any number of calls, paths and     *)
(* connections: INSERT and then UPDATE implement the indivisible step of   *)
(* PathTable, and an ok leaves a row.                                      *)
(***************************************************************************)
EXTENDS PathMeta, TLAPS

\* The statement of a call without trouble is being waited for.
Waited == \A s \in net : s.by \notin troubled => pc[s.by] = WaitFor(s.kind)

\* So is every answer.
Heard == \A a \in answers : pc[a.by] = WaitFor(a.kind)

\* A statement is answered once.
Once == /\ \A s \in net, a \in answers : <<s.by, s.kind>> # <<a.by, a.kind>>
        /\ \A a, b \in answers : <<a.by, a.kind>> = <<b.by, b.kind>> => a = b

\* Without trouble, a call has written a row if and only if it was told so.
Effect == \A c \in Callers \ troubled :
    c \in written <=> \/ pc[c] = "ok"
                      \/ \E k \in Kinds : [by |-> c, kind |-> k, ok |-> TRUE] \in answers

\* Without trouble, an INSERT fails for the row that exists, and an UPDATE
\* does not fail.
Refused == \A c \in Callers \ troubled :
    /\ pc[c] # "err"
    /\ [by |-> c, kind |-> "update", ok |-> FALSE] \notin answers
    /\ \/ pc[c] \in {"update", "updateWait", "ok"}
       \/ [by |-> c, kind |-> "insert", ok |-> FALSE] \in answers
       => row[PathOf[c]] # NoRow

\* Rows are not deleted.
RowInv == \A c \in written : row[PathOf[c]] # NoRow

IInv == TypeOK /\ Waited /\ Heard /\ Once /\ Effect /\ Refused /\ RowInv

-----------------------------------------------------------------------------
\* The stages in which a call waits.
LEMMA WaitStages ==
  ASSUME NEW k \in Kinds
  PROVE  /\ WaitFor(k) \in Waits
         /\ WaitFor(k) \notin {"idle", "ok", "err"} \cup Kinds
         /\ \A j \in Kinds : WaitFor(j) = WaitFor(k) => j = k
BY DEF Kinds, WaitFor, Waits

\* What a step of MySQL leaves of the pieces of the invariant that do not
\* speak of rows.
LEMMA AnswerStep ==
  ASSUME TypeOK, Waited, Heard, Once, NEW s \in net, NEW ok \in BOOLEAN, Answer(s, ok)
  PROVE  /\ pc' = pc
         /\ net' \subseteq net
         /\ answers' \subseteq Answers
         /\ \A a \in answers' :
               \/ a \in answers
               \/ /\ a = [by |-> s.by, kind |-> s.kind, ok |-> ok]
                  /\ pc[s.by] = WaitFor(s.kind)
         /\ answers \subseteq answers'
         /\ pc[s.by] = WaitFor(s.kind) => [by |-> s.by, kind |-> s.kind, ok |-> ok] \in answers'
         /\ Heard' /\ Once'
         /\ s.by \in Callers /\ s.kind \in Kinds
<1> DEFINE a0 == [by |-> s.by, kind |-> s.kind, ok |-> ok]
<1>1. s.by \in Callers /\ s.kind \in Kinds /\ a0 \in Answers
  BY DEF TypeOK, Statements, Answers
<1>2. /\ pc' = pc /\ net' = net \ {s}
      /\ answers' = IF pc[s.by] = WaitFor(s.kind) THEN answers \cup {a0} ELSE answers
  BY DEF Answer
<1>3. Heard'
  BY <1>2 DEF Heard
<1>4. \A t \in net' : <<t.by, t.kind>> # <<s.by, s.kind>>
  BY <1>2 DEF TypeOK, Statements
<1>5. \A a \in answers : <<a.by, a.kind>> # <<s.by, s.kind>>
  BY DEF Once
<1>6. Once'
  BY <1>2, <1>4, <1>5 DEF Once
<1> QED BY <1>1, <1>2, <1>3, <1>6 DEF TypeOK

\* What a handler that reads an answer leaves.
LEMMA TakeStep ==
  ASSUME TypeOK, Waited, Heard, Once, NEW c \in Callers, NEW k \in Kinds,
         NEW ok \in BOOLEAN, Take(c, k, ok), NEW st \in Stages, Goto(c, st), st \notin Waits
  PROVE  /\ Waited' /\ Heard' /\ Once'
         /\ pc' \in [Callers -> Stages] /\ pc'[c] = st
         /\ \A d \in Callers \ {c} : pc'[d] = pc[d]
         /\ answers' \subseteq answers
         /\ \A a \in answers' : a.by # c
         /\ \A a \in answers : a.by # c => a \in answers'
         /\ [by |-> c, kind |-> k, ok |-> ok] \in answers
         /\ \A a \in answers : a.by = c => a = [by |-> c, kind |-> k, ok |-> ok]
         /\ pc[c] = WaitFor(k)
<1> DEFINE a0 == [by |-> c, kind |-> k, ok |-> ok]
<1>1. /\ pc[c] = WaitFor(k) /\ a0 \in answers /\ answers' = answers \ {a0}
      /\ pc' = [pc EXCEPT ![c] = st] /\ UNCHANGED <<net, troubled>>
  BY DEF Take, Goto
<1>2. ASSUME NEW a \in answers, a.by = c
      PROVE  a = a0
  <2>1. a.kind \in Kinds /\ WaitFor(a.kind) = WaitFor(k)
    BY <1>1, <1>2 DEF Heard, TypeOK, Answers
  <2>2. a.kind = k
    BY <2>1, WaitStages
  <2> QED BY <1>1, <1>2, <2>2 DEF Once
<1>3. pc' \in [Callers -> Stages] /\ pc'[c] = st /\ \A d \in Callers \ {c} : pc'[d] = pc[d]
  BY <1>1 DEF TypeOK
<1>4. \A a \in answers' : a \in answers /\ a.by # c
  BY <1>1, <1>2
<1>5. Heard'
  BY <1>3, <1>4 DEF Heard, TypeOK, Answers
<1>6. Once'
  BY <1>1 DEF Once
<1>7. Waited'
  <2> SUFFICES ASSUME NEW s \in net, s.by \notin troubled
               PROVE  pc'[s.by] = WaitFor(s.kind)
    BY <1>1 DEF Waited
  <2>1. s.by \in Callers /\ s.kind \in Kinds /\ pc[s.by] = WaitFor(s.kind)
    BY DEF Waited, TypeOK, Statements
  <2>2. s.by # c
    <3> SUFFICES ASSUME s.by = c PROVE FALSE
      OBVIOUS
    <3>1. s.kind = k
      BY <1>1, <2>1, WaitStages
    <3> QED BY <1>1, <3>1 DEF Once
  <2> QED BY <1>3, <2>1, <2>2
<1> QED BY <1>1, <1>2, <1>3, <1>4, <1>5, <1>6, <1>7

-----------------------------------------------------------------------------
LEMMA InitIInv == Init => IInv
BY PathOfAssumption DEF Init, IInv, TypeOK, Waited, Heard, Once, Effect, Refused, RowInv,
   Stages, Kinds, Waits, Finals

LEMMA StutterIInv == IInv /\ UNCHANGED vars => IInv'
BY DEF vars, serverVars, IInv, TypeOK, Waited, Heard, Once, Effect, Refused, RowInv

LEMMA BeginIInv == ASSUME IInv, NEW c \in Callers, Begin(c) PROVE IInv'
<1>1. /\ pc[c] = "idle" /\ pc' = [pc EXCEPT ![c] = "insert"]
      /\ UNCHANGED <<net, answers, row, written, troubled>>
  BY DEF Begin, Goto, serverVars
<1>2. TypeOK'
  BY <1>1 DEF IInv, TypeOK, Stages, Kinds
<1>3. Waited' /\ Heard'
  BY <1>1, WaitStages DEF IInv, TypeOK, Waited, Heard, Statements, Answers
<1>4. Once' /\ RowInv'
  BY <1>1 DEF IInv, Once, RowInv
<1>5. Effect' /\ Refused'
  BY <1>1 DEF IInv, TypeOK, Effect, Refused
<1> QED BY <1>2, <1>3, <1>4, <1>5 DEF IInv

LEMMA ExecIInv == ASSUME IInv, NEW c \in Callers, Exec(c) PROVE IInv'
<1> DEFINE k == pc[c]
           s0 == [by |-> c, kind |-> k]
<1>1. /\ k \in Kinds /\ net' = net \cup {s0} /\ pc' = [pc EXCEPT ![c] = WaitFor(k)]
      /\ UNCHANGED <<answers, row, written, troubled>>
  BY DEF Exec, KindOf, Goto, serverVars
<1>2. TypeOK'
  BY <1>1, WaitStages DEF IInv, TypeOK, Statements, Stages
<1>3. \A a \in answers : a.by # c
  BY <1>1, WaitStages DEF IInv, Heard, TypeOK, Answers
<1>4. \A s \in net : s.by = c => c \in troubled
  BY <1>1, WaitStages DEF IInv, Waited, TypeOK, Statements
<1>5. Waited'
  BY <1>1, <1>4 DEF IInv, Waited, TypeOK, Statements
<1>6. Heard' /\ Once'
  BY <1>1, <1>3 DEF IInv, Heard, Once, TypeOK, Answers
<1>7. RowInv'
  BY <1>1 DEF IInv, RowInv
<1>8. Effect'
  <2>1. pc'[c] # "ok" /\ pc[c] # "ok"
    BY <1>1, WaitStages DEF IInv, TypeOK, Kinds
  <2> QED BY <1>1, <2>1 DEF IInv, TypeOK, Effect
<1>9. Refused'
  BY <1>1 DEF IInv, TypeOK, Refused, Kinds, WaitFor
<1> QED BY <1>2, <1>5, <1>6, <1>7, <1>8, <1>9 DEF IInv

LEMMA InsertAnsweredIInv ==
  ASSUME IInv, NEW c \in Callers, InsertAnswered(c) PROVE IInv'
<1>1. PICK ok \in BOOLEAN : Take(c, "insert", ok) /\ Goto(c, IF ok THEN "ok" ELSE "update")
  BY DEF InsertAnswered
<1> DEFINE st == IF ok THEN "ok" ELSE "update"
<1>2. st \in Stages /\ st \notin Waits /\ "insert" \in Kinds
  BY DEF Stages, Finals, Kinds, Waits
<1>3. UNCHANGED <<net, row, written, troubled>>
  BY <1>1 DEF Take, serverVars
<1> HIDE DEF st
<1>4. /\ Waited' /\ Heard' /\ Once'
      /\ pc' \in [Callers -> Stages] /\ pc'[c] = st
      /\ \A d \in Callers \ {c} : pc'[d] = pc[d]
      /\ answers' \subseteq answers
      /\ \A a \in answers' : a.by # c
      /\ \A a \in answers : a.by # c => a \in answers'
      /\ [by |-> c, kind |-> "insert", ok |-> ok] \in answers
      /\ \A a \in answers : a.by = c => a = [by |-> c, kind |-> "insert", ok |-> ok]
      /\ pc[c] = WaitFor("insert")
  BY <1>1, <1>2, TakeStep DEF IInv, st
<1>5. TypeOK' /\ RowInv'
  BY <1>3, <1>4 DEF IInv, TypeOK, RowInv
<1>6. Effect'
  <2>1. CASE c \in troubled
    BY <1>3, <1>4, <2>1 DEF IInv, Effect
  <2>2. CASE c \notin troubled
    <3>1. c \in written <=> ok
      <4>1. pc[c] # "ok"
        BY <1>4 DEF WaitFor
      <4>2. c \in written <=> \E k \in Kinds : [by |-> c, kind |-> k, ok |-> TRUE] \in answers
        BY <2>2, <4>1 DEF IInv, Effect
      <4>3. ASSUME NEW k \in Kinds, [by |-> c, kind |-> k, ok |-> TRUE] \in answers
            PROVE  ok
        BY <1>4, <4>3
      <4> QED BY <1>2, <1>4, <4>2, <4>3
    <3>2. c \in written' <=> pc'[c] = "ok"
      BY <1>3, <1>4, <3>1 DEF st
    <3> QED BY <1>3, <1>4, <3>2 DEF IInv, Effect
  <2> QED BY <2>1, <2>2
<1>7. Refused'
  <2>1. ASSUME c \notin troubled
        PROVE  row[PathOf[c]] # NoRow
    <3>1. ok => c \in written
      BY <1>4, <2>1 DEF IInv, Effect, Kinds
    <3> QED BY <1>4, <2>1, <3>1 DEF IInv, Refused, RowInv
  <2> QED BY <1>3, <1>4, <2>1 DEF IInv, Refused, st
<1> QED BY <1>4, <1>5, <1>6, <1>7 DEF IInv

LEMMA UpdateAnsweredIInv ==
  ASSUME IInv, NEW c \in Callers, UpdateAnswered(c) PROVE IInv'
<1>1. PICK ok \in BOOLEAN : Take(c, "update", ok) /\ Goto(c, IF ok THEN "ok" ELSE "err")
  BY DEF UpdateAnswered
<1> DEFINE st == IF ok THEN "ok" ELSE "err"
<1>2. st \in Stages /\ st \notin Waits /\ "update" \in Kinds
  BY DEF Stages, Finals, Kinds, Waits
<1>3. UNCHANGED <<net, row, written, troubled>>
  BY <1>1 DEF Take, serverVars
<1> HIDE DEF st
<1>4. /\ Waited' /\ Heard' /\ Once'
      /\ pc' \in [Callers -> Stages] /\ pc'[c] = st
      /\ \A d \in Callers \ {c} : pc'[d] = pc[d]
      /\ answers' \subseteq answers
      /\ \A a \in answers' : a.by # c
      /\ \A a \in answers : a.by # c => a \in answers'
      /\ [by |-> c, kind |-> "update", ok |-> ok] \in answers
      /\ \A a \in answers : a.by = c => a = [by |-> c, kind |-> "update", ok |-> ok]
      /\ pc[c] = WaitFor("update")
  BY <1>1, <1>2, TakeStep DEF IInv, st
<1>5. TypeOK' /\ RowInv'
  BY <1>3, <1>4 DEF IInv, TypeOK, RowInv
<1>6. c \notin troubled => ok /\ c \in written /\ row[PathOf[c]] # NoRow
  BY <1>4 DEF IInv, Refused, Effect, RowInv, Kinds
<1>7. Effect'
  BY <1>3, <1>4, <1>6 DEF IInv, Effect, st
<1>8. Refused'
  BY <1>3, <1>4, <1>6 DEF IInv, Refused, st
<1> QED BY <1>4, <1>5, <1>7, <1>8 DEF IInv

LEMMA ExecFailsIInv == ASSUME IInv, NEW c \in Callers, ExecFails(c) PROVE IInv'
<1> DEFINE st == IF pc[c] = "insertWait" THEN "update" ELSE "err"
<1>1. /\ pc' = [pc EXCEPT ![c] = st]
      /\ answers' = {a \in answers : a.by # c}
      /\ troubled' = troubled \cup {c}
      /\ UNCHANGED <<net, row, written>>
  BY DEF ExecFails, Goto, serverVars
<1>2. st \in Stages
  BY DEF Stages, Kinds, Finals
<1> HIDE DEF st
<1>3. TypeOK'
  BY <1>1, <1>2 DEF IInv, TypeOK
<1>4. Waited' /\ Heard'
  BY <1>1, <1>2 DEF IInv, TypeOK, Waited, Heard, Statements, Answers
<1>5. Once' /\ RowInv'
  BY <1>1 DEF IInv, Once, RowInv
<1>6. Effect' /\ Refused'
  BY <1>1 DEF IInv, TypeOK, Effect, Refused
<1> QED BY <1>3, <1>4, <1>5, <1>6 DEF IInv

\* The row of a path a statement of MySQL writes.
LEMMA WriteStep ==
  ASSUME TypeOK, NEW c \in Callers, Write(c)
  PROVE  /\ row' \in [Paths -> Callers \cup {NoRow}]
         /\ row'[PathOf[c]] = c /\ c # NoRow
         /\ \A p \in Paths : row'[p] = row[p] \/ row'[p] = c
         /\ written' = written \cup {c}
BY PathOfAssumption, NoRowAssumption DEF TypeOK, Write

\* A step of MySQL keeps the invariant if it writes the row when the answer
\* is ok, and otherwise either finds the row or makes trouble.
LEMMA ServerStep ==
  ASSUME IInv, NEW s \in net, NEW ok \in BOOLEAN, Answer(s, ok),
         \/ Write(s.by) /\ ok /\ UNCHANGED troubled
         \/ UNCHANGED <<serverVars, troubled>> /\ ok /\ s.by \in troubled
         \/ /\ UNCHANGED <<serverVars, troubled>> /\ ~ok
            /\ s.kind = "insert" /\ row[PathOf[s.by]] # NoRow
         \/ UNCHANGED serverVars /\ ~ok /\ troubled' = troubled \cup {s.by}
  PROVE  IInv'
<1> DEFINE c == s.by
           a0 == [by |-> s.by, kind |-> s.kind, ok |-> ok]
<1>1. /\ pc' = pc
      /\ net' \subseteq net
      /\ answers' \subseteq Answers
      /\ \A a \in answers' : a \in answers \/ (a = a0 /\ pc[s.by] = WaitFor(s.kind))
      /\ answers \subseteq answers'
      /\ pc[s.by] = WaitFor(s.kind) => a0 \in answers'
      /\ Heard' /\ Once'
      /\ s.by \in Callers /\ s.kind \in Kinds
  BY AnswerStep DEF IInv
<1>2. /\ row' \in [Paths -> Callers \cup {NoRow}]
      /\ \A p \in Paths : row[p] # NoRow => row'[p] # NoRow
      /\ written' \subseteq Callers /\ written \subseteq written'
      /\ \A d \in written' : d \in written \/ (d = c /\ row'[PathOf[c]] # NoRow)
      /\ troubled' \subseteq Callers /\ troubled \subseteq troubled'
  BY <1>1, WriteStep DEF IInv, TypeOK, serverVars
<1>3. TypeOK'
  BY <1>1, <1>2 DEF IInv, TypeOK
<1>4. Waited'
  BY <1>1, <1>2 DEF IInv, Waited
<1>5. RowInv'
  BY <1>2, PathOfAssumption DEF IInv, RowInv, TypeOK
<1>6. c \notin troubled => pc[c] = WaitFor(s.kind) /\ pc[c] \in Waits
                           /\ pc[c] # "ok" /\ c \notin written
  <2> SUFFICES ASSUME c \notin troubled
               PROVE  pc[c] = WaitFor(s.kind) /\ pc[c] \in Waits
                      /\ pc[c] # "ok" /\ c \notin written
    OBVIOUS
  <2>1. pc[c] = WaitFor(s.kind)
    BY DEF IInv, Waited
  <2>2. pc[c] \in Waits /\ pc[c] # "ok"
    BY <1>1, <2>1, WaitStages
  <2>3. ASSUME NEW k \in Kinds, [by |-> c, kind |-> k, ok |-> TRUE] \in answers
        PROVE  FALSE
    <3>1. WaitFor(k) = WaitFor(s.kind)
      BY <2>1, <2>3 DEF IInv, Heard
    <3>2. k = s.kind
      BY <1>1, <3>1, WaitStages
    <3> QED BY <2>3, <3>2 DEF IInv, Once
  <2> QED BY <1>1, <2>1, <2>2, <2>3 DEF IInv, Effect
<1>7. \A d \in Callers \ {c} : \A k \in Kinds, v \in BOOLEAN :
        [by |-> d, kind |-> k, ok |-> v] \in answers'
           <=> [by |-> d, kind |-> k, ok |-> v] \in answers
  BY <1>1
<1>8. Effect'
  <2>1. \A d \in Callers \ {c} : d \in written' <=> d \in written
    BY <1>2
  <2>2. c \notin troubled' =>
          (c \in written' <=> \/ pc'[c] = "ok"
                             \/ \E k \in Kinds : [by |-> c, kind |-> k, ok |-> TRUE] \in answers')
    <3> SUFFICES ASSUME c \notin troubled'
                 PROVE  c \in written' <=>
                          \/ pc'[c] = "ok"
                          \/ \E k \in Kinds : [by |-> c, kind |-> k, ok |-> TRUE] \in answers'
      OBVIOUS
    <3>1. c \notin troubled /\ pc'[c] # "ok" /\ c \notin written /\ a0 \in answers'
      BY <1>1, <1>2, <1>6
    <3>2. \A k \in Kinds : [by |-> c, kind |-> k, ok |-> TRUE] \notin answers
      BY <1>1, <3>1 DEF IInv, Effect
    <3>3. CASE ok
      <4>1. c \in written'
        BY <1>1, <3>1, <3>3, WriteStep DEF IInv
      <4> QED BY <1>1, <3>1, <3>3, <4>1
    <3>4. CASE ~ok
      <4>1. c \notin written'
        BY <3>1, <3>4 DEF serverVars
      <4>2. \A k \in Kinds : [by |-> c, kind |-> k, ok |-> TRUE] \notin answers'
        BY <1>1, <3>2, <3>4
      <4> QED BY <3>1, <4>1, <4>2
    <3> QED BY <3>3, <3>4
  <2> QED BY <1>1, <1>2, <1>7, <2>1, <2>2 DEF IInv, Effect
<1>9. Refused'
  <2> SUFFICES ASSUME NEW d \in Callers \ troubled'
               PROVE  /\ pc'[d] # "err"
                      /\ [by |-> d, kind |-> "update", ok |-> FALSE] \notin answers'
                      /\ \/ pc'[d] \in {"update", "updateWait", "ok"}
                         \/ [by |-> d, kind |-> "insert", ok |-> FALSE] \in answers'
                         => row'[PathOf[d]] # NoRow
    BY DEF Refused
  <2>1. d \in Callers \ troubled
    BY <1>2
  <2>2. PathOf[d] \in Paths
    BY PathOfAssumption
  <2>3. CASE d # c
    BY <1>1, <1>2, <2>1, <2>2, <2>3 DEF IInv, Refused
  <2>4. CASE d = c
    <3>1. ~ok => s.kind = "insert" /\ row[PathOf[c]] # NoRow
      BY <2>4
    <3>2. [by |-> c, kind |-> "update", ok |-> FALSE] \notin answers'
      BY <1>1, <2>1, <2>4, <3>1 DEF IInv, Refused
    <3>3. [by |-> c, kind |-> "insert", ok |-> FALSE] \in answers' => row[PathOf[c]] # NoRow
      BY <1>1, <2>1, <2>4, <3>1 DEF IInv, Refused
    <3> QED BY <1>1, <1>2, <2>1, <2>2, <2>4, <3>2, <3>3 DEF IInv, Refused
  <2> QED BY <2>3, <2>4
<1> QED BY <1>1, <1>3, <1>4, <1>5, <1>8, <1>9 DEF IInv

LEMMA NextIInv == IInv /\ [Next]_vars => IInv'
<1> SUFFICES ASSUME IInv, [Next]_vars PROVE IInv'
  OBVIOUS
<1>1. ASSUME NEW c \in Callers, SetPathMeta(c)
      PROVE  IInv'
  BY <1>1, BeginIInv, ExecIInv, InsertAnsweredIInv, UpdateAnsweredIInv, ExecFailsIInv
     DEF SetPathMeta
<1>2. ASSUME NEW s \in net, Insert(s)
      PROVE  IInv'
  BY <1>2, ServerStep DEF Insert
<1>3. ASSUME NEW s \in net, Duplicate(s)
      PROVE  IInv'
  BY <1>3, ServerStep DEF Duplicate
<1>4. ASSUME NEW s \in net, Update(s)
      PROVE  IInv'
  <2>1. s.by \notin troubled => row[PathOf[s.by]] # NoRow
    <3>1. s.by \in Callers /\ (s.by \notin troubled => pc[s.by] = "updateWait")
      BY <1>4 DEF Update, IInv, Waited, WaitFor, TypeOK, Statements
    <3> QED BY <3>1 DEF IInv, Refused
  <2> QED BY <1>4, <2>1, ServerStep DEF Update
<1>5. ASSUME NEW s \in net, Refuse(s)
      PROVE  IInv'
  BY <1>5, ServerStep DEF Refuse
<1> QED BY <1>1, <1>2, <1>3, <1>4, <1>5, StutterIInv DEF Next

-----------------------------------------------------------------------------
\* Every state of the client and the server satisfies the invariant.
THEOREM Invariant == Spec => []IInv
<1>1. Init => IInv
  BY InitIInv
<1>2. IInv /\ [Next]_vars => IInv'
  BY NextIInv
<1> QED BY <1>1, <1>2, PTL DEF Spec

\* Every variable keeps its type, for any number of calls and connections.
THEOREM TypeCorrect == Spec => []TypeOK
<1>1. IInv => TypeOK
  BY DEF IInv
<1> QED BY <1>1, Invariant, PTL

\* SetPathMeta that returns no error and had no trouble leaves a row
\* (OkHasRow): an INSERT that fails without trouble fails for the row the
\* UPDATE then finds, and nobody deletes it.
THEOREM OkLeavesRow == Spec => []OkHasRow
<1>1. IInv => OkHasRow
  BY DEF IInv, Refused, OkHasRow
<1> QED BY <1>1, Invariant, PTL

-----------------------------------------------------------------------------
\* How a change of stage changes the phase.
LEMMA PhaseStep ==
  ASSUME TypeOK, NEW c \in Callers, NEW st \in Stages, Goto(c, st)
  PROVE  Phase' = [Phase EXCEPT ![c] = IF st \in {"idle"} \cup Finals THEN st ELSE "calling"]
BY DEF TypeOK, Goto, Phase

\* Nothing happens in the table while the phases stay.
LEMMA TableStutter ==
  ASSUME Phase' = Phase, UNCHANGED <<serverVars, troubled>>
  PROVE  UNCHANGED Table!vars
BY DEF Table!vars, serverVars

\* The first step of a call is its beginning; the others, up to its return,
\* are its failures or nothing.
LEMMA CallerRefines ==
  ASSUME IInv, NEW c \in Callers, SetPathMeta(c)
  PROVE  [Table!Next]_(Table!vars)
<1> USE DEF IInv
<1>1. CASE Begin(c)
  <2>1. Phase' = [Phase EXCEPT ![c] = "calling"]
    BY <1>1, PhaseStep DEF Begin, Stages, Kinds, Finals
  <2>2. Table!Begin(c)
    BY <1>1, <2>1 DEF Table!Begin, Begin, Phase, serverVars, TypeOK
  <2> QED BY <2>2 DEF Table!Next
<1>2. CASE Exec(c)
  <2>1. pc[c] \in Kinds /\ Goto(c, WaitFor(pc[c])) /\ WaitFor(pc[c]) \in Stages
    BY <1>2, WaitStages DEF Exec, KindOf, Stages
  <2>2. Phase' = [Phase EXCEPT ![c] = "calling"] /\ Phase[c] = "calling"
    BY <2>1, PhaseStep, WaitStages DEF Phase, Finals, Kinds
  <2>3. Phase' = Phase
    BY <2>2 DEF Phase
  <2> QED BY <1>2, <2>3, TableStutter DEF Exec
<1>3. CASE InsertAnswered(c)
  <2>1. PICK ok \in BOOLEAN : Take(c, "insert", ok) /\ Goto(c, IF ok THEN "ok" ELSE "update")
    BY <1>3 DEF InsertAnswered
  <2>2. Phase[c] = "calling" /\ UNCHANGED <<serverVars, troubled>>
    BY <2>1 DEF Take, WaitFor, Phase, Finals
  <2>3. CASE ok
    <3>1. Phase' = [Phase EXCEPT ![c] = "ok"]
      BY <2>1, <2>3, PhaseStep DEF Stages, Finals
    <3>2. c \in written \cup troubled
      BY <2>1, <2>3 DEF Take, Effect, Kinds
    <3>3. Table!Return(c)
      BY <2>2, <3>1, <3>2 DEF Table!Return, serverVars
    <3> QED BY <3>3 DEF Table!Next
  <2>4. CASE ~ok
    <3>1. Phase' = [Phase EXCEPT ![c] = "calling"]
      BY <2>1, <2>4, PhaseStep DEF Stages, Kinds, Finals
    <3>2. Phase' = Phase
      BY <2>2, <3>1 DEF Phase
    <3> QED BY <2>2, <3>2, TableStutter
  <2> QED BY <2>3, <2>4
<1>4. CASE UpdateAnswered(c)
  <2>1. PICK ok \in BOOLEAN : Take(c, "update", ok) /\ Goto(c, IF ok THEN "ok" ELSE "err")
    BY <1>4 DEF UpdateAnswered
  <2>2. Phase[c] = "calling" /\ UNCHANGED <<serverVars, troubled>>
    BY <2>1 DEF Take, WaitFor, Phase, Finals
  <2>3. CASE ok
    <3>1. Phase' = [Phase EXCEPT ![c] = "ok"]
      BY <2>1, <2>3, PhaseStep DEF Stages, Finals
    <3>2. c \in written \cup troubled
      BY <2>1, <2>3 DEF Take, Effect, Kinds
    <3>3. Table!Return(c)
      BY <2>2, <3>1, <3>2 DEF Table!Return, serverVars
    <3> QED BY <3>3 DEF Table!Next
  <2>4. CASE ~ok
    <3>1. Phase' = [Phase EXCEPT ![c] = "err"]
      BY <2>1, <2>4, PhaseStep DEF Stages, Finals
    <3>2. c \in troubled
      BY <2>1, <2>4 DEF Take, Refused
    <3>3. Table!Return(c)
      BY <2>2, <3>1, <3>2 DEF Table!Return, serverVars
    <3> QED BY <3>3 DEF Table!Next
  <2> QED BY <2>3, <2>4
<1>5. CASE ExecFails(c)
  <2>1. /\ Goto(c, IF pc[c] = "insertWait" THEN "update" ELSE "err")
        /\ Phase[c] = "calling"
        /\ troubled' = troubled \cup {c} /\ UNCHANGED serverVars
    BY <1>5 DEF ExecFails, Waits, Phase, Finals
  <2>2. \/ Phase' = [Phase EXCEPT ![c] = "calling"]
        \/ Phase' = [Phase EXCEPT ![c] = "err"]
    BY <2>1, PhaseStep DEF Stages, Kinds, Finals
  <2>3. Phase' \in {Phase, [Phase EXCEPT ![c] = "err"]}
    BY <2>1, <2>2 DEF Phase
  <2>4. Table!Fail(c)
    BY <2>1, <2>3 DEF Table!Fail, serverVars
  <2> QED BY <2>4 DEF Table!Next
<1> QED BY <1>1, <1>2, <1>3, <1>4, <1>5 DEF SetPathMeta

\* A statement that writes a row is the step of its call.
LEMMA WriteRefines ==
  ASSUME IInv, NEW s \in net, NEW ok \in BOOLEAN, Answer(s, ok), Write(s.by), UNCHANGED troubled
  PROVE  Table!Next
<1> DEFINE c == s.by
<1>1. c \in Callers /\ s.kind \in Kinds /\ Phase' = Phase
  BY DEF IInv, TypeOK, Statements, Answer, Phase
<1>2. c \in troubled \/ (Phase[c] = "calling" /\ c \notin written)
  <2> SUFFICES ASSUME c \notin troubled
               PROVE  Phase[c] = "calling" /\ c \notin written
    OBVIOUS
  <2>1. pc[c] = WaitFor(s.kind)
    BY DEF IInv, Waited
  <2>2. Phase[c] = "calling" /\ pc[c] # "ok"
    BY <1>1, <2>1, WaitStages DEF Phase, Finals
  <2>3. ASSUME NEW k \in Kinds, [by |-> c, kind |-> k, ok |-> TRUE] \in answers
        PROVE  FALSE
    <3>1. WaitFor(k) = WaitFor(s.kind)
      BY <2>1, <2>3 DEF IInv, Heard
    <3>2. k = s.kind
      BY <1>1, <3>1, WaitStages
    <3> QED BY <2>3, <3>2 DEF IInv, Once
  <2> QED BY <1>1, <2>2, <2>3 DEF IInv, Effect
<1>3. Table!Set(c)
  BY <1>1, <1>2 DEF Table!Set, Write
<1> QED BY <1>1, <1>3 DEF Table!Next

LEMMA ServerRefines ==
  ASSUME IInv, NEW s \in net, Insert(s) \/ Duplicate(s) \/ Update(s) \/ Refuse(s)
  PROVE  [Table!Next]_(Table!vars)
<1>1. s.by \in Callers /\ s.kind \in Kinds
  BY DEF IInv, TypeOK, Statements
<1>2. pc' = pc
  BY DEF Insert, Duplicate, Update, Refuse, Answer
<1>3. Phase' = Phase
  BY <1>2 DEF Phase
<1>4. CASE Insert(s)
  BY <1>4, WriteRefines DEF Insert
<1>5. CASE Duplicate(s)
  BY <1>3, <1>5, TableStutter DEF Duplicate
<1>6. CASE Update(s)
  <2>1. CASE row[PathOf[s.by]] # NoRow
    BY <1>6, <2>1, WriteRefines DEF Update
  <2>2. CASE row[PathOf[s.by]] = NoRow
    BY <1>3, <1>6, <2>2, TableStutter DEF Update
  <2> QED BY <2>1, <2>2
<1>7. CASE Refuse(s)
  <2>1. troubled' = troubled \cup {s.by} /\ UNCHANGED serverVars
    BY <1>7 DEF Refuse
  <2>2. CASE s.by \in troubled
    BY <1>3, <2>1, <2>2, TableStutter
  <2>3. CASE s.by \notin troubled
    <3>1. Phase[s.by] = "calling"
      BY <1>1, <2>3, WaitStages DEF IInv, Waited, Phase, Finals
    <3>2. Table!Fail(s.by)
      BY <1>3, <2>1, <3>1 DEF Table!Fail, serverVars
    <3> QED BY <1>1, <3>2 DEF Table!Next
  <2> QED BY <2>2, <2>3
<1> QED BY <1>4, <1>5, <1>6, <1>7

\* The two statements of SetPathMeta implement the indivisible step of
\* PathTable, for any number of calls (Atomic).
THEOREM Implements == Spec => Atomic
<1>1. Init => Table!Init
  BY DEF Init, Table!Init, Phase
<1>2. IInv /\ [Next]_vars => [Table!Next]_(Table!vars)
  <2> SUFFICES ASSUME IInv, [Next]_vars
               PROVE  [Table!Next]_(Table!vars)
    OBVIOUS
  <2>1. CASE \E c \in Callers : SetPathMeta(c)
    BY <2>1, CallerRefines
  <2>2. CASE \E s \in net : Insert(s) \/ Duplicate(s) \/ Update(s) \/ Refuse(s)
    BY <2>2, ServerRefines
  <2>3. CASE UNCHANGED vars
    <3>1. Phase' = Phase /\ UNCHANGED <<serverVars, troubled>>
      BY <2>3 DEF vars, Phase
    <3> QED BY <3>1, TableStutter
  <2> QED BY <2>1, <2>2, <2>3 DEF Next
<1> QED BY <1>1, <1>2, Invariant, PTL DEF Spec, Atomic, Table!Spec
=============================================================================
