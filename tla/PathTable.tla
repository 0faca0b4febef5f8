----------------------------- MODULE PathTable -----------------------------
(***************************************************************************)
(* What SetPathMeta of util.DbAdaptor (src/util/db_adaptor.go) promises:   *)
(* each call gives its path a TTL in one indivisible step between its      *)
(* beginning and its return.  The redis clients implement it that way,     *)
(* with one HSET; the MySQL client (module PathMeta) with two statements.  *)
(*                                                                         *)
(* A call in trouble - its connection broke, or the server refused a       *)
(* statement - is promised nothing: it may take effect late, twice or      *)
(* never, and may return either way.                                       *)
(***************************************************************************)

CONSTANTS Callers,  \* the calls of SetPathMeta; each makes one
          Paths,
          PathOf,   \* the path each call is for (PathMeta has the assumptions)
          NoRow     \* no TTL under a path

VARIABLES row,      \* the call whose TTL each path has
          phase,    \* "idle", "calling", or what the call returned
          written,  \* the calls that took effect
          troubled  \* the calls that had a failure

vars == <<row, phase, written, troubled>>

Init == /\ row = [p \in Paths |-> NoRow]
        /\ phase = [c \in Callers |-> "idle"]
        /\ written = {}
        /\ troubled = {}

Begin(c) == /\ phase[c] = "idle"
            /\ phase' = [phase EXCEPT ![c] = "calling"]
            /\ UNCHANGED <<row, written, troubled>>

Set(c) == /\ \/ phase[c] = "calling" /\ c \notin written
             \/ c \in troubled
          /\ row' = [row EXCEPT ![PathOf[c]] = c]
          /\ written' = written \cup {c}
          /\ UNCHANGED <<phase, troubled>>

\* A failure, which the call may survive or return.
Fail(c) == /\ phase[c] = "calling"
           /\ troubled' = troubled \cup {c}
           /\ phase' \in {phase, [phase EXCEPT ![c] = "err"]}
           /\ UNCHANGED <<row, written>>

Return(c) == /\ phase[c] = "calling"
             /\ \/ c \in written \cup troubled /\ phase' = [phase EXCEPT ![c] = "ok"]
                \/ c \in troubled /\ phase' = [phase EXCEPT ![c] = "err"]
             /\ UNCHANGED <<row, written, troubled>>

Next == \E c \in Callers : Begin(c) \/ Set(c) \/ Fail(c) \/ Return(c)

Spec == Init /\ [][Next]_vars
=============================================================================
