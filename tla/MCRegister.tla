----------------------------- MODULE MCRegister -----------------------------
(* Three requests, two of them for one path, and each lack a proxy or a     *)
(* form can have.                                                           *)
EXTENDS Register

CONSTANTS A, B, C

MCClients == {A, B, C}
MCPaths   == {"p", "q"}

Sub(isFiler, files) == [isFiler |-> isFiler, files |-> files, parses |-> TRUE]

Case(ws, a, b, c) ==
    [weeds |-> ws,
     sub |-> [x \in MCClients |-> IF x = A THEN a ELSE IF x = B THEN b ELSE c]]

One  == Sub(TRUE, {"p"})
Any  == Sub(FALSE, {"p", "q"})
Bare == Sub(FALSE, {})
Odd  == [One EXCEPT !.parses = FALSE]

\* Proxies without a master, without a filer, without both, with nothing.
Lacking == { <<"filer">>, <<"filer", "filer">>, <<"master">>,
             <<"volume", "master">>, <<"volume">>, <<>> }

MCCases == {Case(<<"master", "filer">>, One, One, Any),
            Case(<<"volume", "filer", "master", "filer">>, Bare, Any, Odd)}
           \cup {Case(ws, One, Any, Bare) : ws \in Lacking}
=============================================================================
