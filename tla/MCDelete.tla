------------------------------ MODULE MCDelete ------------------------------
(* Two requests for one file: both by path, both by fid, and the forms a    *)
(* request can fail in.                                                     *)
EXTENDS Delete

CONSTANTS A, B

MCClients == {A, B}

Good(path) == [post |-> TRUE, rightMethod |-> TRUE, parses |-> TRUE,
               hasPath |-> TRUE, path |-> path, writable |-> "yes", source |-> TRUE]
Direct(path) == [Good(path) EXCEPT !.post = FALSE]

Conf(weeds, r) == [weeds |-> weeds, retry |-> r, uniSource |-> TRUE]
Both == <<"master", "filer", "master", "filer">>

Case(k, a, b) == [conf |-> k, req |-> [c \in {A, B} |-> IF c = A THEN a ELSE b]]

Odd == { [Good("file") EXCEPT !.rightMethod = FALSE],
         [Good("file") EXCEPT !.parses = FALSE],
         [Good("file") EXCEPT !.hasPath = FALSE],
         [Good("file") EXCEPT !.writable = "no"],
         [Good("file") EXCEPT !.writable = "broken"],
         [Good("file") EXCEPT !.source = FALSE],
         Good("noslash"), Good("empty") }

MCCases == {Case(Conf(Both, 1), Good(p), Direct(q)) : p \in {"fid", "file"}, q \in {"fid", "file"}}
           \cup {Case(Conf(Both, 0), Good("fid"), s) : s \in Odd}
           \cup {Case(Conf(<<"filer", "filer">>, 1), Good("file"), Good("fid"))}
=============================================================================
