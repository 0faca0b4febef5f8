------------------------------ MODULE MCUpload ------------------------------
(* Two requests; in most cases only one of them is interesting, in the last *)
(* ones both upload to one path.                                            *)
EXTENDS Upload

CONSTANTS A, B

MCClients == {A, B}
MCPaths   == {"p", "q"}
MCTtls    == {"3m", "5d"}

File(path, ttl, name) == [path |-> path, dir |-> TRUE, ttl |-> ttl, name |-> name]
Plain  == File("p", NoTtl, "plain")
Short  == File("p", "3m", "plain")
Other  == File("q", NoTtl, "plain")
Bare   == [Plain EXCEPT !.dir = FALSE]

Folder(ttl) == [path |-> "q", ttl |-> ttl, parses |-> TRUE, settable |-> TRUE,
                empty |-> FALSE]
Unparsed    == [Folder("3m") EXCEPT !.parses = FALSE]
TopFolder   == [Folder("3m") EXCEPT !.settable = FALSE]
EmptyFolder == [Folder("3m") EXCEPT !.empty = TRUE, !.settable = FALSE]

Base(isFiler, form) ==
    [isFiler |-> isFiler, deep |-> TRUE, writable |-> "yes", source |-> TRUE,
     post |-> TRUE, parses |-> TRUE, form |-> form, ttl |-> NoTtl,
     settings |-> <<>>]
Denied == [Base(TRUE, {<<Plain>>}) EXCEPT !.writable = "no"]

Conf(weeds, r) == [weeds |-> weeds, retry |-> r, enforced |-> NoTtl,
                   redis |-> "on", mysql |-> TRUE, uniSource |-> FALSE]
Both == <<"master", "filer", "master", "filer">>
MC0  == Conf(Both, 0)
MC1  == Conf(<<"master">>, 1)

Case(conf1, a, b) == [conf |-> conf1, sub |-> [c \in {A, B} |-> IF c = A THEN a ELSE b]]

\* One request of each kind, with one retry.
Singles ==
    { Base(TRUE, {<<File("p", NoTtl, n)>>}) :
         n \in {"plain", "null", "dirnull", "unparsable", "wide", "toowide"} }
    \cup { Base(TRUE, {<<Bare>>}), [Base(TRUE, {<<Bare>>}) EXCEPT !.deep = FALSE],
           [Base(TRUE, {<<Short>>, <<Plain, Other>>}) EXCEPT !.ttl = "5d"],
           [Base(FALSE, {<<Short>>, <<Other>>}) EXCEPT
               !.ttl = "5d", !.settings = <<Folder("3m")>>],
           [Base(FALSE, {}) EXCEPT !.ttl = "5d",
               !.settings = <<Folder(NoTtl), TopFolder, Unparsed>>],
           [Base(FALSE, {}) EXCEPT !.settings = <<Folder(NoTtl), EmptyFolder>>],
           [Base(FALSE, {<<Other>>}) EXCEPT !.settings = <<Unparsed>>],
           [Base(FALSE, {}) EXCEPT !.ttl = "5d", !.settings = <<Folder(NoTtl), Folder("3m")>>],
           [Base(FALSE, {<<Other>>}) EXCEPT !.post = FALSE],
           [Base(FALSE, {<<Other>>}) EXCEPT !.parses = FALSE],
           [Base(FALSE, {<<Other>>}) EXCEPT !.source = FALSE],
           [Base(FALSE, {<<Other>>}) EXCEPT !.writable = "broken"] }

MCCases ==
    {Case(k, s, Denied) : k \in {MC0, Conf(<<"filer">>, 1)}, s \in Singles}
    \cup {Case(k, Base(TRUE, {<<Short>>}), Base(FALSE, {<<Other>>})) :
             k \in {[MC0 EXCEPT !.redis = "noaddr"],
                    [MC0 EXCEPT !.redis = "off", !.enforced = "5d"]}}
    \cup {Case([MC0 EXCEPT !.mysql = FALSE, !.uniSource = TRUE],
               [Base(FALSE, {<<Other>>}) EXCEPT !.settings = <<Folder("3m")>>],
               [Base(FALSE, {<<Other>>}) EXCEPT !.source = FALSE])}
    \cup {Case(MC0, Base(TRUE, {<<Plain>>, <<Short>>}), Base(TRUE, {<<Plain>>})),
          Case(Conf(<<"master", "master">>, 0), Base(TRUE, {<<Plain>>}), Base(FALSE, {}))}
=============================================================================
