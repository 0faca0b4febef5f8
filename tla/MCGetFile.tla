----------------------------- MODULE MCGetFile -----------------------------
(* Small proxies and one request of each route that ends in getFileHandler. *)
EXTENDS GetFile

MCWeedTypes == {"master", "volume", "filer"}

WeedsAndShadows ==
    { <<<<"master", "filer">>, <<>>>>,             \* the last weed is a filer
      <<<<"filer", "filer">>, <<"filer">>>>,
      <<<<"filer">>, <<"volume", "master">>>>,
      <<<<"master">>, <<"filer", "filer">>>> }

Proxy(weeds, shadows, r) ==
    [weeds |-> weeds, shadows |-> shadows, retry |-> r, whites |-> <<"office">>]

MCNets == {"office", "elsewhere"}

MCConfigs == {Proxy(ws[1], ws[2], r) : ws \in WeedsAndShadows, r \in 0..1}
             \cup {Proxy(<<>>, <<>>, 1), Proxy(<<"master", "master">>, <<>>, 2)}
             \cup {[Proxy(<<"filer">>, <<>>, 0) EXCEPT !.whites = ws] :
                      ws \in {<<NilNet, "office">>, <<"office", NilNet>>}}

\* The default of config.go:74-115 in small: each type once, no shadow.
Default == Proxy(<<"master", "volume", "filer">>, <<>>, 1)

MCDefaultConfigs == {Default}

\* The same without retries, and the same with a shadow.
MCFailureConfigs == {[Default EXCEPT !.retry = 0],
                     [Default EXCEPT !.retry = 0, !.shadows = <<"filer">>]}

Uri(shape) == [shape |-> shape, filer |-> FALSE, query |-> "none"]

Request(shape, method, caller) ==
    [uri |-> Uri(shape), method |-> method, caller |-> caller]

MCRequests ==
    { Request("public", "get", "elsewhere"), Request("fid", "get", TooWide),
      Request("file", "get", "office"), Request("file", "get", "elsewhere"),
      Request("file", "get", TooWide),
      Request("root", "head", "office"), Request("root", "delete", "office") }
=============================================================================
