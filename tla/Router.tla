------------------------------- MODULE Router -------------------------------
(***************************************************************************)
(* Which handler of the proxy a request reaches                            *)
(* (src/server/proxy_server.go: NewProxyServer's HandleFunc calls and      *)
(* reRouting).  A uri is what the tests on it tell apart:                  *)
(*   shape  "health", "echo", "submit", "delete" - the four fixed paths;   *)
(*          "unknown" - unkonwnUriChecker matches; "root" - the path "/";  *)
(*          "fid" - no second slash; "folder" - ends in a slash;           *)
(*          "public" - below /public/; "file" - every other path;          *)
(*   filer  the path begins with /filer;                                   *)
(*   query  which of ?fid= and ?filepath= the request carries.             *)
(***************************************************************************)
Shapes  == {"health", "echo", "submit", "delete", "unknown",
            "root", "fid", "folder", "public", "file"}
Uris    == [shape : Shapes, filer : BOOLEAN, query : {"none", "fid", "filepath"}]
Methods == {"get", "head", "post", "delete"}

\* What a GET or DELETE does for a path with at least one directory; any
\* other method falls out of the switch and nothing answers it.
ByMethod(method, get) ==
    IF method = "get" THEN get
    ELSE IF method = "delete" THEN "deleteFile" ELSE "none"

\* The cases of reRouting are tried in this order, and the first that holds
\* is the only one.
reRouting(uri, method) ==
    IF uri.shape = "unknown" THEN "none"
    ELSE IF uri.shape = "root" THEN "accessCheckAndGetFiler"
    ELSE IF uri.filer /\ method = "post" THEN "submit"
    ELSE ByMethod(method,
           CASE uri.shape = "fid"    -> IF uri.query = "filepath"
                                        THEN "queryFilePath" ELSE "getFile"
             [] uri.shape = "folder" -> "accessCheckAndGetFiler"
             [] uri.shape = "public" -> IF uri.query = "fid"
                                        THEN "queryFileId" ELSE "getPublicFile"
             [] uri.shape = "file"   -> IF uri.query = "fid"
                                        THEN "queryFileId"
                                        ELSE "accessCheckAndGetFiler")

\* The mux prefers its four fixed paths; they take every method.
Route(uri, method) ==
    IF uri.shape \in {"health", "echo", "submit", "delete"} THEN uri.shape
    ELSE reRouting(uri, method)

\* The routes that end in getFileHandler, and those that ask for a filer.
GetRoutes   == {"accessCheckAndGetFiler", "getFile", "getPublicFile"}
FilerRoutes == {"accessCheckAndGetFiler", "getPublicFile"}
=============================================================================
