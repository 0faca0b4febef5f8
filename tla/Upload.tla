------------------------------- MODULE Upload -------------------------------
(***************************************************************************)
(* Uploads through the proxy: submit, doSubmit, doSubmitFile, doUpload and *)
(* upload (src/server/proxy_file_handler.go), several requests at once,    *)
(* with the seaweedfs servers, the redis cache and the table of path TTLs  *)
(* they write.                                                             *)
(*                                                                         *)
(* A call is one POST of one file by one attempt.  It is posted, handled   *)
(* by a server at any later time, and answered; the client side of it may  *)
(* fail at any moment in between, whether or not the server has stored the *)
(* file or still will.  The handler tries again then.                      *)
(* A part named "meta" (registerChunkedFileMeta) is not treated here.      *)
(***************************************************************************)
EXTENDS Weeds

CONSTANTS Clients,   \* the requests
          Cases,     \* proxies with what each request submits: [conf, sub]
          Paths,     \* the paths files and path settings name
          Ttls,      \* the TTLs, NoTtl apart
          NoCopy     \* nothing under a path

NoTtl   == ""
NoPath  == "nopath"
Mangled == "mangled"   \* the path checkUrl makes of a multi-byte name

\* A file of a form: the path its name stands for, what is special about
\* the name, whether it has a directory of its own, its ?ttl=.
Files == [path : Paths, dir : BOOLEAN, ttl : Ttls \cup {NoTtl},
          name : {"plain", "null", "dirnull", "unparsable", "wide", "toowide"}]

\* A "path" value of a form: its ?ttl=, whether its query parses, whether
\* isPathCanBeSetTtl lets it have a TTL, whether it is "".
Settings == [path : Paths, ttl : Ttls \cup {NoTtl}, parses : BOOLEAN,
             settable : BOOLEAN, empty : BOOLEAN]

\* redis: RedisCacheTtl is empty, Redis.Addr is, or neither; mysql: there is
\* a MySQL host; uniSource: UniSourceCheck.
Configs == [weeds : Seq({"master", "volume", "filer"}), retry : Nat,
            enforced : Ttls \cup {NoTtl}, redis : {"off", "noaddr", "on"},
            mysql : BOOLEAN, uniSource : BOOLEAN]

\* deep: the path has something behind /filer; writable: what isWritable
\* says of the caller, "broken" if it comes to an entry of UploadWhite that is
\* no CIDR, a nil *IPNet; form: the files of each field; settings: the values
\* of the field "path".
Subs == [isFiler : BOOLEAN, deep : BOOLEAN, writable : {"yes", "no", "broken"},
         source : BOOLEAN, post : BOOLEAN, parses : BOOLEAN,
         form : SUBSET Seq(Files), ttl : Ttls \cup {NoTtl},
         settings : Seq(Settings)]

ASSUME CasesAssumption ==
    \A k \in Cases : /\ k.conf \in Configs
                     /\ DOMAIN k.sub = Clients
                     /\ \A c \in Clients : /\ k.sub[c] \in Subs
                                            /\ <<>> \notin k.sub[c].form
ASSUME SentinelsAssumption ==
    {NoPath, Mangled} \cap Paths = {} /\ NoTtl \notin Ttls

VARIABLES
    conf, sub,   \* the configuration; what each request submits
    pc,          \* where each handler is
    todo,        \* the fields of each form still to be uploaded
    field,       \* the field each handler is uploading
    retry,       \* doSubmitFile's retry
    metas,       \* result.Result of each request
    setting,     \* how many path settings were handled
    status,      \* result.Status of the reply
    net,         \* calls posted and not handled
    answers,     \* answers on their way: [call, ok]
    copies,      \* every copy the servers ever stored
    entry,       \* external: the copy the filer has under each path
    cache,       \* external: the copy redis has under each path
    pathTtl,     \* external: the TTL table, with who set it
    failed,      \* history: <<request, "call", "cache" or "ttl">> that failed
    crossed      \* history: the paths whose latest copy was stored while an
                 \* earlier one still had to be cached

handlerVars == <<todo, field, retry, metas, setting, status>>
worldVars   == <<net, answers, copies, entry, cache, pathTtl, failed, crossed>>
vars == <<conf, sub, pc, handlerVars, worldVars>>

Finals == {"done", "panicked"}

-----------------------------------------------------------------------------
\* The path a filer stores a file under: checkUrl cuts the name at a byte
\* index applied to its runes, which misplaces a multi-byte name.
StorePath(c, f) == IF ~sub[c].isFiler THEN NoPath
                   ELSE IF f.name = "wide" THEN Mangled ELSE f.path

\* With fewer than two weeds submitUrl leaves hasPath false.
hasPath(c) == sub[c].isFiler /\ Len(conf.weeds) > 1 /\ sub[c].deep

\* checkUrl and url.ParseRequestURI.  The first attempt checks the name as
\* given, a retry with "/" before it.
checkUrl(c, f, slashed) ==
    IF ~sub[c].isFiler THEN "ok"
    ELSE IF f.name = "dirnull" \/ (f.name = "null" /\ slashed) THEN "nullname"
    ELSE IF ~hasPath(c) /\ ~f.dir THEN "nopath"
    ELSE IF f.name = "toowide" THEN "panic" ELSE "ok"

\* The TTL of a file: DevEnvEnforcedTtl, else its own, else the request's.
Wanted(c, f) == IF conf.enforced # NoTtl THEN conf.enforced
                ELSE IF f.ttl # NoTtl THEN f.ttl ELSE sub[c].ttl

\* Mutant of AttemptTtl: the request's TTL takes precedence over the file's.
AttemptTtlSwapped(c, f) ==
    IF retry[c] > 0 THEN NoTtl
    ELSE IF conf.enforced # NoTtl THEN conf.enforced
    ELSE IF sub[c].ttl # NoTtl THEN sub[c].ttl ELSE f.ttl

\* The URL of a retry is built anew and ?ttl= is not added again.
AttemptTtl(c, f) == IF retry[c] = 0 THEN Wanted(c, f) ELSE NoTtl

\* The call of the current attempt; the copy stored for it is named by it.
Call(c) == LET f == Head(field[c])
           IN  [client |-> c, field |-> field[c], attempt |-> retry[c],
                path |-> StorePath(c, f), ttl |-> AttemptTtl(c, f)]

\* The checks submit makes before it looks at the files, in its order; 0 is
\* "pass", and Contains of a nil *IPNet panics.
Gate(c) ==
    LET s == sub[c]
    IN  IF s.writable = "broken" THEN Panic
        ELSE IF s.writable = "no" THEN 406
        ELSE IF conf.uniSource /\ ~s.source THEN 406
        ELSE IF ~s.post THEN 405
        ELSE IF ~s.parses THEN 400 ELSE 0

-----------------------------------------------------------------------------
Init == /\ \E k \in Cases : conf = k.conf /\ sub = k.sub
        /\ pc = [c \in Clients |-> "start"]
        /\ todo = [c \in Clients |-> {}]
        /\ field = [c \in Clients |-> <<>>]
        /\ retry = [c \in Clients |-> 0]
        /\ metas = [c \in Clients |-> {}]
        /\ setting = [c \in Clients |-> 0]
        /\ status = [c \in Clients |-> 0]
        /\ net = {}
        /\ answers = {}
        /\ copies = {}
        /\ entry = [p \in Paths \cup {Mangled} |-> NoCopy]
        /\ cache = [p \in Paths |-> NoCopy]
        /\ pathTtl = [p \in Paths |-> [ttl |-> NoTtl, by |-> {}]]
        /\ failed = {}
        /\ crossed = {}

Goto(c, stage) == pc' = [pc EXCEPT ![c] = stage]

\* The reply; result.Result goes out with it, whatever the code.
Finish(c, code) == Goto(c, "done") /\ status' = [status EXCEPT ![c] = code]

CodeOf(check) == IF check = "nullname" THEN 400 ELSE 500

Refuse(c) == /\ pc[c] = "start"
             /\ Gate(c) \notin {0, Panic}
             /\ Finish(c, Gate(c))
             /\ UNCHANGED <<conf, sub, todo, field, retry, metas, setting, worldVars>>

\* doSubmit begins by choosing a server, files or not.
Admit(c) == /\ pc[c] = "start"
            /\ Gate(c) \in {0, Panic}
            /\ IF Gate(c) = Panic \/ submitUrl(conf.weeds, sub[c].isFiler, 0) = Panic
               THEN Goto(c, "panicked") /\ UNCHANGED todo
               ELSE /\ Goto(c, "next")
                    /\ todo' = [todo EXCEPT ![c] = sub[c].form]
            /\ UNCHANGED <<conf, sub, field, retry, metas, setting, status, worldVars>>

\* The range over the map of fields takes any of them next; only the first
\* file of a field is looked at.
NextFile(c) ==
    /\ pc[c] = "next"
    /\ \E fs \in todo[c] :
         LET check == checkUrl(c, Head(fs), FALSE)
         IN  /\ todo' = [todo EXCEPT ![c] = @ \ {fs}]
             /\ field' = [field EXCEPT ![c] = fs]
             /\ retry' = [retry EXCEPT ![c] = 0]
             /\ IF check = "panic" THEN Goto(c, "panicked") /\ UNCHANGED status
                ELSE IF check # "ok" THEN Finish(c, CodeOf(check))
                ELSE IF Head(fs).name = "unparsable" THEN Finish(c, 500)
                ELSE Goto(c, "post") /\ UNCHANGED status
    /\ UNCHANGED <<conf, sub, metas, setting, worldVars>>

Post(c) == /\ pc[c] = "post"
           /\ net' = net \cup {Call(c)}
           /\ Goto(c, "wait")
           /\ UNCHANGED <<conf, sub, handlerVars, answers, copies, entry,
                          cache, pathTtl, failed, crossed>>

\* Mutant of Accept: the result keeps only the last file.
AcceptLast(c) == /\ metas' = [metas EXCEPT ![c] = {Call(c)}]
                 /\ Goto(c, "next")

\* doSubmitFile returns: *metas = append(*metas, fileUploaded).
Accept(c) == /\ metas' = [metas EXCEPT ![c] = @ \cup {Call(c)}]
             /\ Goto(c, "next")

\* Mutant of Uploaded: what a server answered is not looked at.
UploadedUnchecked(c, ok) == IF sub[c].isFiler /\ conf.redis # "off"
                            THEN Goto(c, "cache") /\ UNCHANGED <<metas, status>>
                            ELSE Accept(c) /\ UNCHANGED status

\* Mutant of Uploaded: files that have no path are cached as well.
UploadedCachesAll(c, ok) ==
    IF ~ok THEN Finish(c, 500) /\ UNCHANGED metas
    ELSE IF conf.redis # "off"
    THEN Goto(c, "cache") /\ UNCHANGED <<metas, status>>
    ELSE Accept(c) /\ UNCHANGED status

\* After the answer: an error in it, or something that is no JSON, ends the
\* request; the path of a filer's file is cached where redis is to be used.
Uploaded(c, ok) ==
    IF ~ok THEN Finish(c, 500) /\ UNCHANGED metas
    ELSE IF sub[c].isFiler /\ conf.redis # "off"
    THEN Goto(c, "cache") /\ UNCHANGED <<metas, status>>
    ELSE Accept(c) /\ UNCHANGED status

Answered(c) ==
    /\ pc[c] = "wait"
    /\ \E a \in answers :
         /\ a.call = Call(c)
         /\ answers' = answers \ {a}
         /\ Uploaded(c, a.ok)
    /\ UNCHANGED <<conf, sub, todo, field, retry, setting, net, copies,
                   entry, cache, pathTtl, failed, crossed>>

\* The attempt that follows a failed call.
TryAgain(c) ==
    /\ retry' = [retry EXCEPT ![c] = @ + 1]
    /\ LET check == checkUrl(c, Head(field[c]), TRUE)
       IN  IF submitUrl(conf.weeds, sub[c].isFiler, retry[c] + 1) = Panic
              \/ check = "panic"
           THEN Goto(c, "panicked") /\ UNCHANGED status
           ELSE IF check # "ok" THEN Finish(c, CodeOf(check))
           ELSE Goto(c, "post") /\ UNCHANGED status

\* Mutant of MayRetry: one attempt more.
MayRetryOnceMore(c) == retry[c] <= conf.retry + 1

\* `retry > ps.Config.Retry` gives up, so retry = Config.Retry tries again.
MayRetry(c) == ~(retry[c] > conf.retry)

\* Mutant of CallFails: the counter is reset by every attempt.
CallFailsForever(c) ==
    /\ pc[c] = "wait"
    /\ failed' = failed \cup {<<c, "call">>}
    /\ answers' = {a \in answers : a.call # Call(c)}
    /\ Goto(c, "post")
    /\ UNCHANGED <<conf, sub, handlerVars, net, copies, entry, cache, pathTtl, crossed>>

\* The connection fails: the call may be lost, still under way or stored.
CallFails(c) ==
    /\ pc[c] = "wait"
    /\ failed' = failed \cup {<<c, "call">>}
    /\ answers' = {a \in answers : a.call # Call(c)}
    /\ IF MayRetry(c) THEN TryAgain(c)
       ELSE Finish(c, 500) /\ UNCHANGED retry
    /\ UNCHANGED <<conf, sub, todo, field, metas, setting, net, copies, entry,
                   cache, pathTtl, crossed>>

CacheWith(c, new) ==
    /\ pc[c] = "cache"
    /\ IF conf.redis = "noaddr"
       THEN Goto(c, "panicked") /\ UNCHANGED <<cache, metas, failed>>
       ELSE /\ Accept(c)
            /\ \/ cache' = new /\ UNCHANGED failed
               \/ failed' = failed \cup {<<c, "cache">>} /\ UNCHANGED cache
    /\ UNCHANGED <<conf, sub, todo, field, retry, setting, status, net, answers,
                   copies, entry, pathTtl, crossed>>

\* Mutant of CacheFile: a path that is cached stays as it is.
CacheFileOnce(c) ==
    CacheWith(c, IF cache[Head(field[c]).path] # NoCopy THEN cache
                 ELSE [cache EXCEPT ![Head(field[c]).path] = Call(c)])

\* CacheFilePath: redis takes the path or not, its error is ignored; without
\* an address there is no client and the call panics.
CacheFile(c) ==
    CacheWith(c, [cache EXCEPT ![Head(field[c]).path] = Call(c)])

-----------------------------------------------------------------------------
\* Mutant of AllUploaded: the settings do not wait for the files.
AllUploadedOrNot(c) == pc[c] = "next"

\* doSubmit has returned without an error.
AllUploaded(c) == pc[c] = "next" /\ todo[c] = {}

NeverUpload(c) == sub[c].form = {}

\* Mutant of SettingTtl: the request's TTL takes precedence.
SettingTtlSwapped(c, s) == IF sub[c].ttl # NoTtl THEN sub[c].ttl ELSE s.ttl

\* The TTL of a "path" value: its own or the request's.
SettingTtl(c, s) == IF s.ttl # NoTtl THEN s.ttl ELSE sub[c].ttl

\* One "path" value.  SetPathMeta's error is ignored; what a call that failed
\* may do later is in module PathMeta.
SetPath(c) ==
    LET s    == sub[c].settings[setting[c] + 1]
        ttl  == SettingTtl(c, s)
        with == [pathTtl EXCEPT ![s.path] = [ttl |-> ttl, by |-> @.by \cup {c}]]
    IN  /\ AllUploaded(c)
        /\ setting[c] < Len(sub[c].settings)
        /\ IF ~s.parses /\ NeverUpload(c)
           THEN Finish(c, 400) /\ UNCHANGED <<setting, pathTtl, failed>>
           ELSE IF ttl # NoTtl /\ (s.empty \/ (s.settable /\ ~conf.mysql))
           THEN Goto(c, "panicked") /\ UNCHANGED <<status, setting, pathTtl, failed>>
           ELSE /\ setting' = [setting EXCEPT ![c] = @ + 1]
                /\ IF ttl = NoTtl \/ ~s.settable THEN UNCHANGED <<pathTtl, failed>>
                   ELSE \/ pathTtl' = with /\ UNCHANGED failed
                        \/ pathTtl' \in {pathTtl, with} /\ failed' = failed \cup {<<c, "ttl">>}
                /\ UNCHANGED <<pc, status>>
        /\ UNCHANGED <<conf, sub, todo, field, retry, metas, net, answers,
                       copies, entry, cache, crossed>>

Reply(c) == /\ AllUploaded(c)
            /\ setting[c] = Len(sub[c].settings)
            /\ Finish(c, 200)
            /\ UNCHANGED <<conf, sub, todo, field, retry, metas, setting, worldVars>>

-----------------------------------------------------------------------------
(***************************************************************************)
(* The seaweedfs servers (external): a filer puts the new copy under its   *)
(* path in place of the old one; any server may refuse, or never hear of   *)
(* the call.  An answer nobody waits for any more is dropped.              *)
(***************************************************************************)
Listening(m) == pc[m.client] = "wait" /\ Call(m.client) = m

Answer(m, ok) == answers' = IF Listening(m)
                            THEN answers \cup {[call |-> m, ok |-> ok]} ELSE answers

\* A copy of this request is stored under the path and not cached yet.
Uncached(c, path) == /\ pc[c] \in {"wait", "cache"}
                     /\ Call(c) \in copies
                     /\ Call(c).path = path

Store(m) == /\ m \in net
            /\ net' = net \ {m}
            /\ copies' = copies \cup {m}
            /\ entry' = IF m.path = NoPath THEN entry
                        ELSE [entry EXCEPT ![m.path] = m]
            /\ Answer(m, TRUE)
            /\ crossed' = IF \E c \in Clients : Uncached(c, m.path)
                          THEN crossed \cup {m.path} ELSE crossed \ {m.path}
            /\ UNCHANGED <<conf, sub, pc, handlerVars, cache, pathTtl, failed>>

Reject(m) == /\ m \in net
             /\ net' = net \ {m}
             /\ Answer(m, FALSE)
             /\ UNCHANGED <<conf, sub, pc, handlerVars, copies, entry, cache,
                            pathTtl, failed, crossed>>

\* What a handler does by itself.
Handler(c) == \/ Refuse(c) \/ Admit(c) \/ NextFile(c) \/ Post(c)
              \/ CacheFile(c) \/ SetPath(c) \/ Reply(c)

Next == \/ \E c \in Clients : Handler(c) \/ Answered(c) \/ CallFails(c)
        \/ \E m \in net : Store(m) \/ Reject(m)

Spec == Init /\ [][Next]_vars

\* Every goroutine runs; nothing is assumed of the servers.
FairSpec == Spec /\ \A c \in Clients : WF_vars(Handler(c))

-----------------------------------------------------------------------------
Fields == UNION {sub[c].form : c \in Clients}

Calls == [client : Clients, field : Fields, attempt : Nat,
          path : Paths \cup {NoPath, Mangled}, ttl : Ttls \cup {NoTtl}]

\* Every variable keeps its type.
TypeOK ==
    /\ \E k \in Cases : conf = k.conf /\ sub = k.sub
    /\ pc \in [Clients -> {"start", "next", "post", "wait", "cache"} \cup Finals]
    /\ todo \in [Clients -> SUBSET Fields]
    /\ field \in [Clients -> Fields \cup {<<>>}]
    /\ retry \in [Clients -> 0..(conf.retry + 1)]
    /\ metas \in [Clients -> SUBSET Calls]
    /\ setting \in [Clients -> Nat]
    /\ status \in [Clients -> {0, 200, 400, 405, 406, 500}]
    /\ \A c \in Clients : /\ todo[c] \subseteq sub[c].form
                          /\ pc[c] \in {"post", "wait", "cache"} => field[c] \in sub[c].form
                          /\ setting[c] <= Len(sub[c].settings)
    /\ net \subseteq Calls
    /\ answers \subseteq [call : Calls, ok : BOOLEAN]
    /\ copies \subseteq Calls
    /\ entry \in [Paths \cup {Mangled} -> Calls \cup {NoCopy}]
    /\ cache \in [Paths -> Calls \cup {NoCopy}]
    /\ pathTtl \in [Paths -> [ttl : Ttls \cup {NoTtl}, by : SUBSET Clients]]
    /\ failed \subseteq Clients \X {"call", "cache", "ttl"}
    /\ crossed \subseteq Paths \cup {NoPath, Mangled}

(***************************************************************************)
(* The result of a reply is true: every file it lists is stored, and a     *)
(* reply "ok" lists exactly one copy of the first file of every field.     *)
(***************************************************************************)
ReplyIsBacked ==
    \A c \in Clients : pc[c] = "done" =>
        /\ metas[c] \subseteq copies
        /\ status[c] = 200 =>
             /\ {m.field : m \in metas[c]} = sub[c].form
             /\ Cardinality(metas[c]) = Cardinality(sub[c].form)

(***************************************************************************)
(* No orphans without a failure: as long as no call of a request failed,   *)
(* every copy stored for it is in its reply, an error reply included       *)
(* (submit sends result.Result in both), so the caller can remove it.      *)
(***************************************************************************)
OrphansNeedFailure ==
    \A c \in Clients : pc[c] = "done" /\ <<c, "call">> \notin failed =>
        {m \in copies : m.client = c} = metas[c]

(***************************************************************************)
(* What lost answers may cost: a file is stored at most Retry + 2 times.   *)
(* (doSubmitFile tries once more than download, see MayRetry.)             *)
(***************************************************************************)
CopiesBounded ==
    \A c \in Clients : \A fs \in sub[c].form :
        Cardinality({m \in copies : m.client = c /\ m.field = fs}) <= conf.retry + 2

(***************************************************************************)
(* The TTL a stored copy has is the wanted one, the file's before the      *)
(* request's and the enforced one before both; only a request one of whose *)
(* calls failed can have a copy without it.                                *)
(***************************************************************************)
LostTtlNeedsFailure ==
    \A m \in copies :
        m.ttl # Wanted(m.client, Head(m.field))
            => m.ttl = NoTtl /\ <<m.client, "call">> \in failed

(***************************************************************************)
(* The cache never runs ahead of the filer: what it names was stored, for  *)
(* this path or, of a multi-byte name, for the path it was cut to.         *)
(***************************************************************************)
CacheNamesACopy ==
    \A p \in Paths : cache[p] # NoCopy =>
        cache[p] \in copies /\ cache[p].path \in {p, Mangled}

(***************************************************************************)
(* Where redis is used, the cache and the filer have the same copy under a *)
(* path as soon as no stored copy of it is still on its way to the cache:  *)
(* of any number of requests, one after the other or interleaved, the last *)
(* one to store the file is the last to cache it.  The exceptions: two of  *)
(* them crossed, storing in one order and caching in the other (a later    *)
(* upload that meets no other mends it), a call or a caching of a request  *)
(* that wrote the path failed, or a multi-byte name was cached for it.     *)
(***************************************************************************)
CacheAgrees ==
    \A p \in Paths \ crossed :
        LET writers == {m.client : m \in {k \in copies : k.path = p}}
        IN  /\ conf.redis = "on"
            /\ failed \cap (writers \X {"call", "cache"}) = {}
            /\ \A c \in writers : ~Uncached(c, p)
            => \/ cache[p] = entry[p]
               \/ cache[p] \in {m \in copies : m.path = Mangled}

(***************************************************************************)
(* The path TTLs follow the reply, though SetPathMeta's error is ignored:  *)
(* after a reply ok all settings of the request that may have a TTL were   *)
(* made, unless one of its SetPathMeta failed, and a path only this        *)
(* request named has the TTL of its last setting, that setting's own       *)
(* before the request's (proxy_file_handler.go:445); after an upload that  *)
(* failed none was made.                                                   *)
(***************************************************************************)
SettingsFollowReply ==
    \A c \in Clients : pc[c] = "done" =>
        LET ss      == sub[c].settings
            Made(i) == ss[i].settable /\ (ss[i].ttl # NoTtl \/ sub[c].ttl # NoTtl)
            Last(i) == \A j \in DOMAIN ss : Made(j) /\ ss[j].path = ss[i].path => j <= i
        IN  IF status[c] = 200
            THEN <<c, "ttl">> \in failed \/
                 \A i \in {j \in DOMAIN ss : Made(j) /\ Last(j)} :
                    LET row == pathTtl[ss[i].path]
                    IN  /\ c \in row.by
                        /\ row.by = {c} => row.ttl \in {ss[i].ttl, sub[c].ttl} \ {NoTtl}
                        /\ row.by = {c} /\ ss[i].ttl # NoTtl => row.ttl = ss[i].ttl
            ELSE sub[c].form = {} \/ \A p \in Paths : c \notin pathTtl[p].by

(***************************************************************************)
(* A panic has one of these causes: an entry of UploadWhite that is no     *)
(* network, no server of the type, a cache TTL without a redis address, a  *)
(* path TTL without MySQL or for the path "", a name checkUrl cannot cut.  *)
(***************************************************************************)
PanicsHaveCause ==
    \A c \in Clients : pc[c] = "panicked" =>
        \/ sub[c].writable = "broken"
        \/ OfType(conf.weeds, TypeFor(sub[c].isFiler)) = {} /\ Len(conf.weeds) # 1
        \/ sub[c].isFiler /\ conf.redis = "noaddr"
        \/ \E i \in DOMAIN sub[c].settings :
             sub[c].settings[i].empty \/ ~conf.mysql
        \/ sub[c].isFiler /\ \E fs \in sub[c].form : Head(fs).name = "toowide"

(***************************************************************************)
(* Every handler comes to rest: it has replied or panicked, or waits for a *)
(* server that never answers.                                              *)
(***************************************************************************)
Settles == \A c \in Clients : <>[](pc[c] \in Finals \cup {"wait"})

(***************************************************************************)
(* What proxy_file_handler.go:439-440 says of submit: the TTL given with a *)
(* request is set for all its files.                                       *)
(***************************************************************************)
TtlForAllFiles ==
    \A c \in Clients : pc[c] = "done" /\ status[c] = 200 =>
        \A m \in metas[c] : m.ttl = Wanted(c, Head(m.field))
=============================================================================
