------------------------------- MODULE Delete -------------------------------
(***************************************************************************)
(* Deletions through the proxy: deleteHandler, deleteFile, weedDelete,     *)
(* deleteCheckRedirect and deleteRequest (src/server/                      *)
(* proxy_file_handler.go), several requests for one file at once, with     *)
(* uploads of the file by others in between.                               *)
(*                                                                         *)
(* The file is the version a server holds.  A DELETE is sent, carried out  *)
(* or refused by a server at any later time, and answered; the client side *)
(* of it may fail in between, whether or not the server has acted.         *)
(***************************************************************************)
EXTENDS Weeds

CONSTANTS Clients,     \* the requests
          Cases,       \* proxies with what each request asks: [conf, req]
          MaxVersions  \* bound: how many versions of the file there are

Configs == [weeds : Seq({"master", "volume", "filer"}), retry : Nat,
            uniSource : BOOLEAN]

\* post: it came by POST to /delete, as opposed to the DELETE method, with
\* that method right (rightMethod), its form parsed and a "path" in it;
\* path: "fid" (one slash), "file", "noslash" (not an URL path) or "empty";
\* writable: what isWritable says of the caller, "broken" if it comes to a nil
\* *IPNet, an entry of UploadWhite that is no CIDR.
Reqs == [post : BOOLEAN, rightMethod : BOOLEAN, parses : BOOLEAN,
         hasPath : BOOLEAN, path : {"fid", "file", "noslash", "empty"},
         writable : {"yes", "no", "broken"}, source : BOOLEAN]

ASSUME CasesAssumption ==
    \A k \in Cases : /\ k.conf \in Configs
                     /\ k.req \in [Clients -> Reqs]
                     /\ \A c \in Clients : ~k.req[c].post
                          => /\ k.req[c].rightMethod /\ k.req[c].parses
                             /\ k.req[c].hasPath
                             /\ k.req[c].path \in {"fid", "file"}
ASSUME VersionsAssumption == MaxVersions \in Nat \ {0}

Gone == 0

VARIABLES
    conf, req,  \* the configuration; what each request asks
    pc,         \* where each handler is
    retry,      \* deleteFile's retry
    atVolume,   \* the DELETE goes where the master redirected to
    status,     \* the status in the reply, 0 if nothing was written
    net,        \* DELETEs sent and not handled: [client, attempt, atVolume]
    answered,   \* DELETEs answered, the answer on its way
    version,    \* external: the version the servers hold, Gone if none
    uploads,    \* external: the versions uploaded so far
    removed,    \* history: the versions each request removed
    asked,      \* history: the weeds each request turned to
    trouble     \* history: <<request, what>>: "refused", "lost", "blind"

handlerVars == <<retry, atVolume, status>>
historyVars == <<removed, asked, trouble>>
vars == <<conf, req, pc, handlerVars, net, answered, version, uploads,
          historyVars>>

\* deleteHandler matches the path against fidChecker, reRouting has chosen
\* the case of its switch by it.
isFiler(c) == req[c].path # "fid"

\* Mutant of Target: the round is not passed on.
TargetSameRound(c) == getFileUrl(conf.weeds, isFiler(c), 0)

\* The server of this attempt.
Target(c) == getFileUrl(conf.weeds, isFiler(c), retry[c])

Call(c) == [client |-> c, attempt |-> retry[c], atVolume |-> atVolume[c]]

Finals == {"done", "panicked"}

-----------------------------------------------------------------------------
Init == /\ \E k \in Cases : conf = k.conf /\ req = k.req
        /\ pc = [c \in Clients |-> "start"]
        /\ retry = [c \in Clients |-> 0]
        /\ atVolume = [c \in Clients |-> FALSE]
        /\ status = [c \in Clients |-> 0]
        /\ net = {}
        /\ answered = {}
        /\ version = 1
        /\ uploads = 1
        /\ removed = [c \in Clients |-> {}]
        /\ asked = [c \in Clients |-> {}]
        /\ trouble = {}

Goto(c, stage) == pc' = [pc EXCEPT ![c] = stage]
Finish(c, code) == Goto(c, "done") /\ status' = [status EXCEPT ![c] = code]

\* The two checks of deleteFile.
MayDelete(c) == (conf.uniSource => req[c].source) /\ req[c].writable # "no"

\* deleteHandler answers a wrong method with 405, but a form without a path
\* or one that does not parse with nothing.  Contains of a nil *IPNet panics,
\* and so does filepath[1:] of "".
Begin(c) ==
    /\ pc[c] = "start"
    /\ IF ~req[c].rightMethod THEN Finish(c, 405)
       ELSE IF ~req[c].parses \/ ~req[c].hasPath THEN Finish(c, 0)
       ELSE IF ~MayDelete(c) THEN Finish(c, 406)
       ELSE /\ Goto(c, IF req[c].writable = "broken" \/ req[c].path = "empty"
                       THEN "panicked" ELSE "try")
            /\ UNCHANGED status
    /\ UNCHANGED <<conf, req, retry, atVolume, net, answered, version, uploads,
                   historyVars>>

\* Mutant of Failed: retry++ is forgotten.
FailedNoCount(c) ==
    IF retry[c] < conf.retry
    THEN Goto(c, "try") /\ UNCHANGED <<retry, status>>
    ELSE Finish(c, 500) /\ UNCHANGED retry

\* weedDelete returns an error.
Failed(c) ==
    IF retry[c] < conf.retry
    THEN Goto(c, "try") /\ retry' = [retry EXCEPT ![c] = @ + 1] /\ UNCHANGED status
    ELSE Finish(c, 500) /\ UNCHANGED retry

\* A weed is chosen; a fid is looked up at a master first.
Try(c) ==
    /\ pc[c] = "try"
    /\ IF Target(c) = Panic
       THEN Goto(c, "panicked") /\ UNCHANGED <<retry, status, asked>>
       ELSE IF req[c].path = "noslash"
       THEN Failed(c) /\ UNCHANGED asked
       ELSE /\ Goto(c, IF isFiler(c) THEN "send" ELSE "lookup")
            /\ asked' = [asked EXCEPT ![c] = @ \cup {Target(c)}]
            /\ UNCHANGED <<retry, status>>
    /\ atVolume' = [atVolume EXCEPT ![c] = isFiler(c)]
    /\ UNCHANGED <<conf, req, net, answered, version, uploads, removed, trouble>>

\* The master redirects: client.Get returns an error whose URL is where the
\* volume server is.
Redirected(c) == /\ pc[c] = "lookup"
                 /\ Goto(c, "send")
                 /\ atVolume' = [atVolume EXCEPT ![c] = TRUE]
                 /\ UNCHANGED <<conf, req, retry, status, net, answered,
                                version, uploads, historyVars>>

\* Any other answer: "can't find the file".
NotRedirected(c) == /\ pc[c] = "lookup"
                    /\ Failed(c)
                    /\ trouble' = trouble \cup {<<c, "refused">>}
                    /\ UNCHANGED <<conf, req, atVolume, net, answered, version,
                                   uploads, removed, asked>>

\* The master is out of reach: that is an error with an URL as well, the
\* master's own.
LookupFails(c) == /\ pc[c] = "lookup"
                  /\ Goto(c, "send")
                  /\ trouble' = trouble \cup {<<c, "blind">>}
                  /\ UNCHANGED <<conf, req, handlerVars, net, answered, version,
                                 uploads, removed, asked>>

\* deleteRequest.
Send(c) == /\ pc[c] = "send"
           /\ net' = net \cup {Call(c)}
           /\ Goto(c, "wait")
           /\ UNCHANGED <<conf, req, handlerVars, answered, version, uploads,
                          historyVars>>

\* Mutant of Answered: the answer counts before it is there.
AnsweredEarly(c) == /\ pc[c] = "wait"
                    /\ Finish(c, 200)
                    /\ UNCHANGED <<conf, req, retry, atVolume, net, answered,
                                   version, uploads, historyVars>>

\* Mutant of Answered: an answer is retried like a failure.
AnsweredAgain(c) == /\ pc[c] = "wait"
                    /\ Call(c) \in answered
                    /\ answered' = answered \ {Call(c)}
                    /\ Failed(c)
                    /\ UNCHANGED <<conf, req, atVolume, net, version, uploads,
                                   historyVars>>

\* Any answer will do: deleteRequest logs the status and returns nil.
Answered(c) == /\ pc[c] = "wait"
               /\ Call(c) \in answered
               /\ answered' = answered \ {Call(c)}
               /\ Finish(c, 200)
               /\ UNCHANGED <<conf, req, retry, atVolume, net, version, uploads,
                              historyVars>>

\* The connection fails before the answer is read.
CallFails(c) == /\ pc[c] = "wait"
                /\ trouble' = trouble \cup {<<c, "lost">>}
                /\ answered' = answered \ {Call(c)}
                /\ Failed(c)
                /\ UNCHANGED <<conf, req, atVolume, net, version, uploads,
                               removed, asked>>

-----------------------------------------------------------------------------
(***************************************************************************)
(* The seaweedfs servers and the uploaders (external).                     *)
(***************************************************************************)
Listening(m) == pc[m.client] = "wait" /\ Call(m.client) = m

Answer(m) == answered' = IF Listening(m) THEN answered \cup {m} ELSE answered

\* A filer or a volume server carries the DELETE out.
Remove(m) == /\ m \in net
             /\ m.atVolume
             /\ version # Gone
             /\ net' = net \ {m}
             /\ version' = Gone
             /\ removed' = [removed EXCEPT ![m.client] = @ \cup {version}]
             /\ Answer(m)
             /\ UNCHANGED <<conf, req, pc, handlerVars, uploads, asked, trouble>>

\* A server answers without deleting: there is nothing, it may not or cannot,
\* or it is a master.
Decline(m) == /\ m \in net
              /\ net' = net \ {m}
              /\ Answer(m)
              /\ trouble' = IF version # Gone
                            THEN trouble \cup {<<m.client, "refused">>} ELSE trouble
              /\ UNCHANGED <<conf, req, pc, handlerVars, version, uploads,
                             removed, asked>>

\* Somebody uploads the file again.
Upload == /\ uploads < MaxVersions
          /\ uploads' = uploads + 1
          /\ version' = uploads + 1
          /\ UNCHANGED <<conf, req, pc, handlerVars, net, answered, historyVars>>

\* What a handler does by itself.
Handler(c) == Begin(c) \/ Try(c) \/ Send(c)

Next == \/ \E c \in Clients :
             \/ Handler(c)
             \/ Redirected(c) \/ NotRedirected(c) \/ LookupFails(c)
             \/ Answered(c) \/ CallFails(c)
        \/ \E m \in net : Remove(m) \/ Decline(m)
        \/ Upload

Spec == Init /\ [][Next]_vars

\* Every goroutine runs; nothing is assumed of the servers.
FairSpec == Spec /\ \A c \in Clients : WF_vars(Handler(c))

-----------------------------------------------------------------------------
Calls == [client : Clients, attempt : 0..conf.retry, atVolume : BOOLEAN]

\* Every variable keeps its type; retry stays within the configured number.
TypeOK ==
    /\ \E k \in Cases : conf = k.conf /\ req = k.req
    /\ pc \in [Clients -> {"start", "try", "lookup", "send", "wait"} \cup Finals]
    /\ retry \in [Clients -> 0..conf.retry]
    /\ atVolume \in [Clients -> BOOLEAN]
    /\ status \in [Clients -> {0, 200, 405, 406, 500}]
    /\ net \subseteq Calls
    /\ answered \subseteq Calls
    /\ version \in Gone..uploads
    /\ uploads \in 1..MaxVersions
    /\ removed \in [Clients -> SUBSET (1..MaxVersions)]
    /\ asked \in [Clients -> SUBSET (1..Len(conf.weeds))]
    /\ trouble \subseteq Clients \X {"refused", "lost", "blind"}

Ok(c) == pc[c] = "done" /\ status[c] = 200

(***************************************************************************)
(* A reply "ok" follows the file's removal, by this request or by another, *)
(* unless a server refused this request.  In particular it is never sent   *)
(* on the strength of a DELETE that failed and may yet be carried out.     *)
(***************************************************************************)
OkNeedsRemoval ==
    \A c \in Clients :
        Ok(c) /\ <<c, "refused">> \notin trouble
            => UNION {removed[d] : d \in Clients} # {}

(***************************************************************************)
(* A request removes more than one version of the file only if an answer   *)
(* to one of its DELETEs was lost: the retry then removes what was         *)
(* uploaded in between.                                                    *)
(***************************************************************************)
RemovesOnceUnlessLost ==
    \A c \in Clients :
        Cardinality(removed[c]) > 1 => <<c, "lost">> \in trouble

(***************************************************************************)
(* A deletion is given up only after every weed of its type was turned to, *)
(* as long as there are no more of them than attempts.                     *)
(***************************************************************************)
FailoverComplete ==
    \A c \in Clients :
        LET hits == OfType(conf.weeds, TypeFor(isFiler(c)))
        IN  pc[c] = "done" /\ status[c] = 500 /\ req[c].path # "noslash"
            /\ Len(conf.weeds) > 1 /\ Cardinality(hits) <= conf.retry + 1
                => hits \subseteq asked[c]

(***************************************************************************)
(* Every handler comes to rest: it has finished or waits for a server that *)
(* never answers.                                                          *)
(***************************************************************************)
Settles == \A c \in Clients : <>[](pc[c] \in Finals \cup {"lookup", "wait"})

(***************************************************************************)
(* What proxy_file_handler.go:225 says of deleteFile: it deletes the local *)
(* file.  A reply "ok" means that the version it found is not there any    *)
(* more.                                                                   *)
(***************************************************************************)
OkMeansDeleted == \A c \in Clients : Ok(c) => version # 1
=============================================================================
