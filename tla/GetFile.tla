------------------------------ MODULE GetFile ------------------------------
(***************************************************************************)
(* One GET of a file through the proxy: accessCheckAndGetFiler,            *)
(* getFileHandler, download, downloadShadow (src/server/                   *)
(* proxy_file_handler.go) and writeResponseContent (proxy_server.go),      *)
(* from the routed request to the reply, with the servers behind it.       *)
(*                                                                         *)
(* Asking a server and having its answer are two steps: between them the   *)
(* server may answer anything, or never (weedHttpClient has no timeout).   *)
(* An answer breaks off at any point.  Every attempt writes into the ONE   *)
(* http.ResponseWriter of the request, so what an attempt left there is    *)
(* there for the next.                                                     *)
(***************************************************************************)
EXTENDS Weeds, Router

CONSTANTS Configs,   \* the proxies: [weeds, shadows, retry, whites]
          Requests,  \* the requests: [uri, method, caller]
          WeedTypes, \* the types a configured server may have
          Nets,      \* the networks a caller may be in
          MaxLen     \* the longest body an answer may have, in blocks

\* An entry of FilerWhite that is no CIDR: initFilerWhite drops the error and
\* keeps a nil *IPNet.
NilNet == "nil"

\* A caller whose X-Real-IP has a ":" at a byte index that lies beyond the
\* slice of the text's runes, multi-byte ones being before it.
TooWide == "toowide"

ASSUME ConfigsAssumption ==
    Configs \subseteq [weeds : Seq(WeedTypes), shadows : Seq(WeedTypes), retry : Nat,
                      whites : Seq(Nets \cup {NilNet})]
ASSUME RequestsAssumption ==
    /\ Requests \subseteq [uri : Uris, method : Methods, caller : Nets \cup {TooWide}]
    /\ \A r \in Requests : Route(r.uri, r.method) \in GetRoutes
ASSUME MaxLenAssumption == MaxLen \in Nat

\* No Content-Length header: the body is chunked.
NoLen == -1

\* What a server may answer.  status: 200, 404 or any other; len: the length
\* of the body it means to send; declared: it has a Content-Length; sent: how
\* much arrives before the connection ends or breaks.
Answers == {a \in [status : {"ok", "missing", "error"}, len : 0..MaxLen,
                   declared : BOOLEAN, sent : 0..MaxLen] : a.sent <= a.len}

Whole(a) == a.sent = a.len

VARIABLES
    conf, req,      \* the proxy's configuration and the request
    pc,             \* where the handler is
    retry,          \* getFileHandler's retry
    shadowRetry,    \* download's shadowRetry
    err,            \* the last error: "nil", "notfound" (ErrNotFound), "failed"
    answer,         \* the answer being copied; a set of at most one
    out,            \* the ResponseWriter
    asked,          \* history: the weeds asked so far
    shadowAsked,    \* history: how many requests went to shadows
    seen            \* history: what happened to the attempts

vars == <<conf, req, pc, retry, shadowRetry, err, answer, out, asked,
          shadowAsked, seen>>

isFiler      == Route(req.uri, req.method) \in FilerRoutes
ShadowAccess == Len(conf.shadows) > 0

-----------------------------------------------------------------------------
(***************************************************************************)
(* The ResponseWriter of net/http (external), as far as it is used:        *)
(*   lengthHdr  the first Content-Length put into Header() before the      *)
(*              first write, NoLen if none - w.Header().Add never replaces *)
(*              an earlier one and net/http reads the first;               *)
(*   wrote      the status line is out; status, declared: what it said;    *)
(*   written    blocks handed to Write, the refused ones included: beyond  *)
(*              declared every Write returns ErrContentLength;             *)
(*   body       the pieces the client was sent, one for each attempt that  *)
(*              sent it something.                                         *)
(***************************************************************************)
NewWriter == [lengthHdr |-> NoLen, wrote |-> FALSE, status |-> 0,
              declared |-> NoLen, written |-> 0, body |-> <<>>]

AddHeaders(w, a) ==
    IF ~w.wrote /\ a.declared /\ w.lengthHdr = NoLen
    THEN [w EXCEPT !.lengthHdr = a.len] ELSE w

\* The first WriteHeader counts, later ones are superfluous.
WriteHeader(w, code) ==
    IF w.wrote THEN w
    ELSE [w EXCEPT !.wrote = TRUE, !.status = code, !.declared = w.lengthHdr]

\* The blocks the declared length leaves room for; a writer that was given
\* more has room for none.
Room(w) == IF w.declared = NoLen THEN MaxLen
           ELSE IF w.written < w.declared THEN w.declared - w.written ELSE 0

\* How much of the answer a copy gets through: all that arrived if there is
\* room, otherwise some prefix that fits (how much depends on the buffer).
Accepts(w, a) == IF a.sent <= Room(w) THEN {a.sent} ELSE 0..Room(w)

\* The writer after n of the blocks that arrived were accepted.
Put(w, a, n) ==
    IF a.sent = 0 THEN w
    ELSE [w EXCEPT !.written = IF n = a.sent THEN @ + n
                               ELSE w.declared + 1,
                   !.body = IF n = 0 THEN @
                            ELSE Append(@, [attempt |-> retry, n |-> n,
                                            whole |-> Whole(a) /\ n = a.sent])]

-----------------------------------------------------------------------------
Init == /\ conf \in Configs
        /\ req \in Requests
        /\ pc = "start"
        /\ retry = 0
        /\ shadowRetry = 0
        /\ err = "nil"
        /\ answer = {}
        /\ out = NewWriter
        /\ asked = {}
        /\ shadowAsked = 0
        /\ seen = {}

\* accessCheckAndGetFiler is in the way of this request.
Checked == Route(req.uri, req.method) = "accessCheckAndGetFiler"

\* An entry of the white list has the caller, and is tried before a nil one.
Listed == \E i \in DOMAIN conf.whites :
            /\ conf.whites[i] = req.caller
            /\ \A j \in 1..i : conf.whites[j] # NilNet

\* isAccessible panics: it cuts the runes of the address at a byte index,
\* and calls Contains of a nil *IPNet.
CheckPanics == \/ req.caller = TooWide
               \/ ~Listed /\ \E i \in DOMAIN conf.whites : conf.whites[i] = NilNet

isAccessible == Listed /\ ~CheckPanics

AccessPanics == /\ pc = "start"
                /\ Checked
                /\ CheckPanics
                /\ pc' = "panicked"
                /\ UNCHANGED <<conf, req, retry, shadowRetry, err, answer, out,
                               asked, shadowAsked, seen>>

\* A caller outside the filer white list gets no word at all (an empty 200
\* from net/http).
DenyAccess == /\ pc = "start"
              /\ Checked
              /\ ~CheckPanics
              /\ ~isAccessible
              /\ pc' = "denied"
              /\ UNCHANGED <<conf, req, retry, shadowRetry, err, answer, out,
                             asked, shadowAsked, seen>>

Admitted == Checked => isAccessible

\* getFileHandler takes GET and HEAD only: 405.
RefuseMethod == /\ pc = "start"
                /\ Admitted
                /\ req.method \notin {"get", "head"}
                /\ out' = WriteHeader(out, 405)
                /\ pc' = "refused"
                /\ UNCHANGED <<conf, req, retry, shadowRetry, err, answer,
                               asked, shadowAsked, seen>>

Accept == /\ pc = "start"
          /\ Admitted
          /\ req.method \in {"get", "head"}
          /\ pc' = "primary"
          /\ UNCHANGED <<conf, req, retry, shadowRetry, err, answer, out,
                         asked, shadowAsked, seen>>

\* Mutant of Return: retry++ is forgotten.
ReturnNoCount(e) ==
    /\ err' = e
    /\ answer' = {}
    /\ IF e # "nil" /\ retry < conf.retry
       THEN retry' = retry /\ pc' = "primary"
       ELSE retry' = retry /\ pc' = "reply"

\* download returns e: getFileHandler's loop tries again while it may.
Return(e) == /\ err' = e
             /\ answer' = {}
             /\ IF e # "nil" /\ retry < conf.retry
                THEN retry' = retry + 1 /\ pc' = "primary"
                ELSE retry' = retry /\ pc' = "reply"

\* Mutant of Target: the round is not passed on.
TargetSameRound == getFileUrl(conf.weeds, isFiler, 0)

\* The server of this attempt.
Target == getFileUrl(conf.weeds, isFiler, retry)

\* download sends the request to the weed of this round.
AskWeed == /\ pc = "primary"
           /\ Target # Panic
           /\ asked' = asked \cup {Target}
           /\ pc' = "primaryWait"
           /\ UNCHANGED <<conf, req, retry, shadowRetry, err, answer, out,
                          shadowAsked, seen>>

\* getFileUrl dereferences a nil *Weed or indexes an empty list.
NoWeedPanics == /\ pc = "primary"
                /\ Target = Panic
                /\ pc' = "panicked"
                /\ UNCHANGED <<conf, req, retry, shadowRetry, err, answer, out,
                               asked, shadowAsked, seen>>

\* The request fails before an answer: try again, but the LAST attempt goes
\* on to the shadows, whether there are any or not.
WeedFails == /\ pc = "primaryWait"
             /\ IF retry < conf.retry
                THEN Return("failed") /\ UNCHANGED shadowRetry
                ELSE /\ pc' = "shadow"
                     /\ shadowRetry' = 0
                     /\ UNCHANGED <<retry, err, answer>>
             /\ UNCHANGED <<conf, req, out, asked, shadowAsked, seen>>

\* Any answer but 404 is copied to the client, an error page included.
WeedAnswers == /\ pc = "primaryWait"
               /\ \E a \in Answers :
                    /\ a.status # "missing"
                    /\ answer' = {a}
               /\ pc' = "copy"
               /\ UNCHANGED <<conf, req, retry, shadowRetry, err, out, asked,
                              shadowAsked, seen>>

\* Mutant of WeedMisses: ps.ShadowAccess is not looked at.
WeedMissesUnchecked == /\ pc = "primaryWait"
                       /\ seen' = seen \cup {"missing"}
                       /\ pc' = "shadow"
                       /\ shadowRetry' = 0
                       /\ UNCHANGED <<conf, req, retry, err, answer, out,
                                      asked, shadowAsked>>

\* 404: the shadows are asked, where there are any.
WeedMisses == /\ pc = "primaryWait"
              /\ seen' = seen \cup {"missing"}
              /\ IF ShadowAccess
                 THEN /\ pc' = "shadow"
                      /\ shadowRetry' = 0
                      /\ UNCHANGED <<retry, err, answer>>
                 ELSE Return("notfound") /\ UNCHANGED shadowRetry
              /\ UNCHANGED <<conf, req, out, asked, shadowAsked>>

ShadowTarget == getShadowFileUrl(conf.shadows, isFiler, shadowRetry)

\* Mutant of ShadowFailed: every attempt walks the shadows once more.
ShadowFailedOffByOne(e) ==
    IF shadowRetry <= conf.retry
    THEN /\ shadowRetry' = shadowRetry + 1
         /\ pc' = "shadow"
         /\ UNCHANGED <<retry, err, answer>>
    ELSE Return(e) /\ UNCHANGED shadowRetry

\* downloadShadow returns the error e: the next shadow, while retries last.
ShadowFailed(e) ==
    IF shadowRetry < conf.retry
    THEN /\ shadowRetry' = shadowRetry + 1
         /\ pc' = "shadow"
         /\ UNCHANGED <<retry, err, answer>>
    ELSE Return(e) /\ UNCHANGED shadowRetry

AskShadow == /\ pc = "shadow"
             /\ ShadowTarget \notin {Panic, NoWeed}
             /\ shadowAsked' = shadowAsked + 1
             /\ pc' = "shadowWait"
             /\ UNCHANGED <<conf, req, retry, shadowRetry, err, answer, out,
                            asked, seen>>

\* getShadowFileUrl finds no shadow of the type: ErrNotFound.
NoShadow == /\ pc = "shadow"
            /\ ShadowTarget = NoWeed
            /\ ShadowFailed("notfound")
            /\ UNCHANGED <<conf, req, out, asked, shadowAsked, seen>>

\* &ps.Shadows[0] of an empty list.
NoShadowPanics == /\ pc = "shadow"
                  /\ ShadowTarget = Panic
                  /\ pc' = "panicked"
                  /\ UNCHANGED <<conf, req, retry, shadowRetry, err, answer,
                                 out, asked, shadowAsked, seen>>

ShadowFails == /\ pc = "shadowWait"
               /\ ShadowFailed("failed")
               /\ UNCHANGED <<conf, req, out, asked, shadowAsked, seen>>

\* A shadow's answer is copied whatever its status, a 404 page included.
ShadowAnswers == /\ pc = "shadowWait"
                 /\ \E a \in Answers : answer' = {a}
                 /\ pc' = "copy"
                 /\ UNCHANGED <<conf, req, retry, shadowRetry, err, out, asked,
                                shadowAsked, seen>>

\* The writer a copy of the answer meets: the headers are added first, the
\* first block sends the status line.
Ready(a) == LET w == AddHeaders(out, a)
            IN  IF a.sent = 0 THEN w ELSE WriteHeader(w, 200)

\* Mutant of Verdict: an answer without a body is a success.
VerdictNoEmpty(a, n) == IF n = a.sent /\ Whole(a) THEN "nil" ELSE "failed"

\* What writeResponseContent makes of a copy of which n blocks got through.
Verdict(a, n) == IF n = 0 THEN "notfound"
                 ELSE IF n = a.sent /\ Whole(a) THEN "nil" ELSE "failed"

\* What the history keeps of a copy: nothing got through, the answer broke
\* off, or an error page was taken for the file.
Marks(a, n) == (IF n = 0 THEN {"blank"} ELSE {})
               \cup (IF Whole(a) THEN {} ELSE {"cut"})
               \cup (IF a.status # "ok" /\ Verdict(a, n) = "nil" THEN {"page"} ELSE {})

\* writeResponseContent copies the answer into the client's response.
Copy == /\ pc = "copy"
        /\ \E a \in answer : \E n \in Accepts(Ready(a), a) :
             /\ out' = Put(Ready(a), a, n)
             /\ seen' = seen \cup Marks(a, n)
             /\ Return(Verdict(a, n))
        /\ UNCHANGED <<conf, req, shadowRetry, asked, shadowAsked>>

\* Mutant of StatusOf: every failure is told as a missing file.
StatusOfAll404(e) == IF e = "nil" THEN 200 ELSE 404

\* Mutant of StatusOf: the error branches lose their WriteHeader.
StatusOfAll200(e) == 200

\* The status line getFileHandler asks for.
StatusOf(e) == CASE e = "nil" -> 200
                 [] e = "notfound" -> 404
                 [] e = "failed" -> 500

Reply == /\ pc = "reply"
         /\ out' = WriteHeader(out, StatusOf(err))
         /\ pc' = "done"
         /\ UNCHANGED <<conf, req, retry, shadowRetry, err, answer, asked,
                        shadowAsked, seen>>

\* What the handler does by itself, and what the servers do.
Handler == \/ AccessPanics \/ DenyAccess \/ RefuseMethod \/ Accept
           \/ AskWeed \/ NoWeedPanics
           \/ AskShadow \/ NoShadow \/ NoShadowPanics
           \/ Copy \/ Reply
Servers == WeedFails \/ WeedAnswers \/ WeedMisses \/ ShadowFails \/ ShadowAnswers

Next == Handler \/ Servers

Spec == Init /\ [][Next]_vars

\* The goroutine runs; nothing is assumed of the servers.
FairSpec == Spec /\ WF_vars(Handler)

-----------------------------------------------------------------------------
Stages == {"start", "denied", "refused", "primary", "primaryWait", "shadow",
           "shadowWait", "copy", "reply", "done", "panicked"}

\* Every variable keeps its type; the counters of both loops stay within the
\* configured number of retries.
TypeOK ==
    /\ conf \in Configs
    /\ req \in Requests
    /\ pc \in Stages
    /\ retry \in 0..conf.retry
    /\ shadowRetry \in 0..conf.retry
    /\ err \in {"nil", "notfound", "failed"}
    /\ answer \in SUBSET Answers
    /\ out \in [lengthHdr : {NoLen} \cup 0..MaxLen, wrote : BOOLEAN,
                status : {0, 200, 404, 405, 500},
                declared : {NoLen} \cup 0..MaxLen, written : Nat,
                body : Seq([attempt : Nat, n : 1..MaxLen, whole : BOOLEAN])]
    /\ asked \subseteq 1..Len(conf.weeds)
    /\ shadowAsked \in Nat
    /\ seen \subseteq {"missing", "blank", "cut", "page"}

\* getFileHandler reports the request as served.
Success == pc = "done" /\ err = "nil"

\* The client holds the whole body of one answer and nothing else, under a
\* length that is right.
OneWholeAnswer ==
    /\ Len(out.body) = 1
    /\ out.body[1].whole
    /\ out.status = 200
    /\ out.declared \in {NoLen, out.body[1].n}

(***************************************************************************)
(* Unless some answer broke off, a request reported as served gave the     *)
(* client exactly one whole answer, although every attempt writes into the *)
(* same response (getFileHandler and writeResponseContent): an empty or    *)
(* refused answer of an earlier attempt leaves nothing in it that a later  *)
(* success would be mixed with or cut by.                                  *)
(***************************************************************************)
ServedWhole == Success /\ "cut" \notin seen => OneWholeAnswer

\* 404 for a file that is missing; for one that could not be had the code
\* has 500, the comment of getFileHandler 404.
OwnStatus == IF err = "notfound" THEN {404} ELSE {404, 500}

(***************************************************************************)
(* A failure is told as one: with 404 where the file is missing, and with  *)
(* a status of failure otherwise (which one of the two is open here, see   *)
(* FailureIsTold404).  The client sees 200 in its place only if an earlier *)
(* attempt broke off or had an empty body, after which the status line or  *)
(* the length is already out.                                              *)
(***************************************************************************)
FailureHonest ==
    pc = "done" /\ err # "nil" /\ out.status \notin OwnStatus
        => out.status = 200 /\ seen \cap {"cut", "blank"} # {}

(***************************************************************************)
(* 404 is told only on evidence: a server said so, an answer had nothing   *)
(* for the client, or shadows are configured of which none has the type.   *)
(* Servers that are merely out of reach never make a file "not found".     *)
(***************************************************************************)
NotFoundHasEvidence ==
    pc = "done" /\ out.status = 404
        => \/ seen \cap {"missing", "blank"} # {}
           \/ /\ Len(conf.shadows) > 1
              /\ OfType(conf.shadows, TypeFor(isFiler)) = {}

(***************************************************************************)
(* A request is given up only after every weed of its type was asked, as   *)
(* long as there are no more of them than attempts: retries fail over and  *)
(* do not hit one server again.                                            *)
(***************************************************************************)
FailoverComplete ==
    LET hits == OfType(conf.weeds, TypeFor(isFiler))
    IN  pc = "done" /\ err # "nil" /\ Len(conf.weeds) > 1
        /\ Cardinality(hits) <= conf.retry + 1
            => hits \subseteq asked

(***************************************************************************)
(* What one request costs the shadows: at most (retry + 1) requests for    *)
(* each of the (retry + 1) attempts.                                       *)
(***************************************************************************)
Amplification ==
    shadowAsked <= (conf.retry + 1) * (conf.retry + 1)

(***************************************************************************)
(* A panic has one of these causes.  Before any server is asked: the check *)
(* of the caller meets an address it cannot cut, or an entry of the white  *)
(* list that is no network.  Later: no weed of the type is configured, or  *)
(* no shadow when the last attempt could not reach its weed (download      *)
(* falls through to the shadows then).                                     *)
(***************************************************************************)
PanicsHaveCause ==
    pc = "panicked" =>
        \/ /\ asked = {} /\ Checked
           /\ \/ req.caller = TooWide
              \/ \E i \in DOMAIN conf.whites : conf.whites[i] = NilNet
        \/ Len(conf.weeds) = 0
        \/ Len(conf.weeds) > 1 /\ OfType(conf.weeds, TypeFor(isFiler)) = {}
        \/ Len(conf.shadows) = 0 /\ retry = conf.retry

(***************************************************************************)
(* The handler comes to rest: finished, or waiting for a server that never *)
(* answers.  The two nested retry loops cannot turn for ever, whatever the *)
(* servers do.                                                             *)
(***************************************************************************)
Settles == <>[](pc \in {"denied", "refused", "done", "panicked",
                        "primaryWait", "shadowWait"})

(***************************************************************************)
(* What proxy_file_handler.go:70-75 says of getFileHandler: on success it  *)
(* returns the picture - the body of one answer, not of several attempts   *)
(* one behind the other.                                                   *)
(***************************************************************************)
SuccessReturnsThePicture == Success => Len(out.body) = 1

\* A request for which a server was asked ends without the file: the handler
\* has an error or dies, or an error page was taken for the file.
Missed == \/ pc = "done" /\ (err # "nil" \/ "page" \in seen)
          \/ pc = "panicked" /\ asked # {}

(***************************************************************************)
(* What proxy_file_handler.go:70-75 says of getFileHandler: on failure a   *)
(* message is returned, {"message":"Can't get the file!","status":404};    *)
(* Test_GetNeverExistFile (proxy_server_test.go:71-90) asks for the same   *)
(* status.  So whoever does not get the file is told 404, not 500, not     *)
(* nothing, and not a page of a server under 200.                          *)
(***************************************************************************)
FailureIsTold404 == Missed => out.status = 404
=============================================================================
