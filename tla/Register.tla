------------------------------ MODULE Register ------------------------------
(***************************************************************************)
(* Uploads of the manifest of a chunked file: what doSubmit does when a    *)
(* form has a part named "meta" - checkMeta, registerChunkedFileMeta,      *)
(* Assign, upload_chunked_file_manifest, Upload (src/server/               *)
(* proxy_file_handler.go, proxy_split_handler.go) and util.Post, several   *)
(* requests at once, from the call of doSubmit to its return.              *)
(*                                                                         *)
(* Three calls follow each other, none of which is tried again: a master   *)
(* assigns a fid, a volume server stores the manifest under it, a filer    *)
(* registers the fid under the path.  Each may be carried out later than   *)
(* the handler waits for it.  A request makes each call once, so a fid and *)
(* a manifest are named by the request they are for.                       *)
(***************************************************************************)
EXTENDS Weeds

CONSTANTS Clients,  \* the requests
          Cases,    \* proxies with what each request submits: [weeds, sub]
          Paths,    \* the names of the files
          NoFile,   \* the nil *FileHeader
          Nobody    \* no fid under a path

\* files: the names of the first files of the fields other than "meta";
\* parses: external, whether the url the master will assign is one for
\* url.Parse.
Subs == [isFiler : BOOLEAN, files : SUBSET Paths, parses : BOOLEAN]

ASSUME CasesAssumption ==
    Cases \subseteq [weeds : Seq({"master", "volume", "filer"}), sub : [Clients -> Subs]]
ASSUME SentinelsAssumption == NoFile \notin Paths /\ Nobody \notin Clients

Kinds == {"assign", "manifest", "register"}

\* A call, and the answer to one.
Calls   == [client : Clients, kind : Kinds]
Answers == [call : Calls, ok : BOOLEAN]

VARIABLES
    weeds, sub,  \* the configured servers; what each request submits
    pc,          \* where each handler is: about to make a call, or its wait
    file,        \* the file checkMeta chose
    outcome,     \* what doSubmit returned: "none" so far, "ok", "failed"
    net,         \* calls posted and not handled
    answers,     \* answers on their way
    assigned,    \* external: the requests a fid was assigned for
    stored,      \* external: the fids a manifest is stored under
    registered,  \* history: the fids that were ever registered
    entry,       \* external: the fid the filer has under each path
    trouble,     \* history: <<request, kind, what>>: "lost", "refused", "unread"
    before       \* history: who had an ok when a request began

handlerVars == <<file, outcome, before>>
serverVars  == <<assigned, stored, registered, entry>>
vars == <<weeds, sub, pc, handlerVars, net, answers, serverVars, trouble>>

Finals == {"done", "panicked"}
Waits  == {"assignWait", "manifestWait", "registerWait"}

\* The call a handler waits for.
KindOf(stage) == CASE stage = "assignWait" -> "assign"
                   [] stage = "manifestWait" -> "manifest"
                   [] stage = "registerWait" -> "register"

Waiting(c) == pc[c] \in Waits
Call(c, kind) == [client |-> c, kind |-> kind]
MyCall(c) == Call(c, KindOf(pc[c]))

-----------------------------------------------------------------------------
Init == /\ \E k \in Cases : weeds = k.weeds /\ sub = k.sub
        /\ pc = [c \in Clients |-> "start"]
        /\ file = [c \in Clients |-> NoFile]
        /\ outcome = [c \in Clients |-> "none"]
        /\ net = {}
        /\ answers = {}
        /\ assigned = {}
        /\ stored = {}
        /\ registered = {}
        /\ entry = [p \in Paths |-> Nobody]
        /\ trouble = {}
        /\ before = [c \in Clients |-> {}]

Goto(c, stage) == pc' = [pc EXCEPT ![c] = stage]
Return(c, how) == Goto(c, "done") /\ outcome' = [outcome EXCEPT ![c] = how]
Blame(c, what) == trouble' = trouble \cup {<<c, KindOf(pc[c]), what>>}

\* Mutant of checkMeta: the loop stops at the part named "meta".
checkMetaEarly(c) == sub[c].files \cup {NoFile}

\* checkMeta ranges over a map: the file is that of any field, nil if "meta"
\* is the only one.
checkMeta(c) == IF sub[c].files = {} THEN {NoFile} ELSE sub[c].files

\* doSubmit chooses a server it will not use, then registerChunkedFileMeta
\* the first master, whose pointer it uses unseen, and posts /dir/assign.
Begin(c) ==
    /\ pc[c] = "start"
    /\ before' = [before EXCEPT ![c] = {d \in Clients : outcome[d] = "ok"}]
    /\ IF submitUrl(weeds, sub[c].isFiler, 0) = Panic
          \/ getWeed(weeds, Master, 0) = NoWeed
       THEN Goto(c, "panicked") /\ UNCHANGED <<file, net>>
       ELSE /\ \E f \in checkMeta(c) : file' = [file EXCEPT ![c] = f]
            /\ net' = net \cup {Call(c, "assign")}
            /\ Goto(c, "assignWait")
    /\ UNCHANGED <<weeds, sub, outcome, answers, serverVars, trouble>>

Take(a) == a \in answers /\ answers' = answers \ {a}

\* An answer in time, with what it says.
Got(c, kind, ok) == /\ Waiting(c) /\ KindOf(pc[c]) = kind
                    /\ Take([call |-> Call(c, kind), ok |-> ok])

\* Mutant of AssignAnswered: ret.Count and the error are not looked at.
AssignAnsweredUnchecked(c) ==
    /\ \E ok \in BOOLEAN : Got(c, "assign", ok)
    /\ Goto(c, "manifest")
    /\ UNCHANGED <<weeds, sub, handlerVars, net, serverVars, trouble>>

\* With a fid at hand the name of the file is read, from nil if need be.
AssignAnswered(c) ==
    /\ Got(c, "assign", TRUE)
    /\ Goto(c, IF file[c] = NoFile THEN "panicked" ELSE "manifest")
    /\ UNCHANGED <<weeds, sub, handlerVars, net, serverVars, trouble>>

\* The part is opened and copied; an error of the copy is overwritten by the
\* result of Upload and what was read is posted.  The error of url.Parse is
\* dropped, the nil *url.URL used.
PostManifest(c) ==
    /\ pc[c] = "manifest"
    /\ IF sub[c].parses
       THEN /\ net' = net \cup {Call(c, "manifest")}
            /\ Goto(c, "manifestWait")
       ELSE Goto(c, "panicked") /\ UNCHANGED net
    /\ UNCHANGED <<weeds, sub, handlerVars, answers, serverVars, trouble>>

CannotOpen(c) ==
    /\ pc[c] = "manifest"
    /\ Return(c, "failed")
    /\ trouble' = trouble \cup {<<c, "manifest", "unread">>}
    /\ UNCHANGED <<weeds, sub, file, before, net, answers, serverVars>>

\* Mutant of ManifestAnswered: ret.Error is not looked at.
ManifestAnsweredUnchecked(c) ==
    /\ \E ok \in BOOLEAN : Got(c, "manifest", ok)
    /\ net' = net \cup {Call(c, "register")}
    /\ Goto(c, "registerWait")
    /\ UNCHANGED <<weeds, sub, handlerVars, serverVars, trouble>>

\* Mutant of ManifestAnswered: the registration is not waited for.
ManifestAnsweredNoWait(c) ==
    /\ Got(c, "manifest", TRUE)
    /\ net' = net \cup {Call(c, "register")}
    /\ Return(c, "ok")
    /\ UNCHANGED <<weeds, sub, file, before, serverVars, trouble>>

\* Mutant of ManifestAnswered: the registration is forgotten.
ManifestAnsweredLast(c) ==
    /\ Got(c, "manifest", TRUE)
    /\ Return(c, "ok")
    /\ UNCHANGED <<weeds, sub, file, before, net, serverVars, trouble>>

\* The first filer is chosen, unseen again, and /admin/register posted.
ManifestAnswered(c) ==
    /\ Got(c, "manifest", TRUE)
    /\ IF getWeed(weeds, Filer, 0) = NoWeed
       THEN Goto(c, "panicked") /\ UNCHANGED net
       ELSE /\ net' = net \cup {Call(c, "register")}
            /\ Goto(c, "registerWait")
    /\ UNCHANGED <<weeds, sub, handlerVars, serverVars, trouble>>

\* Mutant of RegisterAnswered: the answer is parsed like the other two.
RegisterAnsweredParsed(c) ==
    /\ Got(c, "register", TRUE)
    /\ Return(c, "failed")
    /\ UNCHANGED <<weeds, sub, file, before, net, serverVars, trouble>>

\* fileMeta, with the fid, goes into the reply.
RegisterAnswered(c) ==
    /\ Got(c, "register", TRUE)
    /\ Return(c, "ok")
    /\ UNCHANGED <<weeds, sub, file, before, net, serverVars, trouble>>

\* Mutant of Refused: util.Post does not look at the status.
RefusedUnseen(c) ==
    /\ Waiting(c)
    /\ Take([call |-> MyCall(c), ok |-> FALSE])
    /\ Blame(c, "refused")
    /\ Return(c, IF pc[c] = "registerWait" THEN "ok" ELSE "failed")
    /\ UNCHANGED <<weeds, sub, file, before, net, serverVars>>

\* An answer that is a refusal: a status from 400 on or no fid for the two
\* calls by util.Post, an error or no JSON for Upload.
Refused(c) ==
    /\ Waiting(c)
    /\ Take([call |-> MyCall(c), ok |-> FALSE])
    /\ Blame(c, "refused")
    /\ Return(c, "failed")
    /\ UNCHANGED <<weeds, sub, file, before, net, serverVars>>

\* Mutant of CallFails: the manifest is posted again and again.
CallFailsAgain(c) ==
    /\ Waiting(c)
    /\ answers' = {a \in answers : a.call # MyCall(c)}
    /\ Blame(c, "lost")
    /\ IF pc[c] = "manifestWait" THEN Goto(c, "manifest") /\ UNCHANGED outcome
       ELSE Return(c, "failed")
    /\ UNCHANGED <<weeds, sub, file, before, net, serverVars>>

\* The connection fails, with the call lost, under way or carried out.
CallFails(c) ==
    /\ Waiting(c)
    /\ answers' = {a \in answers : a.call # MyCall(c)}
    /\ Blame(c, "lost")
    /\ Return(c, "failed")
    /\ UNCHANGED <<weeds, sub, file, before, net, serverVars>>

-----------------------------------------------------------------------------
(***************************************************************************)
(* The seaweedfs servers (external): each says in its answer whether it    *)
(* has done what it was asked.  An answer nobody waits for any more is     *)
(* dropped.                                                                *)
(***************************************************************************)
Answer(m, ok) == answers' = IF Waiting(m.client) /\ MyCall(m.client) = m
                            THEN answers \cup {[call |-> m, ok |-> ok]} ELSE answers

Handle(m, kind) == m \in net /\ m.kind = kind /\ net' = net \ {m}

AssignFid(m) == /\ Handle(m, "assign")
                /\ assigned' = assigned \cup {m.client}
                /\ Answer(m, TRUE)
                /\ UNCHANGED <<weeds, sub, pc, handlerVars, stored, registered,
                               entry, trouble>>

StoreManifest(m) == /\ Handle(m, "manifest")
                    /\ stored' = stored \cup {m.client}
                    /\ Answer(m, TRUE)
                    /\ UNCHANGED <<weeds, sub, pc, handlerVars, assigned,
                                   registered, entry, trouble>>

RegisterPath(m) == /\ Handle(m, "register")
                   /\ registered' = registered \cup {m.client}
                   /\ entry' = [entry EXCEPT ![file[m.client]] = m.client]
                   /\ Answer(m, TRUE)
                   /\ UNCHANGED <<weeds, sub, pc, handlerVars, assigned, stored,
                                  trouble>>

Reject(m) == /\ m \in net
             /\ net' = net \ {m}
             /\ Answer(m, FALSE)
             /\ UNCHANGED <<weeds, sub, pc, handlerVars, serverVars, trouble>>

\* What a handler does by itself.
Handler(c) == Begin(c) \/ PostManifest(c) \/ CannotOpen(c)

Next == \/ \E c \in Clients :
             \/ Handler(c)
             \/ AssignAnswered(c) \/ ManifestAnswered(c) \/ RegisterAnswered(c)
             \/ Refused(c) \/ CallFails(c)
        \/ \E m \in net :
             AssignFid(m) \/ StoreManifest(m) \/ RegisterPath(m) \/ Reject(m)

Spec == Init /\ [][Next]_vars

\* Every goroutine runs; nothing is assumed of the servers.
FairSpec == Spec /\ \A c \in Clients : WF_vars(Handler(c))

-----------------------------------------------------------------------------
\* Every variable keeps its type, and a handler that is past its first call
\* has a fid and a file.
TypeOK ==
    /\ [weeds |-> weeds, sub |-> sub] \in Cases
    /\ pc \in [Clients -> {"start", "manifest"} \cup Waits \cup Finals]
    /\ file \in [Clients -> Paths \cup {NoFile}]
    /\ outcome \in [Clients -> {"none", "ok", "failed"}]
    /\ net \subseteq Calls
    /\ answers \subseteq Answers
    /\ assigned \subseteq Clients
    /\ stored \subseteq Clients
    /\ registered \subseteq Clients
    /\ entry \in [Paths -> Clients \cup {Nobody}]
    /\ trouble \subseteq Clients \X Kinds \X {"lost", "refused", "unread"}
    /\ before \in [Clients -> SUBSET Clients]
    /\ \A c \in Clients : pc[c] \in {"manifest", "manifestWait", "registerWait"}
         => c \in assigned /\ file[c] # NoFile

(***************************************************************************)
(* Whatever the filer has under a path is a fid with a stored manifest,    *)
(* registered for a file of that name: the path is never named before its  *)
(* content is there, however late the calls are carried out.               *)
(***************************************************************************)
EntryIsBacked ==
    \A p \in Paths : entry[p] # Nobody => entry[p] \in stored /\ file[entry[p]] = p

(***************************************************************************)
(* A reply "ok" means that all three calls were carried out: the fid it    *)
(* names was assigned, holds the manifest, and was registered.             *)
(***************************************************************************)
OkIsBacked ==
    \A c \in Clients : outcome[c] = "ok" => c \in assigned \cap stored \cap registered

(***************************************************************************)
(* An upload that is reported as failed has not named its path, unless the *)
(* answer to the registration was lost.                                    *)
(***************************************************************************)
FailureNamesNothing ==
    \A c \in Clients : outcome[c] = "failed" /\ c \in registered
        => <<c, "register", "lost">> \in trouble

(***************************************************************************)
(* A manifest that no path ever named, and that no reply names, is the     *)
(* price of a lost answer, of a refused registration, or of a proxy that   *)
(* has no filer (it panics after it has stored the manifest).              *)
(***************************************************************************)
OrphansNeedTrouble ==
    \A c \in stored \ registered : pc[c] \in Finals =>
        \/ <<c, "manifest", "lost">> \in trouble
        \/ <<c, "register", "lost">> \in trouble
        \/ <<c, "register", "refused">> \in trouble
        \/ pc[c] = "panicked" /\ OfType(weeds, Filer) = {}

(***************************************************************************)
(* Once a request is told ok, a path does not go back to the file of a     *)
(* request that had its ok before this one began.                          *)
(***************************************************************************)
NoComeback ==
    \A d \in Clients : outcome[d] = "ok" => entry[file[d]] \notin before[d]

(***************************************************************************)
(* A panic has one of these causes: the configuration lacks a master, a    *)
(* filer or both, the form has no file besides "meta", or the master's     *)
(* answer has a url that does not parse.                                   *)
(***************************************************************************)
PanicsHaveCause ==
    \A c \in Clients : pc[c] = "panicked" =>
        \/ OfType(weeds, Master) = {}
        \/ OfType(weeds, Filer) = {}
        \/ sub[c].files = {}
        \/ ~sub[c].parses

(***************************************************************************)
(* Every handler comes to rest: it has returned or panicked, or waits for  *)
(* a server that never answers.                                            *)
(***************************************************************************)
Settles == \A c \in Clients : <>[](pc[c] \in Finals \cup Waits)
=============================================================================
