--------------------------- MODULE RegisterProofs ---------------------------
(***************************************************************************)
(* Uploads of chunked files, for any number of requests, any servers and   *)
(* any order of the calls: type correctness, and that a path or a reply    *)
(* never names what is not there.                                          *)
(***************************************************************************)
EXTENDS Register, WeedsProofs

Types ==
    /\ pc \in [Clients -> {"start", "manifest"} \cup Waits \cup Finals]
    /\ file \in [Clients -> Paths \cup {NoFile}]
    /\ outcome \in [Clients -> {"none", "ok", "failed"}]
    /\ net \subseteq Calls
    /\ answers \subseteq Answers
    /\ assigned \subseteq Clients
    /\ stored \subseteq Clients
    /\ registered \subseteq Clients
    /\ entry \in [Paths -> Clients \cup {Nobody}]
    /\ trouble \subseteq Clients \X Kinds \X {"lost", "refused", "unread"}
    /\ before \in [Clients -> SUBSET Clients]

\* The configuration is one of the cases and does not change.
CaseInv == [weeds |-> weeds, sub |-> sub] \in Cases

\* A request that has not begun has posted nothing.
StartInv == \A c \in Clients : pc[c] = "start" =>
                c \notin registered /\ \A m \in net : m.client # c

\* The requests a call of the kind was carried out for.
CarriedOut(kind) == IF kind = "assign" THEN assigned
                    ELSE IF kind = "manifest" THEN stored ELSE registered

\* A good answer is not sent before the call is carried out.
AnswerInv == \A a \in answers : a.ok => a.call.client \in CarriedOut(a.call.kind)

\* A registration is posted for a manifest that is stored.
CallInv == \A m \in net : m.kind = "register"
               => m.client \in stored /\ file[m.client] \in Paths

\* How far a handler has come tells what the servers have done for it.
StageInv == \A c \in Clients :
    /\ pc[c] \in {"manifest", "manifestWait", "registerWait"}
         => c \in assigned /\ file[c] # NoFile
    /\ pc[c] = "registerWait" => c \in stored

EntryInv == \A p \in Paths : entry[p] # Nobody =>
                /\ entry[p] \in stored \cap registered
                /\ file[entry[p]] = p

IInv == /\ Types /\ CaseInv
        /\ StartInv /\ AnswerInv /\ CallInv /\ StageInv
        /\ EntryInv /\ OkIsBacked

-----------------------------------------------------------------------------
\* The types of what a case has.
LEMMA CaseFacts ==
  ASSUME CaseInv
  PROVE  sub \in [Clients -> Subs] /\ weeds \in Seq({"master", "volume", "filer"})
BY CasesAssumption DEF CaseInv

\* checkMeta returns a file of the form or nil.
LEMMA CheckMetaType ==
  ASSUME CaseInv, NEW c \in Clients, NEW f \in checkMeta(c)
  PROVE  f \in Paths \cup {NoFile}
BY CaseFacts DEF checkMeta, Subs

\* Which wait an answer to a call of the kind ends.
LEMMA GotStage ==
  ASSUME NEW c, NEW kind \in Kinds, NEW ok, Got(c, kind, ok)
  PROVE  /\ pc[c] = IF kind = "assign" THEN "assignWait"
                    ELSE IF kind = "manifest" THEN "manifestWait" ELSE "registerWait"
         /\ [call |-> Call(c, kind), ok |-> ok] \in answers
         /\ answers' = answers \ {[call |-> Call(c, kind), ok |-> ok]}
BY DEF Got, Take, Waiting, Waits, KindOf, Kinds

\* The call a handler waits for is one of the three.
LEMMA MyCallType ==
  ASSUME NEW c \in Clients, Waiting(c)
  PROVE  KindOf(pc[c]) \in Kinds /\ MyCall(c) \in Calls
BY DEF Waiting, Waits, KindOf, Kinds, MyCall, Call, Calls

\* An answer on its way is an answer to the call, or was there before.
LEMMA AnswerShape ==
  ASSUME NEW m, NEW ok, Answer(m, ok)
  PROVE  answers' \subseteq answers \cup {[call |-> m, ok |-> ok]}
BY DEF Answer

LEMMA AnswerType ==
  ASSUME NEW m \in Calls, NEW ok \in BOOLEAN
  PROVE  [call |-> m, ok |-> ok] \in Answers
BY DEF Answers

\* No request ends both ways by an action of the handlers that fail.
LEMMA FailShape ==
  ASSUME NEW c \in Clients, Types, CannotOpen(c) \/ Refused(c) \/ CallFails(c)
  PROVE  /\ pc' = [pc EXCEPT ![c] = "done"]
         /\ outcome' = [outcome EXCEPT ![c] = "failed"]
         /\ answers' \subseteq answers
         /\ trouble \subseteq trouble'
         /\ trouble' \subseteq Clients \X Kinds \X {"lost", "refused", "unread"}
         /\ UNCHANGED <<weeds, sub, file, before, net, serverVars>>
<1>1. CASE CannotOpen(c)
  BY <1>1 DEF CannotOpen, Return, Goto, Types, Kinds
<1>2. CASE Refused(c)
  BY <1>2, MyCallType DEF Refused, Return, Goto, Types, Blame, Take
<1>3. CASE CallFails(c)
  BY <1>3, MyCallType DEF CallFails, Return, Goto, Types, Blame
<1> QED
  BY <1>1, <1>2, <1>3

-----------------------------------------------------------------------------
LEMMA InitInv == Init => IInv
<1> SUFFICES ASSUME Init PROVE IInv
  OBVIOUS
<1>1. Types
  BY DEF Init, Types
<1>2. CaseInv
  <2>1. PICK k \in Cases : weeds = k.weeds /\ sub = k.sub
    BY DEF Init
  <2>2. k = [weeds |-> k.weeds, sub |-> k.sub]
    BY CasesAssumption
  <2> QED
    BY <2>1, <2>2 DEF CaseInv
<1>3. StartInv /\ AnswerInv /\ CallInv /\ StageInv /\ EntryInv /\ OkIsBacked
  BY DEF Init, StartInv, AnswerInv, CallInv, StageInv, EntryInv, OkIsBacked
<1> QED
  BY <1>1, <1>2, <1>3 DEF IInv

\* The steps of the handlers.
LEMMA HandlerStep ==
  ASSUME IInv, NEW c \in Clients,
         \/ Handler(c)
         \/ AssignAnswered(c) \/ ManifestAnswered(c) \/ RegisterAnswered(c)
         \/ Refused(c) \/ CallFails(c)
  PROVE  IInv'
<1> USE DEF IInv
<1>1. CASE Begin(c)
  <2> USE <1>1 DEF Begin
  <2>0. /\ UNCHANGED <<weeds, sub, outcome, answers, assigned, stored, registered,
                       entry, trouble>>
        /\ pc[c] = "start"
        /\ before' \in [Clients -> SUBSET Clients]
        /\ file' \in [Clients -> Paths \cup {NoFile}]
        /\ \A d \in Clients \ {c} : file'[d] = file[d]
        /\ \/ pc' = [pc EXCEPT ![c] = "panicked"] /\ net' = net
           \/ /\ pc' = [pc EXCEPT ![c] = "assignWait"]
              /\ net' = net \cup {Call(c, "assign")}
    BY CheckMetaType DEF Goto, serverVars, Types
  <2>1. Types' /\ CaseInv'
    BY <2>0 DEF Types, CaseInv, Calls, Call, Kinds, Waits, Finals
  <2>2. StartInv' /\ AnswerInv' /\ StageInv'
    BY <2>0 DEF Types, StartInv, AnswerInv, StageInv, CarriedOut, Call
  <2>3. CallInv'
    BY <2>0 DEF Types, StartInv, CallInv, Call, Calls
  <2>4. EntryInv' /\ OkIsBacked'
    BY <2>0 DEF Types, StartInv, EntryInv, OkIsBacked
  <2> QED
    BY <2>1, <2>2, <2>3, <2>4
<1>2. CASE PostManifest(c)
  <2> USE <1>2 DEF PostManifest, Goto, handlerVars, serverVars
  <2>1. Types' /\ CaseInv'
    BY DEF Types, CaseInv, Calls, Call, Kinds, Waits, Finals
  <2>2. StartInv' /\ AnswerInv' /\ StageInv' /\ CallInv'
    BY DEF Types, StartInv, AnswerInv, StageInv, CallInv, CarriedOut, Call
  <2>3. EntryInv' /\ OkIsBacked'
    BY DEF Types, EntryInv, OkIsBacked
  <2> QED
    BY <2>1, <2>2, <2>3
<1>3. CASE CannotOpen(c) \/ Refused(c) \/ CallFails(c)
  <2>0. /\ pc' = [pc EXCEPT ![c] = "done"]
        /\ outcome' = [outcome EXCEPT ![c] = "failed"]
        /\ answers' \subseteq answers
        /\ trouble' \subseteq Clients \X Kinds \X {"lost", "refused", "unread"}
        /\ UNCHANGED <<weeds, sub, file, before, net, assigned, stored, registered,
                       entry>>
    BY <1>3, FailShape DEF serverVars
  <2>1. Types' /\ CaseInv'
    BY <2>0 DEF Types, CaseInv, Finals
  <2>2. StartInv' /\ AnswerInv' /\ StageInv' /\ CallInv'
    BY <2>0 DEF Types, StartInv, AnswerInv, StageInv, CallInv, CarriedOut
  <2>3. EntryInv' /\ OkIsBacked'
    BY <2>0 DEF Types, EntryInv, OkIsBacked
  <2> QED
    BY <2>1, <2>2, <2>3
<1>4. CASE AssignAnswered(c)
  <2> USE <1>4 DEF AssignAnswered, Goto, handlerVars, serverVars
  <2>0. /\ answers' \subseteq answers
        /\ [call |-> Call(c, "assign"), ok |-> TRUE] \in answers
        /\ pc[c] = "assignWait"
    BY GotStage DEF Kinds
  <2>1. c \in assigned
    BY <2>0 DEF AnswerInv, CarriedOut, Call
  <2>2. Types' /\ CaseInv'
    BY <2>0 DEF Types, CaseInv, Finals
  <2>3. StartInv' /\ AnswerInv' /\ StageInv' /\ CallInv'
    BY <2>0, <2>1 DEF Types, StartInv, AnswerInv, StageInv, CallInv, CarriedOut
  <2>4. EntryInv' /\ OkIsBacked'
    BY DEF Types, EntryInv, OkIsBacked
  <2> QED
    BY <2>2, <2>3, <2>4
<1>5. CASE ManifestAnswered(c)
  <2> USE <1>5 DEF ManifestAnswered, Goto, handlerVars, serverVars
  <2>0. /\ answers' \subseteq answers
        /\ [call |-> Call(c, "manifest"), ok |-> TRUE] \in answers
        /\ pc[c] = "manifestWait"
    BY GotStage DEF Kinds
  <2>1. c \in stored
    BY <2>0 DEF AnswerInv, CarriedOut, Call
  <2>2. c \in assigned /\ file[c] \in Paths
    BY <2>0 DEF StageInv, Types
  <2>3. Types' /\ CaseInv'
    BY <2>0 DEF Types, CaseInv, Finals, Waits, Calls, Call, Kinds
  <2>4. StartInv' /\ AnswerInv' /\ StageInv'
    BY <2>0, <2>1, <2>2 DEF Types, StartInv, AnswerInv, StageInv, CarriedOut, Call
  <2>5. CallInv'
    BY <2>1, <2>2 DEF CallInv, Call
  <2>6. EntryInv' /\ OkIsBacked'
    BY DEF Types, EntryInv, OkIsBacked
  <2> QED
    BY <2>3, <2>4, <2>5, <2>6
<1>6. CASE RegisterAnswered(c)
  <2>a. Got(c, "register", TRUE) /\ "register" \in Kinds
    BY <1>6 DEF RegisterAnswered, Kinds
  <2>0. /\ answers' \subseteq answers
        /\ [call |-> Call(c, "register"), ok |-> TRUE] \in answers
        /\ pc[c] = "registerWait"
    BY <2>a, GotStage
  <2> USE <1>6 DEF RegisterAnswered, Return, Goto, serverVars
  <2>1. c \in assigned \cap stored \cap registered
    BY <2>0 DEF AnswerInv, CarriedOut, Call, StageInv
  <2>2. Types' /\ CaseInv'
    BY <2>0 DEF Types, CaseInv, Finals
  <2>3. StartInv' /\ AnswerInv' /\ StageInv' /\ CallInv'
    BY <2>0 DEF Types, StartInv, AnswerInv, StageInv, CallInv, CarriedOut
  <2>4. EntryInv' /\ OkIsBacked'
    BY <2>1 DEF Types, EntryInv, OkIsBacked
  <2> QED
    BY <2>2, <2>3, <2>4
<1> QED
  BY <1>1, <1>2, <1>3, <1>4, <1>5, <1>6 DEF Handler

\* The steps of the servers.
LEMMA ServerStep ==
  ASSUME IInv, NEW m \in net,
         AssignFid(m) \/ StoreManifest(m) \/ RegisterPath(m) \/ Reject(m)
  PROVE  IInv'
<1> USE DEF IInv
<1>0. m \in Calls /\ m.client \in Clients /\ m.kind \in Kinds
  BY DEF Types, Calls
<1>1. CASE AssignFid(m)
  <2> USE <1>1 DEF AssignFid, handlerVars
  <2>0. net' \subseteq net /\ answers' \subseteq answers \cup {[call |-> m, ok |-> TRUE]}
        /\ m.kind = "assign"
    BY AnswerShape DEF Handle
  <2>a. answers' \subseteq Answers
    BY <1>0, <2>0, AnswerType DEF Types
  <2>1. Types' /\ CaseInv'
    BY <1>0, <2>0, <2>a DEF Types, CaseInv, Handle
  <2>2. StartInv' /\ AnswerInv' /\ StageInv' /\ CallInv'
    BY <1>0, <2>0 DEF Types, StartInv, AnswerInv, StageInv, CallInv, CarriedOut
  <2>3. EntryInv' /\ OkIsBacked'
    BY DEF EntryInv, OkIsBacked
  <2> QED
    BY <2>1, <2>2, <2>3
<1>2. CASE StoreManifest(m)
  <2> USE <1>2 DEF StoreManifest, handlerVars
  <2>0. net' \subseteq net /\ answers' \subseteq answers \cup {[call |-> m, ok |-> TRUE]}
        /\ m.kind = "manifest"
    BY AnswerShape DEF Handle
  <2>a. answers' \subseteq Answers
    BY <1>0, <2>0, AnswerType DEF Types
  <2>1. Types' /\ CaseInv'
    BY <1>0, <2>0, <2>a DEF Types, CaseInv, Handle
  <2>2. StartInv' /\ AnswerInv' /\ StageInv' /\ CallInv'
    BY <1>0, <2>0 DEF Types, StartInv, AnswerInv, StageInv, CallInv, CarriedOut
  <2>3. EntryInv' /\ OkIsBacked'
    BY DEF EntryInv, OkIsBacked
  <2> QED
    BY <2>1, <2>2, <2>3
<1>3. CASE RegisterPath(m)
  <2> USE <1>3 DEF RegisterPath, handlerVars
  <2>0. net' \subseteq net /\ answers' \subseteq answers \cup {[call |-> m, ok |-> TRUE]}
        /\ m.kind = "register"
    BY AnswerShape DEF Handle
  <2>1. m.client \in stored /\ file[m.client] \in Paths
    BY <2>0 DEF CallInv
  <2>a. answers' \subseteq Answers
    BY <1>0, <2>0, AnswerType DEF Types
  <2>2. Types' /\ CaseInv'
    BY <1>0, <2>0, <2>1, <2>a DEF Types, CaseInv
  <2>3. StartInv'
    BY <1>0, <2>0 DEF StartInv
  <2>4. AnswerInv' /\ StageInv' /\ CallInv'
    BY <1>0, <2>0 DEF Types, AnswerInv, StageInv, CallInv, CarriedOut
  <2>5. EntryInv'
    BY <1>0, <2>1 DEF Types, EntryInv
  <2>6. OkIsBacked'
    BY DEF OkIsBacked
  <2> QED
    BY <2>2, <2>3, <2>4, <2>5, <2>6
<1>4. CASE Reject(m)
  <2> USE <1>4 DEF Reject, handlerVars, serverVars
  <2>0. net' \subseteq net /\ answers' \subseteq answers \cup {[call |-> m, ok |-> FALSE]}
    BY AnswerShape
  <2>a. answers' \subseteq Answers
    BY <1>0, <2>0, AnswerType DEF Types
  <2>1. Types' /\ CaseInv'
    BY <1>0, <2>0, <2>a DEF Types, CaseInv, Handle
  <2>2. StartInv' /\ AnswerInv' /\ StageInv' /\ CallInv'
    BY <2>0 DEF Types, StartInv, AnswerInv, StageInv, CallInv, CarriedOut
  <2>3. EntryInv' /\ OkIsBacked'
    BY DEF EntryInv, OkIsBacked
  <2> QED
    BY <2>1, <2>2, <2>3
<1> QED
  BY <1>1, <1>2, <1>3, <1>4

LEMMA StutterStep == ASSUME IInv, UNCHANGED vars PROVE IInv'
BY DEF vars, handlerVars, serverVars, IInv, Types, CaseInv, StartInv, AnswerInv,
       CallInv, StageInv, EntryInv, OkIsBacked, CarriedOut

LEMMA AlwaysInv == Spec => []IInv
<1>1. IInv /\ [Next]_vars => IInv'
  BY HandlerStep, ServerStep, StutterStep DEF Next
<1> QED
  BY InitInv, <1>1, PTL DEF Spec

-----------------------------------------------------------------------------
(***************************************************************************)
(* Type correctness; a handler that makes its second or third call has a   *)
(* fid that was assigned, and a file.                                      *)
(***************************************************************************)
THEOREM TypeCorrect == Spec => []TypeOK
<1>1. IInv => TypeOK
  BY DEF IInv, Types, CaseInv, StageInv, TypeOK
<1> QED
  BY AlwaysInv, <1>1, PTL

(***************************************************************************)
(* The path never names a fid without a manifest, in whatever order the    *)
(* calls of any number of requests are carried out.                        *)
(***************************************************************************)
THEOREM EntriesBacked == Spec => []EntryIsBacked
<1>1. IInv => EntryIsBacked
  BY DEF IInv, EntryInv, EntryIsBacked
<1> QED
  BY AlwaysInv, <1>1, PTL

(***************************************************************************)
(* doSubmit reports a chunked file as uploaded only after all three calls  *)
(* of registerChunkedFileMeta were carried out.                            *)
(***************************************************************************)
THEOREM OkBacked == Spec => []OkIsBacked
<1>1. IInv => OkIsBacked
  BY DEF IInv
<1> QED
  BY AlwaysInv, <1>1, PTL
-----------------------------------------------------------------------------
(***************************************************************************)
(* FailureNamesNothing.  A registration that was not posted, or was        *)
(* answered by a refusal, is not carried out and will not be.              *)
(***************************************************************************)
Quiet(c) == c \notin registered /\ Call(c, "register") \notin net

EarlyInv == \A c \in Clients :
    pc[c] \in {"start", "assignWait", "manifest", "manifestWait"}
        => Quiet(c) /\ \A a \in answers : a.call # Call(c, "register")

FailedInv == \A c \in Clients :
    pc[c] = "done" /\ outcome[c] = "failed" /\ <<c, "register", "lost">> \notin trouble
        => Quiet(c)

\* A call that is answered is handled, and one that is refused has no effect.
RefusalInv == \A a \in answers : a.call.kind = "register" =>
                  a.call \notin net /\ (~a.ok => a.call.client \notin registered)

\* A registration that is under way was not carried out: it is posted once.
PostedInv == \A m \in net : m.kind = "register" => m.client \notin registered

OutcomeInv == \A c \in Clients : outcome[c] # "none" => pc[c] = "done"

FInv == EarlyInv /\ FailedInv /\ RefusalInv /\ PostedInv /\ OutcomeInv

LEMMA FailInit == Init => FInv
BY DEF Init, FInv, EarlyInv, FailedInv, RefusalInv, PostedInv, OutcomeInv, Quiet

\* A handler that gives up leaves no registration, unless its answer is lost.
LEMMA GiveUpQuiet ==
  ASSUME Types, FInv, NEW c \in Clients,
         \/ CannotOpen(c)
         \/ Refused(c)
         \/ CallFails(c)
  PROVE  <<c, "register", "lost">> \in trouble' \/ Quiet(c)
<1> USE DEF FInv
<1>1. CASE CannotOpen(c)
  BY <1>1 DEF CannotOpen, EarlyInv
<1>2. CASE pc[c] \in {"assignWait", "manifestWait"}
  BY <1>2 DEF EarlyInv
<1>3. CASE pc[c] = "registerWait" /\ Refused(c)
  <2>1. KindOf(pc[c]) = "register"
    BY <1>3 DEF KindOf
  <2>2. [call |-> Call(c, "register"), ok |-> FALSE] \in answers
    BY <1>3, <2>1 DEF Refused, Take, MyCall
  <2> QED
    BY <2>2 DEF RefusalInv, Quiet, Call
<1>4. CASE pc[c] = "registerWait" /\ CallFails(c)
  <2>1. KindOf(pc[c]) = "register"
    BY <1>4 DEF KindOf
  <2> QED
    BY <1>4, <2>1 DEF CallFails, Blame
<1> QED
  BY <1>1, <1>2, <1>3, <1>4 DEF Refused, CallFails, Waiting, Waits

LEMMA FailHandlerStep ==
  ASSUME IInv, FInv, NEW c \in Clients,
         \/ Handler(c)
         \/ AssignAnswered(c) \/ ManifestAnswered(c) \/ RegisterAnswered(c)
         \/ Refused(c) \/ CallFails(c)
  PROVE  FInv'
<1> USE DEF IInv, FInv
<1>1. CASE Begin(c)
  <2>0. /\ UNCHANGED <<outcome, answers, registered, trouble>>
        /\ pc[c] = "start"
        /\ pc' \in {[pc EXCEPT ![c] = "panicked"], [pc EXCEPT ![c] = "assignWait"]}
        /\ net' \subseteq net \cup {Call(c, "assign")}
    BY <1>1 DEF Begin, Goto, serverVars
  <2>1. \A d \in Clients : Quiet(d) => Quiet(d)'
    BY <2>0 DEF Quiet, Call
  <2>2. EarlyInv' /\ FailedInv' /\ OutcomeInv'
    BY <2>0, <2>1 DEF Types, EarlyInv, FailedInv, OutcomeInv, Call
  <2>3. RefusalInv' /\ PostedInv'
    BY <2>0 DEF RefusalInv, PostedInv, Call
  <2> QED
    BY <2>2, <2>3
<1>2. CASE PostManifest(c)
  <2>0. /\ UNCHANGED <<outcome, answers, registered, trouble>>
        /\ pc[c] = "manifest"
        /\ \/ /\ pc' = [pc EXCEPT ![c] = "manifestWait"]
              /\ net' = net \cup {Call(c, "manifest")}
           \/ pc' = [pc EXCEPT ![c] = "panicked"] /\ net' = net
    BY <1>2 DEF PostManifest, Goto, handlerVars, serverVars
  <2>1. \A d \in Clients : Quiet(d) => Quiet(d)'
    BY <2>0 DEF Quiet, Call
  <2>2. EarlyInv' /\ FailedInv' /\ OutcomeInv'
    BY <2>0, <2>1 DEF Types, EarlyInv, FailedInv, OutcomeInv, Call
  <2>3. RefusalInv' /\ PostedInv'
    BY <2>0 DEF RefusalInv, PostedInv, Call
  <2> QED
    BY <2>2, <2>3
<1>3. CASE CannotOpen(c) \/ Refused(c) \/ CallFails(c)
  <2>0. /\ pc' = [pc EXCEPT ![c] = "done"]
        /\ outcome' = [outcome EXCEPT ![c] = "failed"]
        /\ answers' \subseteq answers
        /\ trouble \subseteq trouble'
        /\ UNCHANGED <<net, registered>>
    BY <1>3, FailShape DEF serverVars
  <2>1. <<c, "register", "lost">> \in trouble' \/ Quiet(c)
    BY <1>3, GiveUpQuiet
  <2>2. \A d \in Clients : Quiet(d) => Quiet(d)'
    BY <2>0 DEF Quiet, Call
  <2>3. EarlyInv' /\ FailedInv' /\ OutcomeInv'
    BY <2>0, <2>1, <2>2 DEF Types, EarlyInv, FailedInv, OutcomeInv, Call
  <2>4. RefusalInv' /\ PostedInv'
    BY <2>0 DEF RefusalInv, PostedInv
  <2> QED
    BY <2>3, <2>4
<1>4. CASE AssignAnswered(c)
  <2>a. Got(c, "assign", TRUE) /\ "assign" \in Kinds
    BY <1>4 DEF AssignAnswered, Kinds
  <2>0. /\ UNCHANGED <<outcome, net, registered, trouble>>
        /\ answers' \subseteq answers
        /\ pc[c] = "assignWait"
        /\ pc' \in {[pc EXCEPT ![c] = "panicked"], [pc EXCEPT ![c] = "manifest"]}
    BY <1>4, <2>a, GotStage DEF AssignAnswered, Goto, handlerVars, serverVars
  <2>1. \A d \in Clients : Quiet(d) => Quiet(d)'
    BY <2>0 DEF Quiet, Call
  <2>2. EarlyInv' /\ FailedInv' /\ OutcomeInv'
    BY <2>0, <2>1 DEF Types, EarlyInv, FailedInv, OutcomeInv, Call
  <2>3. RefusalInv' /\ PostedInv'
    BY <2>0 DEF RefusalInv, PostedInv
  <2> QED
    BY <2>2, <2>3
<1>5. CASE ManifestAnswered(c)
  <2>a. Got(c, "manifest", TRUE) /\ "manifest" \in Kinds
    BY <1>5 DEF ManifestAnswered, Kinds
  <2>0. /\ UNCHANGED <<outcome, registered, trouble>>
        /\ answers' \subseteq answers
        /\ pc[c] = "manifestWait"
        /\ pc' \in {[pc EXCEPT ![c] = "panicked"], [pc EXCEPT ![c] = "registerWait"]}
        /\ net' \subseteq net \cup {Call(c, "register")}
    BY <1>5, <2>a, GotStage DEF ManifestAnswered, Goto, handlerVars, serverVars
  <2>1. \A d \in Clients \ {c} : Quiet(d) => Quiet(d)'
    BY <2>0 DEF Quiet, Call
  <2>2. EarlyInv' /\ FailedInv' /\ OutcomeInv'
    BY <2>0, <2>1 DEF Types, EarlyInv, FailedInv, OutcomeInv, Call
  <2>3. RefusalInv' /\ PostedInv'
    BY <2>0 DEF RefusalInv, PostedInv, EarlyInv, Quiet, Call
  <2> QED
    BY <2>2, <2>3
<1>6. CASE RegisterAnswered(c)
  <2>a. Got(c, "register", TRUE) /\ "register" \in Kinds
    BY <1>6 DEF RegisterAnswered, Kinds
  <2>0. /\ UNCHANGED <<net, registered, trouble>>
        /\ answers' \subseteq answers
        /\ pc' = [pc EXCEPT ![c] = "done"]
        /\ outcome' = [outcome EXCEPT ![c] = "ok"]
    BY <1>6, <2>a, GotStage DEF RegisterAnswered, Return, Goto, serverVars
  <2>1. \A d \in Clients : Quiet(d) => Quiet(d)'
    BY <2>0 DEF Quiet, Call
  <2>2. EarlyInv' /\ FailedInv' /\ OutcomeInv'
    BY <2>0, <2>1 DEF Types, EarlyInv, FailedInv, OutcomeInv, Call
  <2>3. RefusalInv' /\ PostedInv'
    BY <2>0 DEF RefusalInv, PostedInv
  <2> QED
    BY <2>2, <2>3
<1> QED
  BY <1>1, <1>2, <1>3, <1>4, <1>5, <1>6 DEF Handler

LEMMA FailServerStep ==
  ASSUME IInv, FInv, NEW m \in net,
         AssignFid(m) \/ StoreManifest(m) \/ RegisterPath(m) \/ Reject(m)
  PROVE  FInv'
<1> USE DEF IInv, FInv
<1>0. /\ m \in Calls /\ m.client \in Clients
      /\ m.kind = "register" => m = Call(m.client, "register")
  BY DEF Types, Calls, Call
<1>1. /\ net' = net \ {m}
      /\ UNCHANGED <<pc, outcome, trouble>>
  BY DEF AssignFid, StoreManifest, RegisterPath, Reject, Handle, handlerVars
<1>2. PICK ok \in BOOLEAN :
        /\ answers' \subseteq answers \cup {[call |-> m, ok |-> ok]}
        /\ registered' \subseteq registered \cup {m.client}
        /\ registered' # registered => m.kind = "register"
        /\ ~ok => registered' = registered
  BY AnswerShape DEF AssignFid, StoreManifest, RegisterPath, Reject, Handle, serverVars
<1>3. \A d \in Clients : Quiet(d) => Quiet(d)'
  BY <1>0, <1>1, <1>2 DEF Quiet, Call
<1>4. EarlyInv'
  BY <1>0, <1>1, <1>2, <1>3 DEF EarlyInv, Quiet
<1>5. FailedInv' /\ OutcomeInv'
  BY <1>1, <1>3 DEF FailedInv, OutcomeInv
<1>6. RefusalInv'
  <2> SUFFICES ASSUME NEW a \in answers', a.call.kind = "register"
               PROVE  a.call \notin net' /\ (~a.ok => a.call.client \notin registered')
    BY DEF RefusalInv
  <2>1. CASE a \in answers
    <3>1. a.call \notin net /\ a.call # m /\ (~a.ok => a.call.client \notin registered)
      BY <2>1 DEF RefusalInv
    <3>2. a.call = Call(a.call.client, "register")
      BY <2>1 DEF Types, Answers, Calls, Call
    <3>3. registered' # registered => a.call.client # m.client
      BY <1>0, <1>2, <3>1, <3>2
    <3> QED
      BY <1>1, <1>2, <3>1, <3>3
  <2>2. CASE a = [call |-> m, ok |-> ok]
    <3>1. ~ok => m.client \notin registered
      BY <2>2 DEF PostedInv
    <3> QED
      BY <1>1, <1>2, <2>2, <3>1
  <2> QED
    BY <1>2, <2>1, <2>2
<1>7. PostedInv'
  <2> SUFFICES ASSUME NEW n \in net', n.kind = "register"
               PROVE  n.client \notin registered'
    BY DEF PostedInv
  <2>1. n \in net /\ n # m
    BY <1>1
  <2>2. n.client \notin registered /\ n = Call(n.client, "register")
    BY <2>1 DEF PostedInv, Types, Calls, Call
  <2> QED
    BY <1>0, <1>2, <2>1, <2>2
<1> QED
  BY <1>4, <1>5, <1>6, <1>7

LEMMA FailStutterStep == ASSUME FInv, UNCHANGED vars PROVE FInv'
BY DEF vars, handlerVars, serverVars, FInv, EarlyInv, FailedInv, RefusalInv,
       PostedInv, OutcomeInv, Quiet

-----------------------------------------------------------------------------
(***************************************************************************)
(* A chunked file whose upload is reported as failed is not, and will not  *)
(* be, registered under its path, unless the answer of the filer was lost. *)
(***************************************************************************)
THEOREM FailureQuiet == Spec => []FailureNamesNothing
<1>1. IInv /\ FInv /\ [Next]_vars => FInv'
  BY FailHandlerStep, FailServerStep, FailStutterStep DEF Next
<1>2. FInv => FailureNamesNothing
  BY DEF FInv, FailedInv, OutcomeInv, FailureNamesNothing, Quiet
<1> QED
  BY AlwaysInv, FailInit, <1>1, <1>2, PTL DEF Spec

-----------------------------------------------------------------------------
\* The steps of one handler, and of the servers.
Step(c) == \/ Handler(c)
           \/ AssignAnswered(c) \/ ManifestAnswered(c) \/ RegisterAnswered(c)
           \/ Refused(c) \/ CallFails(c)

Serve(m) == AssignFid(m) \/ StoreManifest(m) \/ RegisterPath(m) \/ Reject(m)

(***************************************************************************)
(* What a step does, seen from its handler: it begins, posts the manifest, *)
(* gets an answer of a kind, or gives up, with the trouble it had.         *)
(***************************************************************************)
Unserved(c) == OfType(weeds, Master) = {} \/ OfType(weeds, Filer) = {}

Begins(c) == /\ pc[c] = "start" /\ file'[c] \in checkMeta(c) \cup {file[c]}
             /\ before'[c] = {d \in Clients : outcome[d] = "ok"}
             /\ \/ pc'[c] = "panicked" /\ net' = net /\ Unserved(c)
                \/ /\ pc'[c] = "assignWait" /\ net' = net \cup {Call(c, "assign")}
                   /\ file'[c] \in checkMeta(c)
             /\ answers' = answers /\ outcome'[c] = outcome[c] /\ trouble' = trouble

Posts(c) == /\ pc[c] = "manifest"
            /\ \/ pc'[c] = "panicked" /\ net' = net /\ ~sub[c].parses
               \/ /\ pc'[c] = "manifestWait"
                  /\ net' = net \cup {Call(c, "manifest")}
            /\ answers' = answers /\ file'[c] = file[c] /\ before'[c] = before[c]
            /\ outcome'[c] = outcome[c] /\ trouble' = trouble

Hears(c, kind) ==
    /\ pc[c] = IF kind = "assign" THEN "assignWait"
               ELSE IF kind = "manifest" THEN "manifestWait" ELSE "registerWait"
    /\ [call |-> Call(c, kind), ok |-> TRUE] \in answers
    /\ answers' = answers \ {[call |-> Call(c, kind), ok |-> TRUE]}
    /\ file'[c] = file[c] /\ before'[c] = before[c] /\ trouble' = trouble
    /\ \/ /\ kind = "assign" /\ net' = net /\ outcome'[c] = outcome[c]
          /\ \/ pc'[c] = "panicked" /\ file[c] = NoFile
             \/ pc'[c] = "manifest" /\ file[c] # NoFile
       \/ /\ kind = "manifest" /\ outcome'[c] = outcome[c]
          /\ \/ pc'[c] = "panicked" /\ net' = net /\ OfType(weeds, Filer) = {}
             \/ pc'[c] = "registerWait" /\ net' = net \cup {Call(c, "register")}
       \/ kind = "register" /\ pc'[c] = "done" /\ outcome'[c] = "ok" /\ net' = net

GivesUp(c) ==
    /\ \/ pc[c] = "manifest" /\ answers' = answers
       \/ /\ pc[c] \in Waits /\ answers' = {a \in answers : a.call # MyCall(c)}
          /\ <<c, KindOf(pc[c]), "lost">> \in trouble'
       \/ /\ pc[c] \in Waits /\ [call |-> MyCall(c), ok |-> FALSE] \in answers
          /\ answers' = answers \ {[call |-> MyCall(c), ok |-> FALSE]}
          /\ <<c, KindOf(pc[c]), "refused">> \in trouble'
    /\ pc'[c] = "done" /\ outcome'[c] = "failed" /\ net' = net
    /\ file'[c] = file[c] /\ before'[c] = before[c]

\* A handler keeps the state of the others, and what the servers have done.
Kept(c) == /\ \A d \in Clients \ {c} :
                /\ pc'[d] = pc[d] /\ file'[d] = file[d] /\ outcome'[d] = outcome[d]
                /\ before'[d] = before[d]
           /\ weeds' = weeds /\ sub' = sub /\ UNCHANGED serverVars
           /\ trouble \subseteq trouble'

LEMMA UrlPanic ==
  ASSUME CaseInv, NEW c \in Clients,
         submitUrl(weeds, sub[c].isFiler, 0) = Panic \/ getWeed(weeds, Master, 0) = NoWeed
  PROVE  Unserved(c)
<1>1. /\ weeds \in Seq({"master", "volume", "filer"}) /\ sub[c].isFiler \in BOOLEAN
  BY CaseFacts DEF Subs
<1>2. CASE getWeed(weeds, Master, 0) = NoWeed
  BY <1>1, <1>2, GetWeedResult DEF Unserved
<1>3. CASE submitUrl(weeds, sub[c].isFiler, 0) = Panic
  <2>1. Len(weeds) = 0 \/ OfType(weeds, TypeFor(sub[c].isFiler)) = {}
    BY <1>1, <1>3, ChooseResult DEF submitUrl, getFileUrl
  <2>2. Len(weeds) = 0 => OfType(weeds, Master) = {}
    BY <1>1 DEF OfType
  <2> QED
    BY <2>1, <2>2 DEF TypeFor, Unserved
<1> QED
  BY <1>2, <1>3

LEMMA Effects ==
  ASSUME Types, CaseInv, NEW c \in Clients, Step(c)
  PROVE  /\ Kept(c)
         /\ \/ Begins(c) \/ Posts(c) \/ GivesUp(c)
            \/ Hears(c, "assign") \/ Hears(c, "manifest") \/ Hears(c, "register")
<1> USE DEF Types
<1>1. CASE Begin(c)
  <2>1. Kept(c)
    BY <1>1 DEF Begin, Goto, Kept, serverVars
  <2>2. Begins(c)
    BY <1>1, UrlPanic DEF Begin, Goto, Begins, serverVars
  <2> QED
    BY <2>1, <2>2
<1>2. CASE PostManifest(c)
  <2>1. Kept(c)
    BY <1>2 DEF PostManifest, Goto, Kept, handlerVars, serverVars
  <2>2. Posts(c)
    BY <1>2 DEF PostManifest, Goto, Posts, handlerVars, serverVars
  <2> QED
    BY <2>1, <2>2
<1>3. CASE CannotOpen(c) \/ Refused(c) \/ CallFails(c)
  <2>1. Kept(c)
    BY <1>3, FailShape DEF Kept, serverVars
  <2>2. GivesUp(c)
    <3>1. /\ pc'[c] = "done" /\ outcome'[c] = "failed" /\ net' = net
          /\ file'[c] = file[c] /\ before'[c] = before[c]
      BY <1>3, FailShape
    <3> QED
      BY <1>3, <3>1 DEF CannotOpen, Refused, CallFails, Take, Waiting, Blame, GivesUp
  <2> QED
    BY <2>1, <2>2
<1>4. CASE AssignAnswered(c)
  <2>1. Kept(c)
    BY <1>4 DEF AssignAnswered, Goto, Kept, handlerVars, serverVars
  <2>2. Hears(c, "assign")
    BY <1>4, GotStage DEF AssignAnswered, Goto, Hears, handlerVars, serverVars, Kinds
  <2> QED
    BY <2>1, <2>2
<1>5. CASE ManifestAnswered(c)
  <2>1. Kept(c)
    BY <1>5 DEF ManifestAnswered, Goto, Kept, handlerVars, serverVars
  <2>2. getWeed(weeds, Filer, 0) = NoWeed => OfType(weeds, Filer) = {}
    BY CaseFacts, GetWeedResult
  <2>3. Hears(c, "manifest")
    BY <1>5, <2>2, GotStage
       DEF ManifestAnswered, Goto, Hears, handlerVars, serverVars, Kinds
  <2> QED
    BY <2>1, <2>3
<1>6. CASE RegisterAnswered(c)
  <2>1. Kept(c)
    BY <1>6 DEF RegisterAnswered, Return, Goto, Kept, serverVars
  <2>2. Hears(c, "register")
    BY <1>6, GotStage DEF RegisterAnswered, Return, Goto, Hears, serverVars, Kinds
  <2> QED
    BY <2>1, <2>2
<1> QED
  BY <1>1, <1>2, <1>3, <1>4, <1>5, <1>6 DEF Step, Handler

\* A handler posts calls of its own only.
LEMMA OwnCalls ==
  ASSUME Types, CaseInv, NEW c \in Clients, Step(c)
  PROVE  /\ answers' \subseteq answers
         /\ \A d \in Clients \ {c} : \A kind :
               Call(d, kind) \in net' <=> Call(d, kind) \in net
<1>1. \/ net' = net
      \/ \E kind \in Kinds : net' = net \cup {Call(c, kind)}
  BY Effects DEF Begins, Posts, Hears, GivesUp, Kinds
<1>2. answers' \subseteq answers
  BY Effects DEF Begins, Posts, Hears, GivesUp
<1>3. \A d \in Clients \ {c} : \A k1, k2 : Call(d, k1) # Call(c, k2)
  BY DEF Call
<1> QED
  BY <1>1, <1>2, <1>3

\* What the servers leave alone.
LEMMA ServeKeeps ==
  ASSUME Types, NEW m \in net, Serve(m)
  PROVE  /\ UNCHANGED <<weeds, sub, pc, file, outcome, before, trouble>>
         /\ net' = net \ {m} /\ m \in Calls
         /\ \E ok \in BOOLEAN :
              /\ answers' \subseteq answers \cup {[call |-> m, ok |-> ok]}
              /\ ~ok => UNCHANGED serverVars
         /\ stored' # stored => StoreManifest(m)
         /\ <<registered, entry>>' # <<registered, entry>> => RegisterPath(m)
BY AnswerShape DEF Serve, AssignFid, StoreManifest, RegisterPath, Reject, Handle,
                   handlerVars, serverVars, Types

-----------------------------------------------------------------------------
(***************************************************************************)
(* PanicsHaveCause: the nil file of a form without one is seen at          *)
(* the answer to the first call, so it is remembered from the beginning.   *)
(***************************************************************************)
Cause(c) == Unserved(c) \/ sub[c].files = {} \/ ~sub[c].parses

PanicInv == \A c \in Clients :
    /\ pc[c] = "panicked" => Cause(c)
    /\ pc[c] = "assignWait" /\ file[c] = NoFile => Cause(c)

LEMMA PanicStep ==
  ASSUME IInv, PanicInv, [Next]_vars
  PROVE  PanicInv'
<1> USE DEF IInv
<1>1. ASSUME NEW c \in Clients, Step(c), NEW d \in Clients
      PROVE  /\ pc'[d] = "panicked" => Cause(d)'
             /\ pc'[d] = "assignWait" /\ file'[d] = NoFile => Cause(d)'
  <2> USE <1>1
  <2>1. Kept(c) /\ (Cause(d)' <=> Cause(d))
    BY Effects DEF Kept, Cause, Unserved
  <2>2. CASE d # c
    BY <2>1, <2>2 DEF Kept, PanicInv
  <2>3. CASE d = c
    <3>1. NoFile \in checkMeta(c) => sub[c].files = {}
      BY CaseFacts, SentinelsAssumption DEF checkMeta, Subs
    <3>2. CASE Begins(c)
      BY <2>1, <2>3, <3>1, <3>2 DEF Begins, Cause
    <3>3. CASE Posts(c) \/ GivesUp(c)
      BY <2>1, <2>3, <3>3 DEF Posts, GivesUp, Cause
    <3>4. CASE Hears(c, "assign")
      BY <2>1, <2>3, <3>4 DEF Hears, PanicInv
    <3>5. CASE Hears(c, "manifest") \/ Hears(c, "register")
      BY <2>1, <2>3, <3>5 DEF Hears, Cause, Unserved
    <3> QED
      BY <3>2, <3>3, <3>4, <3>5, Effects
  <2> QED
    BY <2>2, <2>3
<1>2. CASE UNCHANGED <<weeds, sub, pc, file>>
  BY <1>2 DEF PanicInv, Cause, Unserved
<1>3. (\E m \in net : Serve(m)) \/ UNCHANGED vars => UNCHANGED <<weeds, sub, pc, file>>
  BY ServeKeeps DEF vars, handlerVars
<1> QED
  BY <1>1, <1>2, <1>3 DEF Next, Step, Serve, PanicInv

(***************************************************************************)
(* A handler panics only where a master, a filer or a file is missing, or  *)
(* where the assigned url does not parse: the proxy dereferences the       *)
(* server, the file and the *url.URL without looking.                      *)
(***************************************************************************)
THEOREM RegisterPanics == Spec => []PanicsHaveCause
<1>1. Init => PanicInv
  BY DEF Init, PanicInv
<1>2. PanicInv => PanicsHaveCause
  BY DEF PanicInv, PanicsHaveCause, Cause, Unserved
<1> QED
  BY AlwaysInv, <1>1, <1>2, PanicStep, PTL DEF Spec

-----------------------------------------------------------------------------
(***************************************************************************)
(* OrphansNeedTrouble.  A manifest is posted once; it may be stored later  *)
(* than its handler waits for it only if its answer counts as lost.        *)
(***************************************************************************)
Excused(c) == \/ <<c, "manifest", "lost">> \in trouble
              \/ <<c, "register", "lost">> \in trouble
              \/ <<c, "register", "refused">> \in trouble
              \/ pc[c] = "panicked" /\ OfType(weeds, Filer) = {}

Manifest(c) == Call(c, "manifest")

Orphan(c) ==
    /\ pc[c] \in {"start", "assignWait", "manifest"} =>
         /\ c \notin stored /\ Manifest(c) \notin net
         /\ \A a \in answers : a.call # Manifest(c)
    /\ \A a \in answers : a.call = Manifest(c) =>
         Manifest(c) \notin net /\ (~a.ok => c \notin stored)
    /\ Manifest(c) \in net =>
         /\ c \notin stored
         /\ pc[c] = "manifestWait" \/ <<c, "manifest", "lost">> \in trouble
    /\ c \in stored \ registered =>
         pc[c] \in {"manifestWait", "registerWait"} \/ Excused(c)

OrphanInv == \A c \in Clients : Orphan(c)

LEMMA OrphanStep ==
  ASSUME IInv, OrphanInv, [Next]_vars
  PROVE  OrphanInv'
<1> USE DEF IInv
<1>0. \A c, d \in Clients : \A kind \in Kinds :
        Call(c, kind) = Manifest(d) <=> c = d /\ kind = "manifest"
  BY DEF Call, Manifest
<1>1. ASSUME NEW c \in Clients, Step(c), NEW d \in Clients
      PROVE  Orphan(d)'
  <2> USE <1>1
  <2>1. /\ Kept(c) /\ Orphan(d) /\ Manifest(d)' = Manifest(d)
        /\ stored' = stored /\ registered' = registered /\ weeds' = weeds
        /\ trouble \subseteq trouble'
    BY Effects DEF Kept, OrphanInv, Manifest, Call, serverVars
  <2>2. CASE d # c
    <3>1. /\ answers' \subseteq answers
          /\ Manifest(d) \in net' <=> Manifest(d) \in net
      BY <2>2, OwnCalls DEF Manifest
    <3>2. pc'[d] = pc[d]
      BY <2>1, <2>2 DEF Kept
    <3> QED
      BY <2>1, <3>1, <3>2 DEF Orphan, Excused
  <2>3. CASE d = c
    <3>0. Orphan(c) /\ Manifest(c)' = Manifest(c)
      BY <2>1, <2>3
    <3>1. CASE Begins(c)
      <4>1. Call(c, "assign") # Manifest(c)
        BY <1>0 DEF Kinds
      <4> QED
        BY <2>1, <2>3, <3>0, <3>1, <4>1 DEF Begins, Orphan, Excused
    <3>2. CASE Posts(c)
      BY <2>1, <2>3, <3>0, <3>2 DEF Posts, Orphan, Excused, Manifest
    <3>3. CASE Hears(c, "assign")
      BY <2>1, <2>3, <3>0, <3>3 DEF Hears, Orphan, Excused
    <3>4. CASE Hears(c, "manifest")
      <4>1. Call(c, "register") # Manifest(c) /\ Call(c, "manifest") = Manifest(c)
        BY <1>0 DEF Kinds
      <4>2. Manifest(c) \notin net /\ Manifest(c) \notin net'
        BY <3>0, <3>4, <4>1 DEF Hears, Orphan
      <4> QED
        BY <2>1, <2>3, <3>0, <3>4, <4>2 DEF Hears, Orphan, Excused
    <3>5. CASE Hears(c, "register")
      <4>1. c \in registered
        BY <3>5 DEF Hears, AnswerInv, CarriedOut, Call
      <4>2. Manifest(c) \in net => <<c, "manifest", "lost">> \in trouble
        BY <3>0, <3>5 DEF Hears, Orphan
      <4> QED
        BY <2>1, <2>3, <3>0, <3>5, <4>1, <4>2 DEF Hears, Orphan, Excused
    <3>6. CASE GivesUp(c)
      <4>1. answers' \subseteq answers /\ net' = net /\ pc'[c] = "done"
        BY <3>6 DEF GivesUp
      <4>2. CASE pc[c] \in {"manifest", "assignWait"}
        BY <2>1, <2>3, <3>0, <4>1, <4>2 DEF Orphan, Excused
      <4>3. CASE pc[c] = "manifestWait"
        <5>1. KindOf(pc[c]) = "manifest" /\ MyCall(c) = Manifest(c)
          BY <4>3 DEF KindOf, MyCall, Manifest
        <5>2. \/ <<c, "manifest", "lost">> \in trouble'
              \/ c \notin stored /\ Manifest(c) \notin net
          BY <3>0, <3>6, <4>3, <5>1 DEF GivesUp, Orphan
        <5> QED
          BY <2>1, <2>3, <3>0, <4>1, <5>2 DEF Orphan, Excused
      <4>4. CASE pc[c] = "registerWait"
        <5>1. KindOf(pc[c]) = "register"
          BY <4>4 DEF KindOf
        <5>2. \/ <<c, "register", "lost">> \in trouble'
              \/ <<c, "register", "refused">> \in trouble'
          BY <3>6, <4>4, <5>1 DEF GivesUp
        <5>3. Manifest(c) \in net => <<c, "manifest", "lost">> \in trouble
          BY <3>0, <4>4 DEF Orphan
        <5> QED
          BY <2>1, <2>3, <3>0, <4>1, <5>2, <5>3 DEF Orphan, Excused
      <4> QED
        BY <3>6, <4>2, <4>3, <4>4 DEF GivesUp, Waits
    <3> QED
      BY <3>1, <3>2, <3>3, <3>4, <3>5, <3>6, Effects
  <2> QED
    BY <2>2, <2>3
<1>2. ASSUME NEW m \in net, Serve(m), NEW d \in Clients
      PROVE  Orphan(d)'
  <2> USE <1>2
  <2>1. /\ UNCHANGED <<weeds, pc, trouble>> /\ net' = net \ {m} /\ m \in Calls
        /\ Orphan(d) /\ Manifest(d)' = Manifest(d)
    BY ServeKeeps DEF OrphanInv, Manifest, Call
  <2>2. PICK ok \in BOOLEAN :
          /\ answers' \subseteq answers \cup {[call |-> m, ok |-> ok]}
          /\ ~ok => UNCHANGED serverVars
    BY ServeKeeps
  <2>3. CASE m = Manifest(d)
    <3>1. /\ pc[d] = "manifestWait" \/ <<d, "manifest", "lost">> \in trouble
          /\ d \notin stored
          /\ \A a \in answers : a.call # Manifest(d)
      BY <2>1, <2>3 DEF Orphan
    <3>2. pc[d] \notin {"start", "assignWait", "manifest"}
      BY <2>1, <2>3 DEF Orphan
    <3>3. ~ok => stored' = stored
      BY <2>2 DEF serverVars
    <3> QED
      BY <2>1, <2>2, <2>3, <3>1, <3>2, <3>3 DEF Orphan, Excused
  <2>4. CASE m # Manifest(d)
    <3>1. d \in stored' <=> d \in stored
      <4>1. CASE StoreManifest(m)
        <5>1. m = Manifest(m.client)
          BY <2>1, <4>1 DEF StoreManifest, Handle, Calls, Manifest, Call
        <5> QED
          BY <2>4, <4>1, <5>1 DEF StoreManifest
      <4>2. CASE stored' = stored
        BY <4>2
      <4> QED
        BY <4>1, <4>2, ServeKeeps
    <3>2. registered \subseteq registered'
      BY ServeKeeps DEF RegisterPath
    <3> QED
      BY <2>1, <2>2, <2>4, <3>1, <3>2 DEF Orphan, Excused
  <2> QED
    BY <2>3, <2>4
<1>3. CASE UNCHANGED vars
  BY <1>3 DEF vars, serverVars, OrphanInv, Orphan, Excused, Manifest, Call
<1> QED
  BY <1>1, <1>2, <1>3 DEF Next, Step, Serve, OrphanInv

(***************************************************************************)
(* A stored manifest that nothing will name has one of the four causes     *)
(* listed, for any order in which the calls are carried out.               *)
(***************************************************************************)
THEOREM OrphansTheorem == Spec => []OrphansNeedTrouble
<1>1. Init => OrphanInv
  BY DEF Init, OrphanInv, Orphan
<1>2. IInv /\ OrphanInv => OrphansNeedTrouble
  BY DEF IInv, Types, OrphanInv, Orphan, Excused, OrphansNeedTrouble, Finals
<1> QED
  BY AlwaysInv, <1>1, <1>2, OrphanStep, PTL DEF Spec

-----------------------------------------------------------------------------
(***************************************************************************)
(* NoComeback.  What was registered for a path after a request began had   *)
(* not its ok before: an ok ends the registration it is for.               *)
(***************************************************************************)
Settled(d) ==
    /\ d \in registered => entry[file[d]] \notin before[d] /\ file[d] \in Paths
    /\ d \notin before[d]
    /\ \A e \in before[d] : outcome[e] = "ok"
    /\ outcome[d] = "ok" => Call(d, "register") \notin net

SettledInv == \A d \in Clients : Settled(d)

LEMMA SettledStep ==
  ASSUME IInv, FInv, SettledInv, [Next]_vars
  PROVE  SettledInv'
<1> USE DEF IInv, FInv
<1>1. ASSUME NEW c \in Clients, Step(c), NEW d \in Clients
      PROVE  Settled(d)'
  <2> USE <1>1
  <2>1. /\ Kept(c) /\ Settled(d) /\ Call(d, "register")' = Call(d, "register")
        /\ registered' = registered /\ entry' = entry
    BY Effects DEF Kept, SettledInv, Call, serverVars
  <2>2. \A e \in Clients : outcome[e] = "ok" => outcome'[e] = "ok"
    <3>1. outcome[c] = "ok" => pc[c] = "done"
      BY DEF OutcomeInv
    <3> QED
      BY <2>1, <3>1, Effects DEF Kept, Begins, Posts, Hears, GivesUp, Waits
  <2>3. CASE d # c
    <3>1. Call(d, "register") \in net' <=> Call(d, "register") \in net
      BY <2>3, OwnCalls
    <3> QED
      BY <2>1, <2>2, <2>3, <3>1 DEF Kept, Settled, Types
  <2>4. CASE d = c
    <3>0. Settled(c) /\ before[c] \subseteq Clients
      BY <2>1, <2>4 DEF Types
    <3>1. CASE Begins(c)
      <4>1. /\ c \notin registered /\ outcome[c] # "ok" /\ before'[c] \subseteq Clients
        BY <3>1 DEF Begins, StartInv, OutcomeInv
      <4> QED
        BY <2>1, <2>2, <2>4, <3>1, <4>1 DEF Begins, Settled
    <3>2. CASE Posts(c) \/ GivesUp(c)
      <4>1. outcome'[c] # "ok"
        BY <3>2 DEF Posts, GivesUp, OutcomeInv
      <4> QED
        BY <2>1, <2>2, <2>4, <3>0, <3>2, <4>1 DEF Posts, GivesUp, Settled
    <3>3. CASE Hears(c, "assign") \/ Hears(c, "manifest")
      <4>1. outcome'[c] # "ok"
        BY <3>3 DEF Hears, OutcomeInv
      <4> QED
        BY <2>1, <2>2, <2>4, <3>0, <3>3, <4>1 DEF Hears, Settled
    <3>4. CASE Hears(c, "register")
      <4>1. Call(c, "register") \notin net
        BY <3>4 DEF Hears, RefusalInv, Call
      <4> QED
        BY <2>1, <2>2, <2>4, <3>0, <3>4, <4>1 DEF Hears, Settled
    <3> QED
      BY <3>1, <3>2, <3>3, <3>4, Effects
  <2> QED
    BY <2>3, <2>4
<1>2. ASSUME NEW m \in net, Serve(m), NEW d \in Clients
      PROVE  Settled(d)'
  <2> USE <1>2
  <2>1. /\ UNCHANGED <<file, outcome, before>> /\ net' = net \ {m} /\ m \in Calls
        /\ Settled(d) /\ Call(d, "register")' = Call(d, "register")
    BY ServeKeeps DEF SettledInv, Call
  <2>2. CASE RegisterPath(m)
    <3>1. /\ registered' = registered \cup {m.client}
          /\ entry' = [entry EXCEPT ![file[m.client]] = m.client]
          /\ m = Call(m.client, "register")
          /\ file[m.client] \in Paths /\ m.client \in Clients
          /\ DOMAIN entry = Paths
      BY <2>1, <2>2 DEF RegisterPath, Handle, CallInv, Types, Calls, Call
    <3>2. m.client \notin before[d]
      BY <2>1, <3>1 DEF Settled, SettledInv
    <3> QED
      BY <2>1, <3>1, <3>2 DEF Settled
  <2>3. CASE UNCHANGED <<registered, entry>>
    BY <2>1, <2>3 DEF Settled
  <2> QED
    BY <2>2, <2>3, ServeKeeps
<1>3. CASE UNCHANGED vars
  BY <1>3 DEF vars, handlerVars, serverVars, SettledInv, Settled, Call
<1> QED
  BY <1>1, <1>2, <1>3 DEF Next, Step, Serve, SettledInv

(***************************************************************************)
(* After a request is told ok its path does not return to the file of one  *)
(* that was told ok before it began.                                       *)
(***************************************************************************)
THEOREM ComebackTheorem == Spec => []NoComeback
<1>1. Init => SettledInv
  BY DEF Init, SettledInv, Settled
<1>2. IInv /\ FInv /\ [Next]_vars => FInv'
  BY FailHandlerStep, FailServerStep, FailStutterStep DEF Next
<1>3. IInv /\ SettledInv => NoComeback
  BY DEF IInv, OkIsBacked, SettledInv, Settled, NoComeback
<1> QED
  BY AlwaysInv, FailInit, <1>1, <1>2, <1>3, SettledStep, PTL DEF Spec
=============================================================================
