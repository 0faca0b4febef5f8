---------------------------- MODULE UploadProofs ----------------------------
(***************************************************************************)
(* Uploads, for any number of requests, files, retries and servers, and    *)
(* any order in which calls are carried out: what a reply says is true,    *)
(* what is stored beyond it has a known cause, and the cache, the filer    *)
(* and the path TTLs follow.                                               *)
(***************************************************************************)
EXTENDS Upload, WeedsProofs, FunctionTheorems

Stages == {"start", "next", "post", "wait", "cache"} \cup Finals

Busy(c) == pc[c] \in {"post", "wait", "cache"}

-----------------------------------------------------------------------------
\* The types of what a case has.
LEMMA CaseFacts ==
  ASSUME \E k \in Cases : conf = k.conf /\ sub = k.sub
  PROVE  /\ conf \in Configs
         /\ conf.weeds \in Seq({"master", "volume", "filer"})
         /\ conf.retry \in Nat
         /\ \A c \in Clients :
              /\ sub[c] \in Subs
              /\ sub[c].isFiler \in BOOLEAN
              /\ sub[c].settings \in Seq(Settings)
              /\ \A fs \in sub[c].form : fs \in Fields /\ Head(fs) \in Files
<1>1. /\ conf \in Configs
      /\ \A c \in Clients : sub[c] \in Subs /\ <<>> \notin sub[c].form
  BY CasesAssumption
<1>2. \A c \in Clients : \A fs \in sub[c].form : fs \in Seq(Files) /\ fs # <<>>
  BY <1>1 DEF Subs
<1>3. \A c \in Clients : \A fs \in sub[c].form : fs \in Fields /\ Head(fs) \in Files
  BY <1>2 DEF Fields
<1> QED
  BY <1>1, <1>3 DEF Configs, Subs

\* What the call of the current attempt is.
LEMMA CallShape ==
  ASSUME NEW c \in Clients
  PROVE  /\ Call(c).client = c /\ Call(c).field = field[c]
         /\ Call(c).attempt = retry[c]
         /\ Call(c).path = StorePath(c, Head(field[c]))
         /\ Call(c).ttl = AttemptTtl(c, Head(field[c]))
BY DEF Call

\* A function keeps its type when it is changed at one point.
LEMMA UpdateType ==
  ASSUME NEW S, NEW R, NEW f \in [S -> R], NEW x \in S, NEW v \in R
  PROVE  [f EXCEPT ![x] = v] \in [S -> R]
OBVIOUS

\* The types, as the proofs below cite them.
LEMMA Vectors ==
  ASSUME TypeOK
  PROVE  /\ pc \in [Clients -> Stages]
         /\ todo \in [Clients -> SUBSET Fields]
         /\ field \in [Clients -> Fields \cup {<<>>}]
         /\ retry \in [Clients -> 0..(conf.retry + 1)]
         /\ metas \in [Clients -> SUBSET Calls]
         /\ setting \in [Clients -> Nat]
         /\ status \in [Clients -> {0, 200, 400, 405, 406, 500}]
BY DEF TypeOK, Stages

LEMMA Submitted ==
  ASSUME TypeOK
  PROVE  /\ conf \in Configs /\ conf.retry \in Nat
         /\ \A c \in Clients :
              /\ sub[c] \in Subs
              /\ sub[c].form \subseteq Fields
              /\ sub[c].settings \in Seq(Settings)
              /\ Len(sub[c].settings) \in Nat
              /\ \A fs \in sub[c].form : Head(fs) \in Files
<1>1. \E k \in Cases : conf = k.conf /\ sub = k.sub
  BY DEF TypeOK
<1>2. /\ conf \in Configs /\ conf.retry \in Nat
      /\ \A c \in Clients : /\ sub[c] \in Subs
                            /\ sub[c].settings \in Seq(Settings)
                            /\ \A fs \in sub[c].form : fs \in Fields /\ Head(fs) \in Files
  BY <1>1, CaseFacts
<1>3. \A c \in Clients : Len(sub[c].settings) \in Nat
  BY <1>2
<1> QED
  BY <1>2, <1>3

LEMMA Progress ==
  ASSUME TypeOK, NEW c \in Clients
  PROVE  /\ retry[c] \in 0..(conf.retry + 1)
         /\ setting[c] \in Nat /\ setting[c] <= Len(sub[c].settings)
         /\ todo[c] \subseteq sub[c].form
         /\ Busy(c) => field[c] \in sub[c].form
<1>1. retry[c] \in 0..(conf.retry + 1) /\ setting[c] \in Nat
  BY Vectors
<1> QED
  BY <1>1 DEF TypeOK, Busy

LEMMA CallType ==
  ASSUME TypeOK, NEW c \in Clients, field[c] \in sub[c].form
  PROVE  Call(c) \in Calls
<1>1. /\ Head(field[c]) \in Files /\ field[c] \in Fields
      /\ conf \in Configs /\ sub[c] \in Subs
      /\ retry[c] \in Nat
  BY CaseFacts DEF TypeOK
<1>2. StorePath(c, Head(field[c])) \in Paths \cup {NoPath, Mangled}
  BY <1>1 DEF StorePath, Files
<1>3. AttemptTtl(c, Head(field[c])) \in Ttls \cup {NoTtl}
  BY <1>1 DEF AttemptTtl, Wanted, Files, Configs, Subs
<1> QED
  BY <1>1, <1>2, <1>3 DEF Call, Calls

\* A step does not change what the requests submit.
LEMMA Fixed ==
  ASSUME [Next]_vars
  PROVE  /\ conf' = conf /\ sub' = sub /\ Fields' = Fields /\ Calls' = Calls
         /\ \A c : \A f : /\ StorePath(c, f)' = StorePath(c, f)
                          /\ Wanted(c, f)' = Wanted(c, f)
         /\ \A c : \A s : SettingTtl(c, s)' = SettingTtl(c, s)
<1>1. conf' = conf /\ sub' = sub
  BY DEF Next, vars, Handler, Refuse, Admit, NextFile, Post, Answered, CallFails,
         CacheFile, CacheWith, SetPath, Reply, Store, Reject
<1> QED
  BY <1>1 DEF Fields, Calls, StorePath, Wanted, SettingTtl

\* The two panics of the choice of an URL.
NoServer(c) == OfType(conf.weeds, TypeFor(sub[c].isFiler)) = {} /\ Len(conf.weeds) # 1
NoCut(c) == sub[c].isFiler /\ \E fs \in sub[c].form : Head(fs).name = "toowide"

LEMMA UrlPanic ==
  ASSUME TypeOK, NEW c \in Clients, NEW round \in Nat,
         submitUrl(conf.weeds, sub[c].isFiler, round) = Panic
  PROVE  NoServer(c)
<1>1. /\ conf.weeds \in Seq({"master", "volume", "filer"})
      /\ sub[c].isFiler \in BOOLEAN
  BY CaseFacts DEF TypeOK
<1>2. \/ Len(conf.weeds) = 0
      \/ Len(conf.weeds) > 1 /\ OfType(conf.weeds, TypeFor(sub[c].isFiler)) = {}
  BY <1>1, ChooseResult DEF submitUrl
<1>3. Len(conf.weeds) = 0 => OfType(conf.weeds, TypeFor(sub[c].isFiler)) = {}
  BY <1>1 DEF OfType
<1>4. OfType(conf.weeds, TypeFor(sub[c].isFiler)) = {}
  BY <1>2, <1>3
<1>5. Len(conf.weeds) # 1
  <2>1. Len(conf.weeds) \in Nat
    BY <1>1
  <2>2. Len(conf.weeds) = 0 \/ Len(conf.weeds) > 1
    BY <1>2
  <2>3. \A n \in Nat : n = 0 \/ n > 1 => n # 1
    OBVIOUS
  <2> QED
    BY <2>1, <2>2, <2>3
<1> QED
  BY <1>4, <1>5 DEF NoServer

\* The ways a field may be taken up.
LEMMA NextFileShape ==
  ASSUME TypeOK, NEW c \in Clients, NextFile(c)
  PROVE  \E fs \in sub[c].form :
           /\ pc[c] = "next" /\ fs \in todo[c]
           /\ todo' = [todo EXCEPT ![c] = @ \ {fs}]
           /\ field' = [field EXCEPT ![c] = fs]
           /\ retry' = [retry EXCEPT ![c] = 0]
           /\ \/ /\ pc' = [pc EXCEPT ![c] = "panicked"] /\ status' = status
                 /\ NoCut(c)
              \/ /\ pc' = [pc EXCEPT ![c] = "done"]
                 /\ \E code \in {400, 500} : status' = [status EXCEPT ![c] = code]
              \/ pc' = [pc EXCEPT ![c] = "post"] /\ status' = status
           /\ UNCHANGED <<metas, setting, worldVars>>
<1>1. PICK fs \in todo[c] :
         LET check == checkUrl(c, Head(fs), FALSE)
         IN  /\ todo' = [todo EXCEPT ![c] = @ \ {fs}]
             /\ field' = [field EXCEPT ![c] = fs]
             /\ retry' = [retry EXCEPT ![c] = 0]
             /\ IF check = "panic" THEN Goto(c, "panicked") /\ UNCHANGED status
                ELSE IF check # "ok" THEN Finish(c, CodeOf(check))
                ELSE IF Head(fs).name = "unparsable" THEN Finish(c, 500)
                ELSE Goto(c, "post") /\ UNCHANGED status
  BY DEF NextFile
<1>2. pc[c] = "next" /\ UNCHANGED <<metas, setting, worldVars>>
  BY DEF NextFile
<1>3. fs \in sub[c].form
  BY DEF TypeOK
<1>4. checkUrl(c, Head(fs), FALSE) = "panic" => NoCut(c)
  BY <1>3 DEF checkUrl, NoCut
<1> DEFINE check == checkUrl(c, Head(fs), FALSE)
<1>5. \/ /\ pc' = [pc EXCEPT ![c] = "panicked"] /\ status' = status
         /\ check = "panic"
      \/ /\ pc' = [pc EXCEPT ![c] = "done"]
         /\ \E code \in {400, 500} : status' = [status EXCEPT ![c] = code]
      \/ pc' = [pc EXCEPT ![c] = "post"] /\ status' = status
  <2>1. CodeOf(check) \in {400, 500}
    BY DEF CodeOf
  <2> HIDE DEF check
  <2>2. IF check = "panic" THEN Goto(c, "panicked") /\ UNCHANGED status
        ELSE IF check # "ok" THEN Finish(c, CodeOf(check))
        ELSE IF Head(fs).name = "unparsable" THEN Finish(c, 500)
        ELSE Goto(c, "post") /\ UNCHANGED status
    BY <1>1 DEF check
  <2> QED
    BY <2>1, <2>2 DEF Goto, Finish
<1>6. /\ todo' = [todo EXCEPT ![c] = @ \ {fs}]
      /\ field' = [field EXCEPT ![c] = fs]
      /\ retry' = [retry EXCEPT ![c] = 0]
  BY <1>1
<1> HIDE DEF check
<1>7. check = "panic" => NoCut(c)
  BY <1>4 DEF check
<1>8. \/ /\ pc' = [pc EXCEPT ![c] = "panicked"] /\ status' = status
         /\ NoCut(c)
      \/ /\ pc' = [pc EXCEPT ![c] = "done"]
         /\ \E code \in {400, 500} : status' = [status EXCEPT ![c] = code]
      \/ pc' = [pc EXCEPT ![c] = "post"] /\ status' = status
  BY <1>5, <1>7
<1> WITNESS fs \in sub[c].form
<1> QED
  BY <1>2, <1>6, <1>8

\* The ways a request may go on after its call failed.
LEMMA CallFailsShape ==
  ASSUME TypeOK, NEW c \in Clients, CallFails(c)
  PROVE  /\ pc[c] = "wait" /\ field[c] \in sub[c].form
         /\ failed' = failed \cup {<<c, "call">>}
         /\ answers' = {a \in answers : a.call # Call(c)}
         /\ \/ /\ retry[c] <= conf.retry
               /\ retry' = [retry EXCEPT ![c] = @ + 1]
               /\ \/ /\ pc' = [pc EXCEPT ![c] = "panicked"] /\ status' = status
                     /\ NoServer(c) \/ NoCut(c)
                  \/ /\ pc' = [pc EXCEPT ![c] = "done"]
                     /\ \E code \in {400, 500} : status' = [status EXCEPT ![c] = code]
                  \/ pc' = [pc EXCEPT ![c] = "post"] /\ status' = status
            \/ /\ retry' = retry
               /\ pc' = [pc EXCEPT ![c] = "done"]
               /\ status' = [status EXCEPT ![c] = 500]
         /\ UNCHANGED <<todo, field, metas, setting, net, copies, entry, cache, pathTtl, crossed>>
<1>1. /\ pc[c] = "wait" /\ field[c] \in sub[c].form
      /\ failed' = failed \cup {<<c, "call">>}
      /\ answers' = {a \in answers : a.call # Call(c)}
      /\ UNCHANGED <<todo, field, metas, setting, net, copies, entry, cache, pathTtl, crossed>>
  BY DEF CallFails, TypeOK
<1>2. retry[c] \in Nat /\ conf.retry \in Nat
  BY CaseFacts DEF TypeOK
<1>3. CASE ~MayRetry(c)
  BY <1>1, <1>3 DEF CallFails, Finish, Goto
<1>4. CASE MayRetry(c)
  <2> DEFINE check == checkUrl(c, Head(field[c]), TRUE)
  <2>1. /\ retry' = [retry EXCEPT ![c] = @ + 1]
        /\ IF submitUrl(conf.weeds, sub[c].isFiler, retry[c] + 1) = Panic
              \/ check = "panic"
           THEN Goto(c, "panicked") /\ UNCHANGED status
           ELSE IF check # "ok" THEN Finish(c, CodeOf(check))
           ELSE Goto(c, "post") /\ UNCHANGED status
    BY <1>4 DEF CallFails, TryAgain
  <2>2. submitUrl(conf.weeds, sub[c].isFiler, retry[c] + 1) = Panic => NoServer(c)
    BY <1>2, UrlPanic
  <2>3. check = "panic" => NoCut(c)
    BY <1>1 DEF checkUrl, NoCut
  <2>4. retry[c] <= conf.retry
    BY <1>2, <1>4 DEF MayRetry
  <2> HIDE DEF check
  <2> QED
    BY <1>1, <2>1, <2>2, <2>3, <2>4 DEF Goto, Finish, CodeOf
<1> QED
  BY <1>3, <1>4

\* The steps of one request.
Step(c) == Handler(c) \/ Answered(c) \/ CallFails(c)

\* A request keeps the state of the others, and the servers'.
LEMMA Frame ==
  ASSUME TypeOK, NEW c \in Clients, Step(c)
  PROVE  /\ \A d \in Clients \ {c} :
              /\ pc'[d] = pc[d] /\ todo'[d] = todo[d] /\ field'[d] = field[d]
              /\ retry'[d] = retry[d] /\ metas'[d] = metas[d]
              /\ setting'[d] = setting[d] /\ status'[d] = status[d]
              /\ Call(d)' = Call(d)
              /\ \A what : <<d, what>> \in failed' <=> <<d, what>> \in failed
         /\ failed \subseteq failed'
         /\ copies' = copies /\ entry' = entry /\ crossed' = crossed
         /\ net' = net \/ (Post(c) /\ net' = net \cup {Call(c)})
         /\ answers' \subseteq answers

<1> DEFINE Others ==
             \A d \in Clients \ {c} :
               /\ pc'[d] = pc[d] /\ todo'[d] = todo[d] /\ field'[d] = field[d]
               /\ retry'[d] = retry[d] /\ metas'[d] = metas[d]
               /\ setting'[d] = setting[d] /\ status'[d] = status[d]
           Blamed == \/ failed' = failed
                     \/ failed' = failed \cup {<<c, "call">>}
                     \/ failed' = failed \cup {<<c, "cache">>}
                     \/ failed' = failed \cup {<<c, "ttl">>}
           Rest == /\ copies' = copies /\ entry' = entry /\ crossed' = crossed
                   /\ net' = net \/ (Post(c) /\ net' = net \cup {Call(c)})
                   /\ answers' \subseteq answers
<1>1. /\ pc \in [Clients -> Stages]
      /\ todo \in [Clients -> SUBSET Fields]
      /\ field \in [Clients -> Fields \cup {<<>>}]
      /\ retry \in [Clients -> 0..(conf.retry + 1)]
      /\ metas \in [Clients -> SUBSET Calls]
      /\ setting \in [Clients -> Nat]
      /\ status \in [Clients -> {0, 200, 400, 405, 406, 500}]
  BY DEF TypeOK, Stages
<1>2. Others /\ Blamed /\ Rest
  <2>1. CASE Refuse(c)
    BY <1>1, <2>1 DEF Refuse, Finish, Goto, worldVars
  <2>2. CASE Admit(c)
    BY <1>1, <2>2 DEF Admit, Goto, worldVars
  <2>3. CASE NextFile(c)
    <3>1. PICK fs \in sub[c].form :
            /\ todo' = [todo EXCEPT ![c] = @ \ {fs}]
            /\ field' = [field EXCEPT ![c] = fs]
            /\ retry' = [retry EXCEPT ![c] = 0]
            /\ \E s \in Stages : pc' = [pc EXCEPT ![c] = s]
            /\ status' = status \/ \E code \in {400, 500} : status' = [status EXCEPT ![c] = code]
            /\ UNCHANGED <<metas, setting, worldVars>>
      BY <2>3, NextFileShape DEF Stages, Finals
    <3>2. Others
      BY <1>1, <3>1
    <3> QED
      BY <3>1, <3>2 DEF worldVars
  <2>4. CASE Post(c)
    BY <1>1, <2>4 DEF Post, Goto, handlerVars
  <2>5. CASE Answered(c)
    BY <1>1, <2>5 DEF Answered, Uploaded, Accept, Finish, Goto
  <2>6. CASE CallFails(c)
    <3>1. /\ \E s \in Stages : pc' = [pc EXCEPT ![c] = s]
          /\ status' = status \/ \E code \in {400, 500} : status' = [status EXCEPT ![c] = code]
          /\ retry' = retry \/ retry' = [retry EXCEPT ![c] = @ + 1]
          /\ answers' \subseteq answers
          /\ failed' = failed \cup {<<c, "call">>}
          /\ UNCHANGED <<todo, field, metas, setting, net, copies, entry, crossed>>
      BY <2>6, CallFailsShape DEF Stages, Finals
    <3>2. Others
      BY <1>1, <3>1
    <3> QED
      BY <3>1, <3>2
  <2>7. CASE CacheFile(c)
    BY <1>1, <2>7 DEF CacheFile, CacheWith, Accept, Goto
  <2>8. CASE SetPath(c)
    <3>1. /\ pc' = pc \/ \E s \in {"done", "panicked"} : pc' = [pc EXCEPT ![c] = s]
          /\ setting' = setting \/ setting' = [setting EXCEPT ![c] = @ + 1]
          /\ status' = status \/ status' = [status EXCEPT ![c] = 400]
      BY <2>8 DEF SetPath, Finish, Goto
    <3>2. /\ failed' = failed \/ failed' = failed \cup {<<c, "ttl">>}
          /\ UNCHANGED <<todo, field, retry, metas, net, answers, copies, entry, crossed>>
      BY <2>8 DEF SetPath, Finish, Goto
    <3>3. Others
      BY <1>1, <3>1, <3>2
    <3> QED
      BY <3>2, <3>3
  <2>9. CASE Reply(c)
    BY <1>1, <2>9 DEF Reply, AllUploaded, Finish, Goto, worldVars
  <2> QED
    BY <2>1, <2>2, <2>3, <2>4, <2>5, <2>6, <2>7, <2>8, <2>9 DEF Step, Handler
<1>3. \A d \in Clients \ {c} : \A what : <<d, what>> \in failed' <=> <<d, what>> \in failed
  BY <1>2
<1>4. \A d \in Clients \ {c} : Call(d)' = Call(d)
  BY <1>2, Fixed DEF Call, AttemptTtl, Step, Next
<1> QED
  BY <1>2, <1>3, <1>4

-----------------------------------------------------------------------------
LEMMA InitType == Init => TypeOK
<1> SUFFICES ASSUME Init PROVE TypeOK
  OBVIOUS
<1>1. \E k \in Cases : conf = k.conf /\ sub = k.sub
  BY DEF Init
<1>2. /\ 0 \in 0..(conf.retry + 1)
      /\ \A c \in Clients : Len(sub[c].settings) \in Nat
  BY <1>1, CaseFacts
<1>3. pathTtl \in [Paths -> [ttl : Ttls \cup {NoTtl}, by : SUBSET Clients]]
  BY DEF Init
<1>4. /\ pc \in [Clients -> {"start", "next", "post", "wait", "cache"} \cup Finals]
      /\ todo \in [Clients -> SUBSET Fields]
      /\ field \in [Clients -> Fields \cup {<<>>}]
      /\ retry \in [Clients -> 0..(conf.retry + 1)]
      /\ metas \in [Clients -> SUBSET Calls]
      /\ setting \in [Clients -> Nat]
      /\ status \in [Clients -> {0, 200, 400, 405, 406, 500}]
  BY <1>2 DEF Init
<1>5. \A c \in Clients : /\ todo[c] = {} /\ pc[c] = "start"
                         /\ setting[c] <= Len(sub[c].settings)
  BY <1>2 DEF Init
<1>6. /\ net = {} /\ answers = {} /\ copies = {} /\ failed = {} /\ crossed = {}
      /\ entry \in [Paths \cup {Mangled} -> Calls \cup {NoCopy}]
      /\ cache \in [Paths -> Calls \cup {NoCopy}]
  BY DEF Init
<1> QED
  BY <1>1, <1>3, <1>4, <1>5, <1>6 DEF TypeOK

\* The types of what a request has.
Mine == /\ pc \in [Clients -> Stages]
        /\ todo \in [Clients -> SUBSET Fields]
        /\ field \in [Clients -> Fields \cup {<<>>}]
        /\ retry \in [Clients -> 0..(conf.retry + 1)]
        /\ metas \in [Clients -> SUBSET Calls]
        /\ setting \in [Clients -> Nat]
        /\ status \in [Clients -> {0, 200, 400, 405, 406, 500}]
        /\ \A c \in Clients : /\ todo[c] \subseteq sub[c].form
                              /\ Busy(c) => field[c] \in sub[c].form
                              /\ setting[c] <= Len(sub[c].settings)

\* ... and of the rest.
World == /\ net \subseteq Calls
         /\ answers \subseteq [call : Calls, ok : BOOLEAN]
         /\ copies \subseteq Calls
         /\ entry \in [Paths \cup {Mangled} -> Calls \cup {NoCopy}]
         /\ cache \in [Paths -> Calls \cup {NoCopy}]
         /\ pathTtl \in [Paths -> [ttl : Ttls \cup {NoTtl}, by : SUBSET Clients]]
         /\ failed \subseteq Clients \X {"call", "cache", "ttl"}
         /\ crossed \subseteq Paths \cup {NoPath, Mangled}

CaseInv == \E k \in Cases : conf = k.conf /\ sub = k.sub

LEMMA TypeParts == TypeOK <=> CaseInv /\ Mine /\ World
BY DEF TypeOK, CaseInv, Mine, World, Stages, Busy

\* The TTL of a path setting, and the file it is for.
LEMMA SettingType ==
  ASSUME TypeOK, NEW c \in Clients, setting[c] < Len(sub[c].settings)
  PROVE  LET s == sub[c].settings[setting[c] + 1]
         IN  s \in Settings /\ SettingTtl(c, s) \in Ttls \cup {NoTtl}
<1>1. /\ setting[c] \in Nat /\ sub[c].settings \in Seq(Settings)
      /\ sub[c] \in Subs
  BY CaseFacts DEF TypeOK
<1>2. sub[c].settings[setting[c] + 1] \in Settings
  BY <1>1
<1> QED
  BY <1>1, <1>2 DEF SettingTtl, Settings, Subs

\* What a step does to its request keeps the types if it does this.
Moves(c) ==
    /\ pc' = [pc EXCEPT ![c] = pc'[c]] /\ pc'[c] \in Stages
    /\ todo' = [todo EXCEPT ![c] = todo'[c]] /\ todo'[c] \subseteq sub[c].form
    /\ field' = [field EXCEPT ![c] = field'[c]]
    /\ field'[c] \in IF Busy(c)' THEN sub[c].form ELSE Fields \cup {<<>>}
    /\ retry' = [retry EXCEPT ![c] = retry'[c]] /\ retry'[c] \in 0..(conf.retry + 1)
    /\ metas' = [metas EXCEPT ![c] = metas'[c]] /\ metas'[c] \subseteq Calls
    /\ setting' = [setting EXCEPT ![c] = setting'[c]]
    /\ setting'[c] \in 0..Len(sub[c].settings)
    /\ status' = [status EXCEPT ![c] = status'[c]]
    /\ status'[c] \in {0, 200, 400, 405, 406, 500}

LEMMA MovesType ==
  ASSUME TypeOK, NEW c \in Clients, Moves(c), Step(c)
  PROVE  Mine'
<1>0. /\ conf' = conf /\ sub' = sub /\ Fields' = Fields /\ Calls' = Calls
  BY Fixed DEF Step, Next
<1>1. Mine /\ sub[c].form \subseteq Fields /\ Len(sub[c].settings) \in Nat
  BY TypeParts, Submitted
<1>2. pc' \in [Clients -> Stages]
  <2>1. /\ pc \in [Clients -> Stages] /\ pc'[c] \in Stages
        /\ pc' = [pc EXCEPT ![c] = pc'[c]]
    BY <1>1 DEF Moves, Mine
  <2>2. [pc EXCEPT ![c] = pc'[c]] \in [Clients -> Stages]
    BY <2>1, UpdateType
  <2> QED
    BY <2>1, <2>2
<1>3. todo' \in [Clients -> SUBSET Fields]
  <2>1. /\ todo \in [Clients -> SUBSET Fields] /\ todo'[c] \in SUBSET Fields
        /\ todo' = [todo EXCEPT ![c] = todo'[c]]
    BY <1>1 DEF Moves, Mine
  <2>2. [todo EXCEPT ![c] = todo'[c]] \in [Clients -> SUBSET Fields]
    BY <2>1, UpdateType
  <2> QED
    BY <2>1, <2>2
<1>4. field' \in [Clients -> Fields \cup {<<>>}]
  <2>1. /\ field \in [Clients -> Fields \cup {<<>>}] /\ field'[c] \in Fields \cup {<<>>}
        /\ field' = [field EXCEPT ![c] = field'[c]]
    BY <1>1 DEF Moves, Mine
  <2>2. [field EXCEPT ![c] = field'[c]] \in [Clients -> Fields \cup {<<>>}]
    BY <2>1, UpdateType
  <2> QED
    BY <2>1, <2>2
<1>5. retry' \in [Clients -> 0..(conf.retry + 1)]
  <2>1. /\ retry \in [Clients -> 0..(conf.retry + 1)] /\ retry'[c] \in 0..(conf.retry + 1)
        /\ retry' = [retry EXCEPT ![c] = retry'[c]]
    BY <1>1 DEF Moves, Mine
  <2>2. [retry EXCEPT ![c] = retry'[c]] \in [Clients -> 0..(conf.retry + 1)]
    BY <2>1, UpdateType
  <2> QED
    BY <2>1, <2>2
<1>6. metas' \in [Clients -> SUBSET Calls]
  <2>1. /\ metas \in [Clients -> SUBSET Calls] /\ metas'[c] \in SUBSET Calls
        /\ metas' = [metas EXCEPT ![c] = metas'[c]]
    BY <1>1 DEF Moves, Mine
  <2>2. [metas EXCEPT ![c] = metas'[c]] \in [Clients -> SUBSET Calls]
    BY <2>1, UpdateType
  <2> QED
    BY <2>1, <2>2
<1>7. setting' \in [Clients -> Nat]
  <2>1. /\ setting \in [Clients -> Nat] /\ setting'[c] \in Nat
        /\ setting' = [setting EXCEPT ![c] = setting'[c]]
    BY <1>1 DEF Moves, Mine
  <2>2. [setting EXCEPT ![c] = setting'[c]] \in [Clients -> Nat]
    BY <2>1, UpdateType
  <2> QED
    BY <2>1, <2>2
<1>8. status' \in [Clients -> {0, 200, 400, 405, 406, 500}]
  <2>1. /\ status \in [Clients -> {0, 200, 400, 405, 406, 500}] /\ status'[c] \in {0, 200, 400, 405, 406, 500}
        /\ status' = [status EXCEPT ![c] = status'[c]]
    BY <1>1 DEF Moves, Mine
  <2>2. [status EXCEPT ![c] = status'[c]] \in [Clients -> {0, 200, 400, 405, 406, 500}]
    BY <2>1, UpdateType
  <2> QED
    BY <2>1, <2>2
<1>9. ASSUME NEW d \in Clients
      PROVE  /\ todo'[d] \subseteq sub[d].form
             /\ Busy(d)' => field'[d] \in sub[d].form
             /\ setting'[d] <= Len(sub[d].settings)
  <2>1. CASE d = c
    BY <1>1, <2>1 DEF Moves, Mine, Busy
  <2>2. CASE d # c
    <3>1. pc'[d] = pc[d] /\ todo'[d] = todo[d] /\ field'[d] = field[d] /\ setting'[d] = setting[d]
      BY <2>2, Frame
    <3> QED
      BY <1>1, <3>1 DEF Mine, Busy
  <2> QED
    BY <2>1, <2>2
<1> QED
  BY <1>0, <1>2, <1>3, <1>4, <1>5, <1>6, <1>7, <1>8, <1>9 DEF Mine

LEMMA StepType ==
  ASSUME TypeOK, NEW c \in Clients, Step(c)
  PROVE  TypeOK'
<1>0. /\ CaseInv' /\ conf' = conf /\ sub' = sub /\ Fields' = Fields /\ Calls' = Calls
  BY TypeParts, Fixed DEF Step, Next, CaseInv
<1>1. CaseInv /\ Mine /\ World
  BY TypeParts
<1>2. /\ conf.retry \in Nat /\ retry[c] \in 0..(conf.retry + 1)
      /\ sub[c].form \subseteq Fields
      /\ setting[c] \in 0..Len(sub[c].settings) /\ Len(sub[c].settings) \in Nat
      /\ Busy(c) => Call(c) \in Calls /\ field[c] \in sub[c].form
  <2>1. /\ retry[c] \in 0..(conf.retry + 1)
        /\ setting[c] \in Nat /\ setting[c] <= Len(sub[c].settings)
        /\ Busy(c) => field[c] \in sub[c].form
    BY Progress
  <2>2. /\ conf.retry \in Nat /\ sub[c].form \subseteq Fields
        /\ Len(sub[c].settings) \in Nat
    BY Submitted
  <2> QED
    BY <2>1, <2>2, CallType
<1>3. Moves(c) /\ World'
  <2> USE DEF Mine
  <2>1. CASE Refuse(c)
    <3>1. Gate(c) \in {0, Panic, 400, 405, 406}
      BY DEF Gate
    <3>2. Moves(c)
      BY <1>1, <1>2, <2>1, <3>1 DEF Refuse, Finish, Goto, Moves, Stages, Finals, Busy
    <3> QED
      BY <1>0, <1>1, <2>1, <3>2 DEF World, Refuse, worldVars
  <2>2. CASE Admit(c)
    <3>1. Moves(c)
      BY <1>1, <1>2, <2>2 DEF Admit, Goto, Moves, Stages, Finals, Busy
    <3> QED
      BY <1>0, <1>1, <2>2, <3>1 DEF World, Admit, worldVars
  <2>3. CASE NextFile(c)
    <3>1. PICK fs \in sub[c].form :
           /\ todo' = [todo EXCEPT ![c] = @ \ {fs}]
           /\ field' = [field EXCEPT ![c] = fs]
           /\ retry' = [retry EXCEPT ![c] = 0]
           /\ \E s \in {"panicked", "done", "post"} : pc' = [pc EXCEPT ![c] = s]
           /\ status' = status \/ \E code \in {400, 500} : status' = [status EXCEPT ![c] = code]
           /\ UNCHANGED <<metas, setting, worldVars>>
      BY <2>3, NextFileShape
    <3>2. Moves(c)
      BY <1>1, <1>2, <3>1 DEF Moves, Stages, Finals, Busy
    <3> QED
      BY <1>0, <1>1, <3>1, <3>2 DEF World, worldVars
  <2>4. CASE Post(c)
    <3>1. Moves(c)
      BY <1>1, <1>2, <2>4 DEF Post, Goto, handlerVars, Moves, Stages, Busy
    <3> QED
      BY <1>0, <1>1, <1>2, <2>4, <3>1 DEF World, Post, Busy
  <2>5. CASE Answered(c)
    <3>1. /\ \E s \in {"next", "cache", "done"} : pc' = [pc EXCEPT ![c] = s]
          /\ metas' = metas \/ metas' = [metas EXCEPT ![c] = metas[c] \cup {Call(c)}]
          /\ status' = status \/ status' = [status EXCEPT ![c] = 500]
          /\ pc[c] = "wait" /\ answers' \subseteq answers
          /\ UNCHANGED <<todo, field, retry, setting, net, copies, entry, cache,
                         pathTtl, failed, crossed>>
      BY <1>1, <2>5 DEF Answered, Uploaded, Accept, Finish, Goto
    <3>2. Moves(c)
      BY <1>1, <1>2, <3>1 DEF Moves, Stages, Finals, Busy
    <3> QED
      BY <1>0, <1>1, <3>1, <3>2 DEF World
  <2>6. CASE CallFails(c)
    <3>1. /\ pc[c] = "wait" /\ failed' = failed \cup {<<c, "call">>}
          /\ answers' \subseteq answers
          /\ \E s \in {"panicked", "done", "post"} : pc' = [pc EXCEPT ![c] = s]
          /\ status' = status \/ \E code \in {400, 500} : status' = [status EXCEPT ![c] = code]
          /\ \/ retry' = retry
             \/ retry[c] <= conf.retry /\ retry' = [retry EXCEPT ![c] = @ + 1]
          /\ UNCHANGED <<todo, field, metas, setting, net, copies, entry, cache, pathTtl, crossed>>
      BY <2>6, CallFailsShape
    <3>2. Moves(c)
      BY <1>1, <1>2, <3>1 DEF Moves, Stages, Finals, Busy
    <3> QED
      BY <1>0, <1>1, <3>1, <3>2 DEF World
  <2>7. CASE CacheFile(c)
    <3>1. /\ \E s \in {"next", "panicked"} : pc' = [pc EXCEPT ![c] = s]
          /\ metas' = metas \/ metas' = [metas EXCEPT ![c] = metas[c] \cup {Call(c)}]
          /\ pc[c] = "cache"
          /\ \/ cache' = cache
             \/ cache' = [cache EXCEPT ![Head(field[c]).path] = Call(c)]
          /\ failed' = failed \/ failed' = failed \cup {<<c, "cache">>}
          /\ UNCHANGED <<todo, field, retry, setting, status, net, answers, copies,
                         entry, pathTtl, crossed>>
      BY <1>1, <2>7 DEF CacheFile, CacheWith, Accept, Goto
    <3>2. Moves(c)
      BY <1>1, <1>2, <3>1 DEF Moves, Stages, Finals, Busy
    <3>3. cache' \in [Paths -> Calls \cup {NoCopy}]
      <4>1. Head(field[c]) \in Files /\ Call(c) \in Calls \cup {NoCopy}
        BY <1>2, <3>1, CaseFacts DEF TypeOK, Busy
      <4>2. Head(field[c]).path \in Paths
        BY <4>1 DEF Files
      <4>3. cache \in [Paths -> Calls \cup {NoCopy}]
        BY <1>1 DEF World
      <4>4. [cache EXCEPT ![Head(field[c]).path] = Call(c)] \in [Paths -> Calls \cup {NoCopy}]
        BY <4>1, <4>2, <4>3, UpdateType
      <4> QED
        BY <3>1, <4>3, <4>4
    <3> QED
      BY <1>0, <1>1, <3>1, <3>2, <3>3 DEF World
  <2>8. CASE SetPath(c)
    <3> DEFINE s    == sub[c].settings[setting[c] + 1]
               with == [pathTtl EXCEPT ![s.path] =
                          [ttl |-> SettingTtl(c, s), by |-> @.by \cup {c}]]
    <3>1. /\ pathTtl' \in {pathTtl, with}
          /\ failed' = failed \/ failed' = failed \cup {<<c, "ttl">>}
          /\ setting[c] < Len(sub[c].settings)
          /\ pc[c] = "next"
          /\ UNCHANGED <<todo, field, retry, metas, net, answers, copies, entry, cache, crossed>>
      BY <2>8 DEF SetPath, AllUploaded, Finish, Goto
    <3>2. /\ \/ \E t \in {"done", "panicked"} : pc' = [pc EXCEPT ![c] = t]
             \/ pc' = pc
          /\ \/ setting' = setting
             \/ setting' = [setting EXCEPT ![c] = @ + 1]
          /\ status' = status \/ status' = [status EXCEPT ![c] = 400]
      BY <2>8 DEF SetPath, Finish, Goto
    <3>3. s \in Settings /\ SettingTtl(c, s) \in Ttls \cup {NoTtl}
      BY <3>1, SettingType
    <3>4. Moves(c)
      <4>1. /\ pc' = [pc EXCEPT ![c] = pc'[c]] /\ pc'[c] \in {"next", "done", "panicked"}
        <5>1. /\ pc \in [Clients -> Stages] /\ pc[c] = "next"
              /\ \/ \E t \in {"done", "panicked"} : pc' = [pc EXCEPT ![c] = t]
                 \/ pc' = pc
          BY <1>1, <3>1, <3>2
        <5> QED
          BY <5>1
      <4>2. /\ setting' = [setting EXCEPT ![c] = setting'[c]]
            /\ setting'[c] \in {setting[c], setting[c] + 1}
        BY <1>1, <3>2
      <4>3. setting'[c] \in 0..Len(sub[c].settings)
        <5>1. \A n \in Nat : \A i \in 0..n : i < n => i + 1 \in 0..n
          OBVIOUS
        <5>2. setting[c] + 1 \in 0..Len(sub[c].settings)
          BY <1>2, <3>1, <5>1
        <5> QED
          BY <1>2, <4>2, <5>2
      <4>4. /\ status' = [status EXCEPT ![c] = status'[c]]
            /\ status'[c] \in {0, 200, 400, 405, 406, 500}
        BY <1>1, <3>2
      <4>5. /\ todo' = [todo EXCEPT ![c] = todo'[c]] /\ todo'[c] \subseteq sub[c].form
            /\ field' = [field EXCEPT ![c] = field'[c]] /\ field'[c] \in Fields \cup {<<>>}
            /\ retry' = [retry EXCEPT ![c] = retry'[c]] /\ retry'[c] \in 0..(conf.retry + 1)
            /\ metas' = [metas EXCEPT ![c] = metas'[c]] /\ metas'[c] \subseteq Calls
        <5>1. todo' = todo /\ field' = field /\ retry' = retry /\ metas' = metas
          BY <3>1
        <5>2. /\ todo = [todo EXCEPT ![c] = todo[c]] /\ field = [field EXCEPT ![c] = field[c]]
              /\ retry = [retry EXCEPT ![c] = retry[c]] /\ metas = [metas EXCEPT ![c] = metas[c]]
          BY <1>1
        <5>3. /\ todo[c] \subseteq sub[c].form /\ field[c] \in Fields \cup {<<>>}
              /\ metas[c] \subseteq Calls
          BY <1>1
        <5> QED
          BY <1>2, <5>1, <5>2, <5>3
      <4> QED
        BY <4>1, <4>2, <4>3, <4>4, <4>5 DEF Moves, Stages, Finals, Busy
    <3>5. with \in [Paths -> [ttl : Ttls \cup {NoTtl}, by : SUBSET Clients]]
      <4> DEFINE row == [ttl |-> SettingTtl(c, s), by |-> pathTtl[s.path].by \cup {c}]
      <4>1. s.path \in Paths
        BY <3>3 DEF Settings
      <4>2. pathTtl \in [Paths -> [ttl : Ttls \cup {NoTtl}, by : SUBSET Clients]]
        BY <1>1 DEF World
      <4>3. row \in [ttl : Ttls \cup {NoTtl}, by : SUBSET Clients]
        BY <3>3, <4>1, <4>2
      <4>4. with = [pathTtl EXCEPT ![s.path] = row]
        BY <4>1, <4>2
      <4> HIDE DEF s, with, row
      <4> QED
        BY <4>1, <4>2, <4>3, <4>4, UpdateType
    <3>6. World'
      <4>1. failed' \subseteq Clients \X {"call", "cache", "ttl"}
        <5>1. /\ failed \subseteq Clients \X {"call", "cache", "ttl"}
              /\ failed' = failed \/ failed' = failed \cup {<<c, "ttl">>}
          BY <1>1, <3>1 DEF World
        <5>2. <<c, "ttl">> \in Clients \X {"call", "cache", "ttl"}
          OBVIOUS
        <5> QED
          BY <5>1, <5>2
      <4>2. pathTtl' \in [Paths -> [ttl : Ttls \cup {NoTtl}, by : SUBSET Clients]]
        BY <1>1, <3>1, <3>5 DEF World
      <4> QED
        BY <1>0, <1>1, <3>1, <4>1, <4>2 DEF World
    <3> QED
      BY <3>4, <3>6
  <2>9. CASE Reply(c)
    <3>1. Moves(c)
      BY <1>1, <1>2, <2>9 DEF Reply, AllUploaded, Finish, Goto, Moves, Stages, Finals, Busy
    <3> QED
      BY <1>0, <1>1, <2>9, <3>1 DEF World, Reply, worldVars
  <2> QED
    BY <2>1, <2>2, <2>3, <2>4, <2>5, <2>6, <2>7, <2>8, <2>9 DEF Step, Handler
<1>4. TypeOK' <=> (CaseInv' /\ Mine' /\ World')
  BY DEF TypeOK, CaseInv, Mine, World, Stages, Busy
<1> QED
  BY <1>0, <1>3, <1>4, MovesType

\* The steps of the servers.
Serve(m) == Store(m) \/ Reject(m)

LEMMA ServeType ==
  ASSUME TypeOK, NEW m \in net, Serve(m)
  PROVE  TypeOK'
<1>0. /\ CaseInv' /\ conf' = conf /\ sub' = sub /\ Fields' = Fields /\ Calls' = Calls
  BY TypeParts, Fixed DEF Serve, Next, CaseInv
<1>1. Mine /\ World /\ m \in Calls
  BY TypeParts DEF World
<1>2. UNCHANGED <<pc, todo, field, retry, metas, setting, status, cache, pathTtl, failed>>
  BY DEF Serve, Store, Reject, handlerVars
<1>3. net' \subseteq Calls /\ copies' \subseteq Calls
  BY <1>1 DEF Serve, Store, Reject, World
<1>4. answers' \subseteq [call : Calls, ok : BOOLEAN]
  <2>1. \/ answers' = answers
        \/ \E ok \in BOOLEAN : answers' = answers \cup {[call |-> m, ok |-> ok]}
    BY DEF Serve, Store, Reject, Answer
  <2>2. answers \subseteq [call : Calls, ok : BOOLEAN]
    BY <1>1 DEF World
  <2>3. \A ok \in BOOLEAN : [call |-> m, ok |-> ok] \in [call : Calls, ok : BOOLEAN]
    BY <1>1
  <2> QED
    BY <2>1, <2>2, <2>3
<1>5. entry' \in [Paths \cup {Mangled} -> Calls \cup {NoCopy}]
  <2>1. CASE entry' = entry
    BY <1>1, <2>1 DEF World
  <2>2. CASE m.path # NoPath /\ entry' = [entry EXCEPT ![m.path] = m]
    <3>1. m.path \in Paths \cup {Mangled} /\ m \in Calls \cup {NoCopy}
      BY <1>1, <2>2 DEF Calls
    <3>2. entry \in [Paths \cup {Mangled} -> Calls \cup {NoCopy}]
      BY <1>1 DEF World
    <3> QED
      BY <2>2, <3>1, <3>2, UpdateType
  <2> QED
    BY <2>1, <2>2 DEF Serve, Store, Reject
<1>a. crossed' \subseteq Paths \cup {NoPath, Mangled}
  BY <1>1 DEF Serve, Store, Reject, World, Calls
<1>6. World'
  BY <1>0, <1>1, <1>2, <1>3, <1>4, <1>5, <1>a DEF World
<1>7. Mine'
  BY <1>0, <1>1, <1>2 DEF Mine, Busy
<1>8. TypeOK' <=> (CaseInv' /\ Mine' /\ World')
  BY DEF TypeOK, CaseInv, Mine, World, Stages, Busy
<1> QED
  BY <1>0, <1>6, <1>7, <1>8

LEMMA KeepsType ==
  ASSUME TypeOK, [Next]_vars
  PROVE  TypeOK'
<1>1. CASE \E c \in Clients : Step(c)
  BY <1>1, StepType
<1>2. CASE \E m \in net : Serve(m)
  BY <1>2, ServeType
<1>3. CASE UNCHANGED vars
  BY <1>3 DEF TypeOK, Fields, Calls, vars, handlerVars, worldVars
<1> QED
  BY <1>1, <1>2, <1>3 DEF Next, Step, Serve

(***************************************************************************)
(* Every variable keeps its type: no counter of attempts or settings       *)
(* leaves its range, and no field is uploaded that the form has not.       *)
(***************************************************************************)
THEOREM TypeCorrect == Spec => []TypeOK
BY InitType, KeepsType, PTL DEF Spec

-----------------------------------------------------------------------------
(***************************************************************************)
(* What a step does, seen from its request.  The proofs below rest on this *)
(* and not on the text of the actions.                                     *)
(***************************************************************************)
Begins(c) == /\ pc[c] = "start" /\ pc'[c] \in {"next", "done", "panicked"}
             /\ pc'[c] = "next" => todo'[c] = sub[c].form
             /\ pc'[c] = "done" => status'[c] # 200
             /\ pc'[c] = "panicked" => NoServer(c) \/ sub[c].writable = "broken"
             /\ UNCHANGED <<field, retry, metas, setting, worldVars>>

Takes(c) == /\ pc[c] = "next" /\ pc'[c] \in {"post", "done", "panicked"}
            /\ field'[c] \in todo[c] /\ todo'[c] = todo[c] \ {field'[c]}
            /\ retry'[c] = 0
            /\ pc'[c] = "done" => status'[c] # 200
            /\ pc'[c] = "panicked" => NoCut(c)
            /\ UNCHANGED <<metas, setting, worldVars>>

Posts(c) == /\ pc[c] = "post" /\ pc'[c] = "wait"
            /\ net' = net \cup {Call(c)}
            /\ UNCHANGED <<handlerVars, answers, copies, entry, cache, pathTtl, failed, crossed>>

Hears(c, a) ==
    /\ pc[c] = "wait" /\ a.call = Call(c) /\ answers' = answers \ {a}
    /\ \/ ~a.ok /\ pc'[c] = "done" /\ status'[c] # 200 /\ metas' = metas
       \/ /\ a.ok /\ sub[c].isFiler /\ conf.redis # "off"
          /\ pc'[c] = "cache" /\ metas' = metas /\ status' = status
       \/ /\ a.ok /\ ~(sub[c].isFiler /\ conf.redis # "off")
          /\ pc'[c] = "next" /\ metas'[c] = metas[c] \cup {Call(c)}
          /\ status' = status
    /\ UNCHANGED <<todo, field, retry, setting, net, copies, entry, cache, pathTtl, failed,
                   crossed>>

Loses(c) ==
    /\ pc[c] = "wait" /\ pc'[c] \in {"post", "done", "panicked"}
    /\ failed' = failed \cup {<<c, "call">>}
    /\ answers' = {a \in answers : a.call # Call(c)}
    /\ pc'[c] = "done" => status'[c] # 200
    /\ pc'[c] = "panicked" => NoServer(c) \/ NoCut(c)
    /\ UNCHANGED <<todo, field, metas, setting, net, copies, entry, cache, pathTtl, crossed>>

Caches(c) ==
    /\ pc[c] = "cache"
    /\ \/ /\ conf.redis = "noaddr" /\ pc'[c] = "panicked"
          /\ UNCHANGED <<cache, metas, failed>>
       \/ /\ pc'[c] = "next" /\ metas'[c] = metas[c] \cup {Call(c)}
          /\ \/ /\ cache' = [cache EXCEPT ![Head(field[c]).path] = Call(c)]
                /\ failed' = failed
             \/ cache' = cache /\ failed' = failed \cup {<<c, "cache">>}
    /\ UNCHANGED <<todo, field, retry, setting, status, net, answers, copies, entry, pathTtl,
                   crossed>>

Sets(c) ==
    /\ pc[c] = "next" /\ todo[c] = {} /\ SetPath(c)
    /\ pc'[c] \in {"next", "done", "panicked"}
    /\ pc'[c] = "done" => status'[c] = 400
    /\ pc'[c] = "panicked" => \E i \in DOMAIN sub[c].settings :
                                sub[c].settings[i].empty \/ ~conf.mysql
    /\ failed' \in {failed, failed \cup {<<c, "ttl">>}}
    /\ UNCHANGED <<todo, field, retry, metas, net, answers, copies, entry, cache, crossed>>

Replies(c) ==
    /\ pc[c] = "next" /\ todo[c] = {} /\ setting[c] = Len(sub[c].settings)
    /\ pc'[c] = "done" /\ status'[c] = 200
    /\ UNCHANGED <<todo, field, retry, metas, setting, worldVars>>

LEMMA Effects ==
  ASSUME TypeOK, NEW c \in Clients, Step(c)
  PROVE  \/ Begins(c) \/ Takes(c) \/ Posts(c) \/ (\E a \in answers : Hears(c, a))
         \/ Loses(c) \/ Caches(c) \/ Sets(c) \/ Replies(c)
<1>1. /\ pc \in [Clients -> Stages] /\ todo \in [Clients -> SUBSET Fields]
      /\ field \in [Clients -> Fields \cup {<<>>}]
      /\ retry \in [Clients -> 0..(conf.retry + 1)]
      /\ metas \in [Clients -> SUBSET Calls]
      /\ status \in [Clients -> {0, 200, 400, 405, 406, 500}]
  BY DEF TypeOK, Stages
<1>2. CASE Refuse(c)
  <2>1. Gate(c) # 200
    BY DEF Gate, Panic
  <2> QED
    BY <1>1, <1>2, <2>1 DEF Refuse, Finish, Goto, Begins
<1>3. CASE Admit(c)
  <2>1. submitUrl(conf.weeds, sub[c].isFiler, 0) = Panic => NoServer(c)
    BY UrlPanic
  <2>2. Gate(c) = Panic => sub[c].writable = "broken"
    BY DEF Gate, Panic
  <2> QED
    BY <1>1, <1>3, <2>1, <2>2 DEF Admit, Goto, Begins
<1>4. CASE NextFile(c)
  <2>1. PICK fs \in sub[c].form :
           /\ pc[c] = "next" /\ fs \in todo[c]
           /\ todo' = [todo EXCEPT ![c] = @ \ {fs}]
           /\ field' = [field EXCEPT ![c] = fs]
           /\ retry' = [retry EXCEPT ![c] = 0]
           /\ \/ /\ pc' = [pc EXCEPT ![c] = "panicked"] /\ status' = status
                 /\ NoCut(c)
              \/ /\ pc' = [pc EXCEPT ![c] = "done"]
                 /\ \E code \in {400, 500} : status' = [status EXCEPT ![c] = code]
              \/ pc' = [pc EXCEPT ![c] = "post"] /\ status' = status
           /\ UNCHANGED <<metas, setting, worldVars>>
    BY <1>4, NextFileShape
  <2>2. /\ pc[c] = "next" /\ fs \in todo[c] /\ field'[c] = fs
        /\ todo'[c] = todo[c] \ {fs} /\ retry'[c] = 0
        /\ UNCHANGED <<metas, setting, worldVars>>
    BY <1>1, <2>1
  <2>3. /\ pc'[c] \in {"post", "done", "panicked"}
        /\ pc'[c] = "done" => status'[c] # 200
        /\ pc'[c] = "panicked" => NoCut(c)
    BY <1>1, <2>1
  <2>4. Takes(c)
    BY <2>2, <2>3 DEF Takes
  <2> QED
    BY <2>4
<1>5. CASE Post(c)
  BY <1>1, <1>5 DEF Post, Goto, Posts
<1>6. CASE Answered(c)
  <2>1. PICK a \in answers : /\ a.call = Call(c) /\ answers' = answers \ {a}
                             /\ Uploaded(c, a.ok)
    BY <1>6 DEF Answered
  <2>2. Hears(c, a)
    BY <1>1, <1>6, <2>1 DEF Answered, Uploaded, Accept, Finish, Goto, Hears
  <2> QED
    BY <2>2
<1>7. CASE CallFails(c)
  BY <1>1, <1>7, CallFailsShape DEF Loses
<1>8. CASE CacheFile(c)
  BY <1>1, <1>8 DEF CacheFile, CacheWith, Accept, Goto, Caches
<1>9. CASE SetPath(c)
  <2>1. /\ setting[c] \in Nat /\ setting[c] < Len(sub[c].settings)
        /\ sub[c].settings \in Seq(Settings)
    BY <1>9, Progress, Submitted DEF SetPath
  <2>2. setting[c] + 1 \in DOMAIN sub[c].settings
    BY <2>1
  <2>3. /\ pc[c] = "next" /\ todo[c] = {}
        /\ failed' \in {failed, failed \cup {<<c, "ttl">>}}
        /\ UNCHANGED <<todo, field, retry, metas, net, answers, copies, entry, cache, crossed>>
    BY <1>9 DEF SetPath, AllUploaded
  <2>4. \/ pc'[c] = "next"
        \/ pc'[c] = "done" /\ status'[c] = 400
        \/ /\ pc'[c] = "panicked"
           /\ \/ sub[c].settings[setting[c] + 1].empty
              \/ ~conf.mysql
    <3>1. /\ pc[c] = "next"
          /\ \/ pc' = pc
             \/ pc' = [pc EXCEPT ![c] = "done"] /\ status' = [status EXCEPT ![c] = 400]
             \/ /\ pc' = [pc EXCEPT ![c] = "panicked"]
                /\ \/ sub[c].settings[setting[c] + 1].empty
                   \/ ~conf.mysql
      BY <1>9 DEF SetPath, AllUploaded, Finish, Goto
    <3> QED
      BY <1>1, <3>1
  <2>5. /\ pc'[c] \in {"next", "done", "panicked"}
        /\ pc'[c] = "done" => status'[c] = 400
        /\ pc'[c] = "panicked" => \E i \in DOMAIN sub[c].settings :
                                    sub[c].settings[i].empty \/ ~conf.mysql
    BY <2>2, <2>4
  <2>6. Sets(c)
    BY <1>9, <2>3, <2>5 DEF Sets
  <2> QED
    BY <2>6
<1>10. CASE Reply(c)
  <2>1. Replies(c)
    BY <1>1, <1>10 DEF Reply, AllUploaded, Finish, Goto, Replies
  <2> QED
    BY <2>1
<1> QED
  BY <1>2, <1>3, <1>4, <1>5, <1>6, <1>7, <1>8, <1>9, <1>10 DEF Step, Handler

\* Who takes a step; the servers leave the requests alone.
HandlersKept == UNCHANGED <<conf, sub, pc, handlerVars, cache, pathTtl, failed>>

LEMMA Movers ==
  ASSUME [Next]_vars
  PROVE  \/ \E c \in Clients : Step(c)
         \/ HandlersKept /\ \E m \in net : Serve(m)
         \/ HandlersKept /\ UNCHANGED vars
<1>1. CASE \E c \in Clients : Step(c)
  BY <1>1
<1>2. CASE \E m \in net : Serve(m)
  <2>1. HandlersKept
    BY <1>2 DEF Serve, Store, Reject, HandlersKept
  <2> QED
    BY <1>2, <2>1
<1>3. CASE UNCHANGED vars
  BY <1>3 DEF vars, worldVars, HandlersKept
<1> QED
  BY <1>1, <1>2, <1>3 DEF Next, Step, Serve

-----------------------------------------------------------------------------
\* The fields of the files in the result.
Listed(c) == {m.field : m \in metas[c]}

\* The result lists one file of every field that is through, and no other.
Lists(c) ==
    /\ pc[c] = "start" => metas[c] = {}
    /\ pc[c] = "next" => Listed(c) = sub[c].form \ todo[c]
    /\ Busy(c) => /\ field[c] \in sub[c].form \ todo[c]
                  /\ Listed(c) = (sub[c].form \ todo[c]) \ {field[c]}
    /\ pc[c] = "done" /\ status[c] = 200 => Listed(c) = sub[c].form
    /\ IsFiniteSet(metas[c])
    /\ \A m \in metas[c] : m.client = c
    /\ \A m, n \in metas[c] : m.field = n.field => m = n

ListInv == \A c \in Clients : Lists(c)

LEMMA InitLists == Init => ListInv
BY FS_EmptySet DEF Init, ListInv, Lists, Busy

\* A file enters the result, its field having left the ones to do.
LEMMA EntersList ==
  ASSUME TypeOK, NEW c \in Clients, Lists(c), Busy(c), sub' = sub,
         metas'[c] = metas[c] \cup {Call(c)}, pc'[c] = "next", todo' = todo
  PROVE  Lists(c)'
<1>1. Call(c).client = c /\ Call(c).field = field[c]
  BY CallShape
<1>2. Listed(c)' = Listed(c) \cup {field[c]}
  BY <1>1 DEF Listed
<1>3. /\ field[c] \in sub[c].form \ todo[c]
      /\ Listed(c) = (sub[c].form \ todo[c]) \ {field[c]}
  BY DEF Lists
<1>4. Listed(c)' = sub[c].form \ todo[c]
  BY <1>2, <1>3
<1>5. \A m \in metas[c] : m.field # field[c]
  BY <1>3 DEF Listed
<1>6. \A m, n \in metas'[c] : m.field = n.field => m = n
  BY <1>1, <1>5 DEF Lists
<1>7. IsFiniteSet(metas'[c])
  BY FS_AddElement DEF Lists
<1>8. \A m \in metas'[c] : m.client = c
  BY <1>1 DEF Lists
<1> QED
  BY <1>4, <1>6, <1>7, <1>8 DEF Lists, Busy

LEMMA KeepsLists ==
  ASSUME TypeOK, ListInv, [Next]_vars
  PROVE  ListInv'
<1>1. ASSUME NEW c \in Clients, Step(c), NEW d \in Clients
      PROVE  Lists(d)'
  <2> USE <1>1
  <2>0. Lists(d) /\ sub' = sub
    BY Fixed DEF ListInv, Step, Next
  <2>1. CASE d # c
    BY <2>0, <2>1, Frame DEF Lists, Listed, Busy
  <2>2. CASE d = c
    <3>1. metas'[c] = metas[c] => Listed(c)' = Listed(c)
      BY DEF Listed
    <3>2. CASE Begins(c)
      <4>1. pc[c] = "start" /\ metas[c] = {} /\ Listed(c) = {}
        BY <2>0, <2>2, <3>2 DEF Begins, Lists, Listed
      <4> QED
        BY <2>0, <2>2, <3>1, <3>2, <4>1 DEF Begins, Lists, Busy
    <3>3. CASE Takes(c)
      <4>1. todo[c] \subseteq sub[c].form
        BY DEF TypeOK
      <4> QED
        BY <2>0, <2>2, <3>1, <3>3, <4>1 DEF Takes, Lists, Busy
    <3>4. CASE Posts(c)
      BY <2>0, <2>2, <3>1, <3>4 DEF Posts, Lists, Busy, handlerVars
    <3>5. CASE \E a \in answers : Hears(c, a)
      <4>1. CASE pc'[c] = "next"
        BY <2>0, <2>2, <3>5, <4>1, EntersList DEF Hears, Busy
      <4>2. CASE pc'[c] # "next"
        BY <2>0, <2>2, <3>1, <3>5, <4>2 DEF Hears, Lists, Busy
      <4> QED
        BY <4>1, <4>2
    <3>6. CASE Loses(c)
      BY <2>0, <2>2, <3>1, <3>6 DEF Loses, Lists, Busy
    <3>7. CASE Caches(c)
      <4>1. CASE pc'[c] = "next"
        BY <2>0, <2>2, <3>7, <4>1, EntersList DEF Caches, Busy
      <4>2. CASE pc'[c] # "next"
        BY <2>0, <2>2, <3>1, <3>7, <4>2 DEF Caches, Lists, Busy
      <4> QED
        BY <4>1, <4>2
    <3>8. CASE Sets(c)
      BY <2>0, <2>2, <3>1, <3>8 DEF Sets, Lists, Busy
    <3>9. CASE Replies(c)
      BY <2>0, <2>2, <3>1, <3>9 DEF Replies, Lists, Busy
    <3> QED
      BY <3>2, <3>3, <3>4, <3>5, <3>6, <3>7, <3>8, <3>9, Effects
  <2> QED
    BY <2>1, <2>2
<1>2. CASE HandlersKept
  BY <1>2 DEF HandlersKept, handlerVars, ListInv, Lists, Listed, Busy
<1> QED
  BY <1>1, <1>2, Movers DEF ListInv

-----------------------------------------------------------------------------
\* An answer is awaited, there is one of a call, the call has been handled,
\* and by storing the file if the answer is a good one.
Awaited(a) == /\ pc[a.call.client] = "wait" /\ a.call = Call(a.call.client)
              /\ a.ok => a.call \in copies
              /\ a.call \notin net

AnswerInv == /\ \A a \in answers : Awaited(a)
             /\ \A a, b \in answers : a.call = b.call => a = b

\* What a request lists is stored, and so is what it is about to cache.
Stores(c) == /\ metas[c] \subseteq copies
             /\ pc[c] = "cache" => /\ Call(c) \in copies
                                   /\ sub[c].isFiler /\ conf.redis # "off"

StoredInv == AnswerInv /\ \A c \in Clients : Stores(c)

LEMMA InitStored == Init => StoredInv
BY DEF Init, StoredInv, AnswerInv, Awaited, Stores

\* The attempt that is answered is still the current one.
LEMMA SameCall ==
  ASSUME NEW c \in Clients, conf' = conf, sub' = sub,
         field'[c] = field[c], retry'[c] = retry[c]
  PROVE  Call(c)' = Call(c)
BY DEF Call, StorePath, AttemptTtl, Wanted

LEMMA KeepsStored ==
  ASSUME TypeOK, StoredInv, [Next]_vars
  PROVE  StoredInv'
<1>0. conf' = conf /\ sub' = sub
  BY Fixed
<1>1. ASSUME NEW c \in Clients, Step(c)
      PROVE  StoredInv'
  <2> USE <1>0, <1>1
  <2>1. /\ copies' = copies /\ answers' \subseteq answers
        /\ \A a \in answers : a.call.client \in Clients
    <3>1. copies' = copies /\ answers' \subseteq answers
      BY Frame
    <3>2. \A a \in answers : a.call \in Calls
      BY DEF TypeOK
    <3>3. \A m \in Calls : m.client \in Clients
      BY DEF Calls
    <3> QED
      BY <3>1, <3>2, <3>3
  <2>2. ASSUME NEW d \in Clients, d # c PROVE Stores(d)'
    BY <2>1, <2>2, Frame DEF StoredInv, Stores
  <2>3. ASSUME NEW a \in answers', a.call.client # c PROVE Awaited(a)'
    <3>1. Awaited(a) /\ a.call.client \in Clients \ {c}
      BY <2>1, <2>3 DEF StoredInv, AnswerInv
    <3>2. a.call \notin net'
      <4>1. Call(c).client = c
        BY CallShape
      <4> QED
        BY <2>3, <3>1, <4>1, Frame DEF Awaited
    <3> QED
      BY <2>1, <3>1, <3>2, Frame DEF Awaited
  <2>4. Stores(c) /\ AnswerInv
    BY DEF StoredInv
  <2>5. \A a \in answers : a.call.client = c => pc[c] = "wait" /\ a.call = Call(c)
    BY <2>4 DEF AnswerInv, Awaited
  <2>6. pc[c] # "wait" => \A a \in answers' : a.call.client # c
    BY <2>1, <2>5
  <2>7. Stores(c)' /\ \A a \in answers' : a.call.client # c
    <3>1. CASE Begins(c)
      BY <2>1, <2>4, <2>6, <3>1 DEF Begins, Stores
    <3>2. CASE Takes(c)
      BY <2>1, <2>4, <2>6, <3>2 DEF Takes, Stores
    <3>3. CASE Posts(c)
      BY <2>1, <2>4, <2>6, <3>3 DEF Posts, Stores, handlerVars
    <3>4. ASSUME NEW b \in answers, Hears(c, b)
          PROVE  Stores(c)' /\ \A a \in answers' : a.call.client # c
      <4>1. /\ b.call = Call(c) /\ (b.ok => Call(c) \in copies)
            /\ answers' = answers \ {b}
            /\ Call(c)' = Call(c)
        BY <2>4, <3>4, SameCall DEF Hears, AnswerInv, Awaited
      <4>2. \A a \in answers' : a.call.client # c
        BY <2>4, <2>5, <4>1 DEF AnswerInv
      <4>3. Stores(c)'
        BY <2>1, <2>4, <3>4, <4>1 DEF Hears, Stores
      <4> QED
        BY <4>2, <4>3
    <3>5. CASE Loses(c)
      <4>1. \A a \in answers' : a.call.client # c
        BY <2>5, <3>5 DEF Loses
      <4> QED
        BY <2>1, <2>4, <3>5, <4>1 DEF Loses, Stores
    <3>6. CASE Caches(c)
      BY <2>1, <2>4, <2>6, <3>6 DEF Caches, Stores
    <3>7. CASE Sets(c)
      BY <2>1, <2>4, <2>6, <3>7 DEF Sets, Stores
    <3>8. CASE Replies(c)
      BY <2>1, <2>4, <2>6, <3>8 DEF Replies, Stores
    <3> QED
      BY <3>1, <3>2, <3>3, <3>4, <3>5, <3>6, <3>7, <3>8, Effects
  <2>8. \A a \in answers' : Awaited(a)'
    BY <2>3, <2>7
  <2>9. (\A d \in Clients : Stores(d))'
    BY <2>2, <2>7
  <2> QED
    BY <2>1, <2>4, <2>8, <2>9 DEF StoredInv, AnswerInv
<1>2. ASSUME HandlersKept, NEW m \in net, Serve(m)
      PROVE  StoredInv'
  <2> USE <1>2
  <2>1. /\ net' = net \ {m} /\ copies \subseteq copies'
        /\ \A d \in Clients : Call(d)' = Call(d)
    BY SameCall DEF Serve, Store, Reject, HandlersKept, handlerVars
  <2>2. \/ answers' = answers
        \/ /\ pc[m.client] = "wait" /\ Call(m.client) = m /\ m.client \in Clients
           /\ \E ok \in BOOLEAN : /\ answers' = answers \cup {[call |-> m, ok |-> ok]}
                                  /\ ok => m \in copies'
    <3>1. \A k \in Calls : k.client \in Clients
      BY DEF Calls
    <3>2. m.client \in Clients
      BY <3>1 DEF TypeOK
    <3> QED
      BY <3>2 DEF Serve, Store, Reject, Answer, Listening
  <2>3. \A a \in answers : Awaited(a) /\ a.call.client \in Clients
    <3>1. \A k \in Calls : k.client \in Clients
      BY DEF Calls
    <3>2. \A a \in answers : a.call \in Calls
      BY DEF TypeOK
    <3> QED
      BY <3>1, <3>2 DEF StoredInv, AnswerInv
  <2>4. \A a \in answers : Awaited(a)'
    BY <2>1, <2>3 DEF Awaited, HandlersKept
  <2>5. AnswerInv'
    <3>1. CASE answers' = answers
      BY <2>4, <3>1 DEF StoredInv, AnswerInv
    <3>2. ASSUME NEW ok \in BOOLEAN,
                 answers' = answers \cup {[call |-> m, ok |-> ok]}, ok => m \in copies',
                 pc[m.client] = "wait", Call(m.client) = m, m.client \in Clients
          PROVE  AnswerInv'
      <4>1. Awaited([call |-> m, ok |-> ok])'
        BY <2>1, <3>2 DEF Awaited, HandlersKept
      <4>2. \A a \in answers : a.call # m
        BY <2>3 DEF Awaited
      <4> QED
        BY <2>4, <3>2, <4>1, <4>2 DEF StoredInv, AnswerInv
    <3> QED
      BY <2>2, <3>1, <3>2
  <2>6. \A d \in Clients : Stores(d)'
    BY <2>1 DEF StoredInv, Stores, HandlersKept, handlerVars
  <2> QED
    BY <2>5, <2>6 DEF StoredInv
<1>3. CASE HandlersKept /\ UNCHANGED vars
  <2>1. \A d \in Clients : Call(d)' = Call(d)
    BY <1>3, SameCall DEF HandlersKept, handlerVars
  <2>2. \A a \in answers : a.call.client \in Clients
    BY DEF TypeOK, Calls
  <2> QED
    BY <1>3, <2>1, <2>2 DEF StoredInv, AnswerInv, Awaited, Stores, vars, worldVars, handlerVars
<1> QED
  BY <1>1, <1>2, <1>3, Movers

-----------------------------------------------------------------------------
\* No call of a request has failed so far.
Quiet(c) == <<c, "call">> \notin failed

\* A call is what its request, its field and its attempt make it, and there
\* is no second attempt without a failed first one.
Fits(m) == /\ m.field \in sub[m.client].form
           /\ m.attempt \in 0..(conf.retry + 1)
           /\ m.path = StorePath(m.client, Head(m.field))
           /\ m.ttl = IF m.attempt = 0 THEN Wanted(m.client, Head(m.field)) ELSE NoTtl
           /\ m.attempt > 0 => ~Quiet(m.client)

CallInv == /\ \A m \in net \cup copies : Fits(m)
           /\ \A c \in Clients : Busy(c) /\ retry[c] > 0 => ~Quiet(c)
           /\ IsFiniteSet(copies)

LEMMA InitCalls == Init => CallInv
BY FS_EmptySet DEF Init, CallInv, Busy

LEMMA CurrentFits ==
  ASSUME TypeOK, CallInv, NEW c \in Clients, Busy(c)
  PROVE  Fits(Call(c))
<1>1. /\ field[c] \in sub[c].form /\ retry[c] \in 0..(conf.retry + 1)
      /\ conf.retry \in Nat
      /\ retry[c] > 0 => ~Quiet(c)
  BY CaseFacts DEF TypeOK, Busy, CallInv
<1> QED
  BY <1>1, CallShape DEF Fits, AttemptTtl

LEMMA KeepsCalls ==
  ASSUME TypeOK, CallInv, [Next]_vars
  PROVE  CallInv'
<1>0. /\ conf' = conf /\ sub' = sub
      /\ \A c : \A f : StorePath(c, f)' = StorePath(c, f) /\ Wanted(c, f)' = Wanted(c, f)
  BY Fixed
<1>1. ASSUME failed \subseteq failed', NEW m, Fits(m)
      PROVE  Fits(m)'
  BY <1>0, <1>1 DEF Fits, Quiet
<1>2. ASSUME NEW c \in Clients, Step(c)
      PROVE  CallInv'
  <2> USE <1>2
  <2>1. /\ failed \subseteq failed' /\ copies' = copies
        /\ net' = net \/ (Busy(c) /\ net' = net \cup {Call(c)})
    BY Frame DEF Post, Busy
  <2>2. \A m \in net' \cup copies' : Fits(m)'
    BY <1>1, <2>1, CurrentFits DEF CallInv
  <2>3. ASSUME NEW d \in Clients, Busy(d)', retry'[d] > 0
        PROVE  ~Quiet(d)'
    <3>1. CASE d # c
      BY <2>1, <2>3, <3>1, Frame DEF CallInv, Quiet, Busy
    <3>2. CASE d = c
      <4>0. Busy(c) /\ retry[c] > 0 => ~Quiet(c)
        BY DEF CallInv
      <4>1. ~Begins(c) /\ ~Takes(c) /\ ~Sets(c) /\ ~Replies(c)
        BY <2>3, <3>2 DEF Begins, Takes, Sets, Replies, Busy
      <4>2. CASE Posts(c)
        BY <2>1, <2>3, <3>2, <4>0, <4>2 DEF Posts, handlerVars, Quiet, Busy
      <4>3. CASE \E a \in answers : Hears(c, a)
        BY <2>1, <2>3, <3>2, <4>0, <4>3 DEF Hears, Quiet, Busy
      <4>4. CASE Loses(c)
        BY <3>2, <4>4 DEF Loses, Quiet
      <4>5. CASE Caches(c)
        BY <2>3, <3>2, <4>5 DEF Caches, Busy
      <4> QED
        BY <4>1, <4>2, <4>3, <4>4, <4>5, Effects
    <3> QED
      BY <3>1, <3>2
  <2> QED
    BY <2>1, <2>2, <2>3 DEF CallInv
<1>3. ASSUME HandlersKept, NEW m \in net, Serve(m)
      PROVE  CallInv'
  <2>1. /\ net' \subseteq net /\ failed' = failed
        /\ copies' = copies \/ copies' = copies \cup {m}
    BY <1>3 DEF Serve, Store, Reject, HandlersKept
  <2>2. \A k \in net' \cup copies' : Fits(k)'
    BY <1>1, <2>1 DEF CallInv
  <2>3. IsFiniteSet(copies')
    BY <2>1, FS_AddElement DEF CallInv
  <2> QED
    BY <1>3, <2>2, <2>3 DEF CallInv, HandlersKept, handlerVars, Busy, Quiet
<1>4. CASE HandlersKept /\ UNCHANGED vars
  BY <1>1, <1>4 DEF CallInv, HandlersKept, handlerVars, vars, worldVars, Busy, Quiet
<1> QED
  BY <1>2, <1>3, <1>4, Movers

-----------------------------------------------------------------------------
\* As long as no call of a request failed, at most the current one is under
\* way or stored without being listed.
Tidy(c) ==
    /\ \A m \in net : m.client = c =>
         /\ pc[c] = "wait" /\ m = Call(c)
         /\ m \notin copies
    /\ \A m \in copies : m.client = c =>
         \/ m \in metas[c]
         \/ pc[c] \in {"wait", "cache"} /\ m = Call(c)
         \/ pc[c] = "panicked"
    /\ \A a \in answers : a.call.client = c /\ ~a.ok => a.call \notin copies

QuietInv == \A c \in Clients : Quiet(c) => Tidy(c)

LEMMA InitQuiet == Init => QuietInv
BY DEF Init, QuietInv, Tidy

\* What a request has not listed yet it does not post twice.
LEMMA FreshCall ==
  ASSUME TypeOK, ListInv, QuietInv, NEW c \in Clients, Quiet(c), pc[c] = "post"
  PROVE  Call(c) \notin copies
<1>1. Call(c).client = c /\ Call(c).field = field[c]
  BY CallShape
<1>2. Call(c) \notin metas[c]
  <2>1. field[c] \notin Listed(c)
    BY DEF ListInv, Lists, Busy
  <2> QED
    BY <1>1, <2>1 DEF Listed
<1> QED
  BY <1>1, <1>2 DEF QuietInv, Tidy

LEMMA KeepsQuiet ==
  ASSUME TypeOK, ListInv, StoredInv, QuietInv, [Next]_vars
  PROVE  QuietInv'
<1>0. conf' = conf /\ sub' = sub
  BY Fixed
<1>1. ASSUME NEW c \in Clients, Step(c), NEW d \in Clients, Quiet(d)'
      PROVE  Tidy(d)'
  <2> USE <1>0, <1>1
  <2>1. /\ copies' = copies /\ answers' \subseteq answers
        /\ net' = net \/ (Post(c) /\ net' = net \cup {Call(c)})
        /\ Call(c).client = c
    BY Frame, CallShape
  <2>2. Quiet(d) /\ Tidy(d)
    BY Frame DEF Quiet, QuietInv
  <2>3. CASE d # c
    <3>1. Call(d)' = Call(d) /\ pc'[d] = pc[d] /\ metas'[d] = metas[d]
      BY <2>3, Frame
    <3> QED
      BY <2>1, <2>2, <2>3, <3>1 DEF Tidy
  <2>4. CASE d = c
    <3>0. Quiet(c) /\ Tidy(c)
      BY <2>2, <2>4
    <3>2. CASE Begins(c)
      BY <2>1, <2>4, <3>0, <3>2 DEF Begins, Tidy, worldVars
    <3>3. CASE Takes(c)
      BY <2>1, <2>4, <3>0, <3>3 DEF Takes, Tidy, worldVars
    <3>4. CASE Posts(c)
      <4>1. Call(c)' = Call(c) /\ Call(c) \notin copies
        BY <3>0, <3>4, SameCall, FreshCall DEF Posts, handlerVars
      <4> QED
        BY <2>1, <2>4, <3>0, <3>4, <4>1 DEF Posts, Tidy, handlerVars
    <3>5. ASSUME NEW a \in answers, Hears(c, a)
          PROVE  Tidy(c)'
      <4>1. a.call = Call(c) /\ Call(c)' = Call(c) /\ Call(c) \notin net
        BY <3>5, SameCall DEF Hears, StoredInv, AnswerInv, Awaited
      <4>2. ~a.ok => Call(c) \notin copies
        BY <2>1, <3>0, <4>1 DEF Tidy
      <4>3. \A m \in net' : m.client # c
        BY <3>0, <3>5, <4>1 DEF Hears, Tidy
      <4> QED
        BY <2>1, <3>0, <3>5, <4>1, <4>2, <4>3 DEF Hears, Tidy
    <3>6. ~Loses(c)
      BY <2>4 DEF Loses, Quiet
    <3>7. CASE Caches(c)
      <4>1. Call(c)' = Call(c)
        BY <3>7, SameCall DEF Caches
      <4> QED
        BY <2>1, <2>4, <3>0, <3>7, <4>1 DEF Caches, Tidy
    <3>8. CASE Sets(c)
      BY <2>1, <2>4, <3>0, <3>8 DEF Sets, Tidy
    <3>9. CASE Replies(c)
      BY <2>1, <2>4, <3>0, <3>9 DEF Replies, Tidy, worldVars
    <3> QED
      BY <2>4, <3>2, <3>3, <3>4, <3>5, <3>6, <3>7, <3>8, <3>9, Effects
  <2> QED
    BY <2>3, <2>4
<1>2. ASSUME HandlersKept, NEW m \in net, Serve(m), NEW d \in Clients, Quiet(d)'
      PROVE  Tidy(d)'
  <2> USE <1>0, <1>2
  <2>1. /\ Call(d)' = Call(d) /\ Quiet(d) /\ Tidy(d)
        /\ pc' = pc /\ metas' = metas
    BY SameCall DEF HandlersKept, handlerVars, Quiet, QuietInv
  <2>2. \A a \in answers : a.call # m
    BY DEF StoredInv, AnswerInv, Awaited
  <2>3. CASE Store(m)
    <3>1. /\ net' = net \ {m} /\ copies' = copies \cup {m}
          /\ \A a \in answers' : a \in answers \/ a.ok
      BY <2>3 DEF Store, Answer
    <3> QED
      BY <2>1, <2>2, <3>1 DEF Tidy
  <2>4. CASE Reject(m)
    <3>1. /\ net' = net \ {m} /\ copies' = copies
          /\ \A a \in answers' : a \in answers \/ a.call = m
      BY <2>4 DEF Reject, Answer
    <3> QED
      BY <2>1, <2>2, <3>1 DEF Tidy
  <2> QED
    BY <2>3, <2>4 DEF Serve
<1>3. CASE HandlersKept /\ UNCHANGED vars
  <2>1. \A d \in Clients : Call(d)' = Call(d)
    BY <1>0, <1>3, SameCall DEF HandlersKept, handlerVars
  <2> QED
    BY <1>3, <2>1 DEF QuietInv, Quiet, Tidy, vars, worldVars, handlerVars
<1> QED
  BY <1>1, <1>2, <1>3, Movers DEF QuietInv

-----------------------------------------------------------------------------
\* The cache names what was stored, and of a file with this path in its name.
CacheInv == \A p \in Paths : cache[p] # NoCopy =>
                cache[p] \in copies /\ cache[p].path \in {p, Mangled}

LEMMA InitCache == Init => CacheInv
BY DEF Init, CacheInv

LEMMA KeepsCache ==
  ASSUME TypeOK, StoredInv, CacheInv, [Next]_vars
  PROVE  CacheInv'
<1>1. ASSUME NEW c \in Clients, Step(c)
      PROVE  CacheInv'
  <2>1. copies' = copies
    BY <1>1, Frame
  <2>2. CASE cache' = cache
    BY <2>1, <2>2 DEF CacheInv
  <2>3. CASE /\ pc[c] = "cache"
             /\ cache' = [cache EXCEPT ![Head(field[c]).path] = Call(c)]
    <3>1. /\ Call(c) \in copies /\ sub[c].isFiler
          /\ Call(c).path = StorePath(c, Head(field[c]))
      BY <2>3, CallShape DEF StoredInv, Stores
    <3>2. Call(c).path \in {Head(field[c]).path, Mangled}
      BY <3>1 DEF StorePath
    <3>3. cache \in [Paths -> Calls \cup {NoCopy}]
      BY DEF TypeOK
    <3>4. ASSUME NEW p \in Paths
          PROVE  \/ cache'[p] = cache[p]
                 \/ p = Head(field[c]).path /\ cache'[p] = Call(c)
      BY <2>3, <3>3
    <3> QED
      BY <2>1, <3>1, <3>2, <3>4 DEF CacheInv
  <2> QED
    BY <1>1, <2>2, <2>3, Effects
       DEF Begins, Takes, Posts, Hears, Loses, Caches, Sets, Replies, worldVars
<1>2. ASSUME HandlersKept, NEW m \in net, Serve(m)
      PROVE  CacheInv'
  BY <1>2 DEF HandlersKept, CacheInv, Serve, Store, Reject
<1>3. CASE HandlersKept /\ UNCHANGED vars
  BY <1>3 DEF HandlersKept, CacheInv, vars, worldVars
<1> QED
  BY <1>1, <1>2, <1>3, Movers

\* Nobody who wrote the path had trouble, and the last two did not cross.
Sound(p) == /\ conf.redis = "on" /\ p \notin crossed
            /\ \A m \in copies : m.path = p =>
                 Quiet(m.client) /\ <<m.client, "cache">> \notin failed

\* The copy on its way to the cache is the filer's; without one the cache has
\* the filer's, or what a multi-byte name has left there.
Agrees(p) ==
    /\ \A d \in Clients : Uncached(d, p) => entry[p] = Call(d)
    /\ \/ \E d \in Clients : Uncached(d, p)
       \/ cache[p] = entry[p]
       \/ cache[p] \in {m \in copies : m.path = Mangled}

AgreeInv == \A p \in Paths : Sound(p) => Agrees(p)

LEMMA InitAgrees == Init => AgreeInv
BY DEF Init, AgreeInv, Agrees, Uncached

\* What caching a file does to the paths.
LEMMA CachedPath ==
  ASSUME TypeOK, StoredInv, NEW c \in Clients, pc[c] = "cache",
         cache' = [cache EXCEPT ![Head(field[c]).path] = Call(c)]
  PROVE  /\ Call(c) \in copies /\ conf.redis # "off"
         /\ \A p \in Paths :
              \/ p = Head(field[c]).path /\ cache'[p] = Call(c)
              \/ p # Head(field[c]).path /\ cache'[p] = cache[p]
         /\ Call(c).path \in {Head(field[c]).path, Mangled}
<1>1. /\ Call(c) \in copies /\ sub[c].isFiler /\ conf.redis # "off"
      /\ Call(c).path = StorePath(c, Head(field[c]))
  BY CallShape DEF StoredInv, Stores
<1>2. Call(c).path \in {Head(field[c]).path, Mangled}
  BY <1>1 DEF StorePath
<1>3. cache \in [Paths -> Calls \cup {NoCopy}]
  BY DEF TypeOK
<1> QED
  BY <1>1, <1>2, <1>3

\* A step of a request leaves a copy that is not its own where it is; its own
\* copy is on the way to the cache until it is there.
LEMMA KeepsAgreesStep ==
  ASSUME TypeOK, ListInv, StoredInv, QuietInv, NEW c \in Clients, Step(c),
         NEW p \in Paths, Sound(p)', AgreeInv
  PROVE  Agrees(p)'
<1>0. conf' = conf /\ sub' = sub /\ Mangled \notin Paths /\ NoPath \notin Paths
  BY Fixed, SentinelsAssumption DEF Step, Next
<1>1. copies' = copies /\ entry' = entry /\ crossed' = crossed /\ failed \subseteq failed'
  BY Frame
<1>2. Sound(p) /\ Agrees(p)
  BY <1>0, <1>1 DEF Sound, Quiet, AgreeInv
<1>3. \A d \in Clients \ {c} : /\ Uncached(d, p)' <=> Uncached(d, p)
                               /\ Call(d)' = Call(d)
  BY <1>1, Frame DEF Uncached
<1>4. Call(c).client = c /\ Call(c).path = StorePath(c, Head(field[c]))
  BY CallShape
\* A request with a copy under the path had no trouble, and has none now.
<1>5. ASSUME Call(c) \in copies, Call(c).path = p
      PROVE  /\ Quiet(c) /\ Quiet(c)' /\ Tidy(c)
             /\ <<c, "cache">> \notin failed'
  BY <1>1, <1>2, <1>4, <1>5 DEF Sound, Quiet, QuietInv
\* What is left to show when the cache is not written.
<1>6. ASSUME cache' = cache, Call(c)' = Call(c) \/ ~Uncached(c, p)',
             Uncached(c, p)' <=> Uncached(c, p)
      PROVE  Agrees(p)'
  BY <1>1, <1>2, <1>3, <1>6 DEF Agrees
<1>7. CASE Begins(c) \/ Takes(c) \/ Sets(c) \/ Replies(c)
  <2>1. ~Uncached(c, p) /\ ~Uncached(c, p)'
    BY <1>1, <1>7, SameCall
       DEF Begins, Takes, Sets, Replies, Uncached
  <2>2. cache' = cache
    BY <1>7 DEF Begins, Takes, Sets, Replies, worldVars
  <2> QED
    BY <1>6, <2>1, <2>2
<1>8. CASE Posts(c)
  <2>1. Call(c)' = Call(c) /\ cache' = cache
    BY <1>0, <1>8, SameCall DEF Posts, handlerVars
  <2>2. ~Uncached(c, p)'
    BY <1>1, <1>5, <1>8, <2>1, FreshCall DEF Posts, Uncached
  <2>3. ~Uncached(c, p)
    BY <1>8 DEF Posts, Uncached
  <2> QED
    BY <1>6, <2>1, <2>2, <2>3
<1>9. ASSUME NEW a \in answers, Hears(c, a)
      PROVE  Agrees(p)'
  <2>1. Call(c)' = Call(c) /\ cache' = cache /\ a.call = Call(c)
    BY <1>0, <1>9, SameCall DEF Hears
  <2>2. Uncached(c, p) => a.ok /\ sub[c].isFiler
    BY <1>0, <1>4, <1>5, <2>1 DEF Uncached, Tidy, StorePath
  <2>3. Uncached(c, p)' <=> Uncached(c, p)
    BY <1>1, <1>2, <1>9, <2>1, <2>2 DEF Hears, Uncached, Sound
  <2> QED
    BY <1>6, <2>1, <2>3
<1>10. CASE Loses(c)
  <2>1. ~Uncached(c, p)
    BY <1>5, <1>10 DEF Loses, Uncached, Quiet
  <2> QED
    BY <1>6, <1>10, <2>1 DEF Loses, Uncached
<1>11. CASE Caches(c)
  <2>1. Call(c)' = Call(c) /\ pc[c] = "cache" /\ pc'[c] = "next"
    BY <1>0, <1>2, <1>11, SameCall DEF Caches, Sound
  <2>2. ~Uncached(c, p)'
    BY <2>1 DEF Uncached
  <2>3. CASE cache' = cache /\ failed' = failed \cup {<<c, "cache">>}
    BY <1>5, <1>6, <2>1, <2>2, <2>3 DEF Uncached
  <2>4. CASE cache' = [cache EXCEPT ![Head(field[c]).path] = Call(c)]
    <3>1. /\ Call(c) \in copies
          /\ \/ p = Head(field[c]).path /\ cache'[p] = Call(c)
             \/ p # Head(field[c]).path /\ cache'[p] = cache[p]
          /\ Call(c).path \in {Head(field[c]).path, Mangled}
      BY <2>1, <2>4, CachedPath
    <3>2. CASE Call(c).path = p
      <4>1. Uncached(c, p)
        BY <2>1, <3>1, <3>2 DEF Uncached
      <4>2. cache'[p] = entry'[p]
        BY <1>0, <1>1, <1>2, <3>1, <3>2, <4>1 DEF Agrees
      <4> QED
        BY <1>1, <1>2, <1>3, <2>2, <4>2 DEF Agrees
    <3>3. CASE Call(c).path # p
      <4>1. ~Uncached(c, p)
        BY <3>3 DEF Uncached
      <4>2. CASE cache'[p] = cache[p]
        BY <1>1, <1>2, <1>3, <2>2, <4>1, <4>2 DEF Agrees
      <4>3. CASE cache'[p] = Call(c) /\ Call(c).path = Mangled
        BY <1>1, <1>2, <1>3, <2>2, <3>1, <4>3 DEF Agrees
      <4> QED
        BY <3>1, <3>3, <4>2, <4>3
    <3> QED
      BY <3>2, <3>3
  <2> QED
    BY <1>2, <1>11, <2>3, <2>4 DEF Caches, Sound
<1> QED
  BY <1>7, <1>8, <1>9, <1>10, <1>11, Effects

LEMMA KeepsAgrees ==
  ASSUME TypeOK, ListInv, StoredInv, QuietInv, AgreeInv, [Next]_vars
  PROVE  AgreeInv'
<1>0. conf' = conf /\ sub' = sub
  BY Fixed
<1>1. ASSUME NEW c \in Clients, Step(c)
      PROVE  AgreeInv'
  BY <1>1, KeepsAgreesStep DEF AgreeInv
<1>2. ASSUME HandlersKept, NEW m \in net, Serve(m), NEW p \in Paths, Sound(p)'
      PROVE  Agrees(p)'
  <2> USE <1>0, <1>2
  <2>1. /\ pc' = pc /\ cache' = cache /\ failed' = failed
        /\ \A d \in Clients : Call(d)' = Call(d)
    BY SameCall DEF HandlersKept, handlerVars
  <2>2. CASE Store(m) /\ m.path = p
    <3>1. /\ copies' = copies \cup {m} /\ entry' = [entry EXCEPT ![p] = m]
          /\ p \in DOMAIN entry
      BY <2>2, SentinelsAssumption DEF Store, TypeOK
    <3>2. m.client \in Clients /\ Quiet(m.client)
      <4>1. m.client \in Clients
        BY DEF TypeOK, Calls
      <4>2. m \in copies'
        BY <3>1
      <4> QED
        BY <2>1, <2>2, <4>1, <4>2 DEF Sound, Quiet
    <3>3. pc[m.client] = "wait" /\ m = Call(m.client)
      BY <3>2 DEF QuietInv, Tidy
    <3>4. \A d \in Clients : ~Uncached(d, p)
      BY <2>2 DEF Store, Sound
    <3>5. \A d \in Clients : Uncached(d, p)' => Call(d) = m
      BY <2>1, <3>1, <3>4 DEF Uncached
    <3>6. Uncached(m.client, p)'
      BY <2>1, <2>2, <3>1, <3>2, <3>3 DEF Uncached
    <3> QED
      BY <2>1, <3>1, <3>2, <3>5, <3>6 DEF Agrees
  <2>3. CASE ~(Store(m) /\ m.path = p)
    <3>1. /\ \A k : k.path = p => (k \in copies' <=> k \in copies)
          /\ entry'[p] = entry[p] /\ copies \subseteq copies'
          /\ p \in crossed' <=> p \in crossed
      <4>1. CASE Reject(m)
        BY <4>1 DEF Reject
      <4>2. CASE Store(m) /\ m.path # p
        BY <4>2 DEF Store, TypeOK
      <4> QED
        BY <2>3, <4>1, <4>2 DEF Serve
    <3>2. Sound(p) /\ Agrees(p)
      BY <2>1, <3>1 DEF Sound, Quiet, AgreeInv
    <3>3. \A d \in Clients : Uncached(d, p)' <=> Uncached(d, p)
      BY <2>1, <3>1 DEF Uncached
    <3> QED
      BY <2>1, <3>1, <3>2, <3>3 DEF Agrees
  <2> QED
    BY <2>2, <2>3
<1>3. CASE HandlersKept /\ UNCHANGED vars
  <2>1. \A d \in Clients : Call(d)' = Call(d)
    BY <1>0, <1>3, SameCall DEF HandlersKept, handlerVars
  <2> QED
    BY <1>0, <1>3, <2>1 DEF AgreeInv, Sound, Agrees, Uncached, Quiet, vars, worldVars
<1> QED
  BY <1>1, <1>2, <1>3, Movers DEF AgreeInv

-----------------------------------------------------------------------------
\* The settings of the form that are to be made, and the last for its path of
\* those handled so far.
Makes(c, i) == sub[c].settings[i].settable /\ SettingTtl(c, sub[c].settings[i]) # NoTtl
LastSoFar(c, i) == \A j \in 1..setting[c] :
    Makes(c, j) /\ sub[c].settings[j].path = sub[c].settings[i].path => j <= i

\* Settings are handled when the files are through, each leaves a row unless
\* SetPathMeta fails, and the row is the last one's.
Ordered(c) ==
    /\ setting[c] > 0 => pc[c] \in {"next", "done", "panicked"} /\ todo[c] = {}
    /\ setting[c] > 0 /\ pc[c] = "done" => status[c] = 200 \/ sub[c].form = {}
    /\ pc[c] = "done" /\ status[c] = 200 => setting[c] = Len(sub[c].settings)
    /\ <<c, "ttl">> \in failed => setting[c] > 0
    /\ \A p \in Paths : c \in pathTtl[p].by => setting[c] > 0

Effective(c) ==
    <<c, "ttl">> \notin failed =>
         \A i \in 1..setting[c] : Makes(c, i) /\ LastSoFar(c, i) =>
            LET row == pathTtl[sub[c].settings[i].path]
            IN  /\ c \in row.by
                /\ row.by = {c} => row.ttl = SettingTtl(c, sub[c].settings[i])

SettingInv == \A c \in Clients : Ordered(c) /\ Effective(c)

LEMMA InitSettings == Init => SettingInv
<1> SUFFICES ASSUME Init, NEW c \in Clients PROVE Ordered(c) /\ Effective(c)
  BY DEF SettingInv
<1>1. setting[c] = 0 /\ failed = {} /\ pc[c] = "start"
  BY DEF Init
<1>2. \A p \in Paths : pathTtl[p].by = {}
  BY DEF Init
<1>3. ~ \E i \in 1..setting[c] : TRUE
  BY <1>1
<1> QED
  BY <1>1, <1>2, <1>3 DEF Ordered, Effective

\* The ways a setting may be handled.
LEMMA SetsShape ==
  ASSUME TypeOK, NEW c \in Clients, SetPath(c)
  PROVE  LET i == setting[c] + 1
             s == sub[c].settings[i]
         IN  /\ pc[c] = "next" /\ todo[c] = {} /\ setting[c] \in Nat
             /\ i \in 1..Len(sub[c].settings) /\ s.path \in Paths
             /\ \/ /\ setting'[c] = setting[c] /\ UNCHANGED <<pathTtl, failed>>
                   /\ \/ pc'[c] = "done" /\ status'[c] = 400 /\ sub[c].form = {}
                      \/ pc'[c] = "panicked"
                \/ /\ setting'[c] = i /\ pc'[c] = "next"
                   /\ \/ ~Makes(c, i) /\ UNCHANGED <<pathTtl, failed>>
                      \/ /\ Makes(c, i)
                         /\ pathTtl' = [pathTtl EXCEPT ![s.path] =
                              [ttl |-> SettingTtl(c, s), by |-> @.by \cup {c}]]
                         /\ failed' = failed
                      \/ <<c, "ttl">> \in failed'
<1> DEFINE i == setting[c] + 1
           s == sub[c].settings[i]
<1>1. /\ pc[c] = "next" /\ todo[c] = {} /\ setting[c] < Len(sub[c].settings)
      /\ pc \in [Clients -> Stages] /\ setting \in [Clients -> Nat]
      /\ status \in [Clients -> {0, 200, 400, 405, 406, 500}]
      /\ setting[c] \in Nat /\ sub[c].settings \in Seq(Settings)
  BY Vectors, Progress, Submitted DEF SetPath, AllUploaded
<1>2. i \in 1..Len(sub[c].settings) /\ s.path \in Paths
  <2>1. i \in 1..Len(sub[c].settings)
    BY <1>1
  <2>2. s \in Settings
    BY <1>1, <2>1
  <2> QED
    BY <2>1, <2>2 DEF Settings
<1>3. \/ /\ setting' = setting /\ UNCHANGED <<pathTtl, failed>>
         /\ \/ /\ pc' = [pc EXCEPT ![c] = "done"] /\ status' = [status EXCEPT ![c] = 400]
               /\ sub[c].form = {}
            \/ pc' = [pc EXCEPT ![c] = "panicked"]
      \/ /\ setting' = [setting EXCEPT ![c] = i] /\ pc' = pc
         /\ \/ ~Makes(c, i) /\ UNCHANGED <<pathTtl, failed>>
            \/ /\ Makes(c, i)
               /\ pathTtl' = [pathTtl EXCEPT ![s.path] =
                    [ttl |-> SettingTtl(c, s), by |-> @.by \cup {c}]]
               /\ failed' = failed
            \/ <<c, "ttl">> \in failed'
  BY DEF SetPath, Finish, Goto, NeverUpload, Makes
<1>4. /\ \A t : pc' = [pc EXCEPT ![c] = t] => pc'[c] = t
      /\ \A t : status' = [status EXCEPT ![c] = t] => status'[c] = t
      /\ setting' = [setting EXCEPT ![c] = i] => setting'[c] = i
      /\ setting' = setting => setting'[c] = setting[c]
      /\ pc' = pc => pc'[c] = "next"
  BY <1>1
<1> HIDE DEF i
<1>5. \/ /\ setting'[c] = setting[c] /\ UNCHANGED <<pathTtl, failed>>
         /\ \/ pc'[c] = "done" /\ status'[c] = 400 /\ sub[c].form = {}
            \/ pc'[c] = "panicked"
      \/ /\ setting'[c] = i /\ pc'[c] = "next"
         /\ \/ ~Makes(c, i) /\ UNCHANGED <<pathTtl, failed>>
            \/ /\ Makes(c, i)
               /\ pathTtl' = [pathTtl EXCEPT ![s.path] =
                    [ttl |-> SettingTtl(c, s), by |-> @.by \cup {c}]]
               /\ failed' = failed
            \/ <<c, "ttl">> \in failed'
  BY <1>3, <1>4
<1>6. pc[c] = "next" /\ todo[c] = {} /\ setting[c] \in Nat
  BY <1>1
<1> HIDE DEF s
<1> QED
  BY <1>2, <1>5, <1>6 DEF i, s

\* Only a setting touches the rows and the counter.
LEMMA NoSetting ==
  ASSUME TypeOK, NEW c \in Clients, Step(c), ~SetPath(c)
  PROVE  /\ setting'[c] = setting[c] /\ pathTtl' = pathTtl
         /\ <<c, "ttl">> \in failed' => <<c, "ttl">> \in failed
         /\ \/ pc[c] \notin {"next", "done", "panicked"}
            \/ pc[c] = "next" /\ todo[c] # {}
            \/ /\ todo[c] = {} /\ todo'[c] = {} /\ setting[c] = Len(sub[c].settings)
               /\ pc'[c] = "done" /\ status'[c] = 200
         /\ pc'[c] = "done" /\ status'[c] = 200 => setting[c] = Len(sub[c].settings)
BY Effects DEF Begins, Takes, Posts, Hears, Loses, Caches, Sets, Replies, worldVars,
               handlerVars

LEMMA KeepsSettings ==
  ASSUME TypeOK, SettingInv, [Next]_vars
  PROVE  SettingInv'
<1>0. /\ conf' = conf /\ sub' = sub
      /\ \A c : \A i : Makes(c, i)' = Makes(c, i)
      /\ \A c : \A s : SettingTtl(c, s)' = SettingTtl(c, s)
  BY Fixed DEF Makes
<1>1. ASSUME NEW c \in Clients, setting[c] \in Nat, setting'[c] = setting[c],
             pathTtl' = pathTtl, <<c, "ttl">> \in failed => <<c, "ttl">> \in failed',
             Effective(c)
      PROVE  Effective(c)'
  <2>1. \A i : LastSoFar(c, i)' <=> LastSoFar(c, i)
    BY <1>0, <1>1 DEF LastSoFar
  <2>2. ASSUME <<c, "ttl">> \notin failed',
               NEW i \in 1..setting'[c], Makes(c, i)', LastSoFar(c, i)'
        PROVE  LET row == pathTtl'[sub'[c].settings[i].path]
               IN  /\ c \in row.by
                   /\ row.by = {c} => row.ttl = SettingTtl(c, sub[c].settings[i])'
    <3>1. Makes(c, i) /\ LastSoFar(c, i) /\ i \in 1..setting[c]
      BY <1>0, <1>1, <2>1, <2>2
    <3>2. LET row == pathTtl[sub[c].settings[i].path]
          IN  /\ c \in row.by
              /\ row.by = {c} => row.ttl = SettingTtl(c, sub[c].settings[i])
      BY <1>1, <2>2, <3>1 DEF Effective
    <3>3. SettingTtl(c, sub[c].settings[i])' = SettingTtl(c, sub[c].settings[i])
      BY <1>0 DEF SettingTtl
    <3> QED
      BY <1>0, <1>1, <3>2, <3>3
  <2> QED
    BY <2>2 DEF Effective
<1>2. \A c \in Clients : setting[c] \in Nat /\ Ordered(c) /\ Effective(c)
  BY DEF TypeOK, SettingInv
<1>3. ASSUME NEW c \in Clients, Step(c), ~SetPath(c), NEW d \in Clients
      PROVE  Ordered(d)' /\ Effective(d)'
  <2> USE <1>3
  <2>1. pathTtl' = pathTtl
    BY NoSetting
  <2>2. CASE d # c
    <3>1. /\ pc'[d] = pc[d] /\ todo'[d] = todo[d] /\ setting'[d] = setting[d]
          /\ status'[d] = status[d]
          /\ <<d, "ttl">> \in failed' <=> <<d, "ttl">> \in failed
      BY <2>2, Frame
    <3> QED
      BY <1>0, <1>1, <1>2, <2>1, <3>1 DEF Ordered
  <2>3. CASE d = c
    <3>1. Ordered(c)'
      BY <1>0, <1>2, NoSetting DEF Ordered
    <3> QED
      BY <1>1, <1>2, <2>3, <3>1, NoSetting, Frame
  <2> QED
    BY <2>2, <2>3
<1>4. ASSUME NEW c \in Clients, Step(c), SetPath(c), NEW d \in Clients
      PROVE  Ordered(d)' /\ Effective(d)'
  <2> USE <1>4
  <2> DEFINE i == setting[c] + 1
             s == sub[c].settings[i]
             with == [pathTtl EXCEPT ![s.path] =
                        [ttl |-> SettingTtl(c, s), by |-> @.by \cup {c}]]
             Row == [ttl : Ttls \cup {NoTtl}, by : SUBSET Clients]
  <2>0. pathTtl \in [Paths -> Row]
    BY DEF TypeOK
  <2>1. /\ todo[c] = {} /\ todo' = todo /\ setting[c] \in Nat
        /\ i \in 1..Len(sub[c].settings) /\ s.path \in Paths
    BY SetsShape DEF SetPath
  <2>2. pathTtl' \in {pathTtl, with}
    BY DEF SetPath
  <2>3. /\ with[s.path].by = pathTtl[s.path].by \cup {c}
        /\ with[s.path].ttl = SettingTtl(c, s)
        /\ \A p \in Paths : p # s.path => with[p] = pathTtl[p]
    BY <2>0, <2>1
  <2>6. \/ /\ setting'[c] = setting[c] /\ UNCHANGED <<pathTtl, failed>>
           /\ \/ pc'[c] = "done" /\ status'[c] = 400 /\ sub[c].form = {}
              \/ pc'[c] = "panicked"
        \/ /\ setting'[c] = i /\ pc'[c] = "next"
           /\ \/ ~Makes(c, i) /\ UNCHANGED <<pathTtl, failed>>
              \/ Makes(c, i) /\ pathTtl' = with /\ failed' = failed
              \/ <<c, "ttl">> \in failed'
    BY SetsShape
  <2> HIDE DEF with, s
  <2>4. CASE d # c
    <3>1. /\ pc'[d] = pc[d] /\ todo'[d] = todo[d] /\ setting'[d] = setting[d]
          /\ status'[d] = status[d]
          /\ <<d, "ttl">> \in failed' <=> <<d, "ttl">> \in failed
      BY <2>4, Frame
    <3>2. ASSUME NEW p \in Paths
          PROVE  \/ pathTtl'[p] = pathTtl[p]
                 \/ c \in pathTtl'[p].by /\ pathTtl'[p].by = pathTtl[p].by \cup {c}
      BY <2>2, <2>3
    <3>3. Ordered(d)'
      BY <1>0, <1>2, <2>4, <3>1, <3>2 DEF Ordered
    <3>4. Effective(d)'
      <4>1. \A j \in 1..setting[d] : sub[d].settings[j].path \in Paths
        <5>1. sub[d].settings \in Seq(Settings) /\ setting[d] <= Len(sub[d].settings)
          BY CaseFacts DEF TypeOK
        <5>2. \A j \in 1..setting[d] : sub[d].settings[j] \in Settings
          BY <1>2, <5>1
        <5> QED
          BY <5>2 DEF Settings
      <4>2. \A j : LastSoFar(d, j)' <=> LastSoFar(d, j)
        BY <1>0, <3>1 DEF LastSoFar
      <4> QED
        BY <1>0, <1>2, <2>4, <3>1, <3>2, <4>1, <4>2 DEF Effective
    <3> QED
      BY <3>3, <3>4
  <2>5. CASE d = c
    <3>1. CASE setting'[c] = setting[c]
      <4>1. /\ UNCHANGED <<pathTtl, failed>>
            /\ \/ pc'[c] = "done" /\ status'[c] = 400 /\ sub[c].form = {}
               \/ pc'[c] = "panicked"
        BY <2>1, <2>6, <3>1
      <4>2. Effective(c)'
        BY <1>1, <1>2, <3>1, <4>1
      <4> QED
        BY <1>0, <1>2, <2>1, <2>5, <3>1, <4>1, <4>2 DEF Ordered
    <3>2. CASE setting'[c] # setting[c]
      <4>1. /\ setting'[c] = i /\ pc'[c] = "next"
            /\ \/ ~Makes(c, i) /\ UNCHANGED <<pathTtl, failed>>
               \/ Makes(c, i) /\ pathTtl' = with /\ failed' = failed
               \/ <<c, "ttl">> \in failed'
        BY <2>6, <3>2
      <4>2. Ordered(c)'
        BY <1>0, <2>1, <4>1 DEF Ordered
      <4>3. ASSUME <<c, "ttl">> \notin failed',
                   NEW j \in 1..i, Makes(c, j), LastSoFar(c, j)'
            PROVE  LET row == pathTtl'[sub[c].settings[j].path]
                   IN  /\ c \in row.by
                       /\ row.by = {c} => row.ttl = SettingTtl(c, sub[c].settings[j])
        <5>1. \A k \in 1..i : Makes(c, k) /\ sub[c].settings[k].path = sub[c].settings[j].path
                                => k <= j
          BY <1>0, <4>1, <4>3 DEF LastSoFar
        <5>2. CASE j = i
          <6>1. pathTtl' = with
            BY <4>1, <4>3, <5>2
          <6> QED
            BY <2>3, <5>2, <6>1 DEF s
        <5>3. CASE j # i
          <6>1. j \in 1..setting[c] /\ LastSoFar(c, j)
            BY <2>1, <4>3, <5>1, <5>3 DEF LastSoFar
          <6>2. <<c, "ttl">> \notin failed
            BY <4>3, Frame
          <6>3. LET row == pathTtl[sub[c].settings[j].path]
                IN  /\ c \in row.by
                    /\ row.by = {c} => row.ttl = SettingTtl(c, sub[c].settings[j])
            BY <1>2, <4>3, <6>1, <6>2 DEF Effective
          <6>4. CASE pathTtl' = pathTtl
            BY <6>3, <6>4
          <6>5. CASE Makes(c, i) /\ pathTtl' = with
            <7>1. sub[c].settings[j].path # s.path
              BY <2>1, <4>3, <5>1, <5>3, <6>5 DEF s
            <7>2. sub[c].settings[j].path \in Paths
              <8>1. sub[c].settings \in Seq(Settings) /\ j \in 1..Len(sub[c].settings)
                BY <2>1, <4>3, CaseFacts DEF TypeOK
              <8>2. sub[c].settings[j] \in Settings
                BY <8>1
              <8> QED
                BY <8>2 DEF Settings
            <7> QED
              BY <2>3, <6>3, <6>5, <7>1, <7>2
          <6> QED
            BY <2>2, <4>1, <4>3, <6>4, <6>5
        <5> QED
          BY <5>2, <5>3
      <4>4. Effective(c)'
        BY <1>0, <4>1, <4>3 DEF Effective
      <4> QED
        BY <2>5, <4>2, <4>4
    <3> QED
      BY <3>1, <3>2
  <2> QED
    BY <2>4, <2>5
<1>5. CASE HandlersKept
  <2>1. UNCHANGED <<pc, todo, setting, status, pathTtl, failed>>
    BY <1>5 DEF HandlersKept, handlerVars
  <2>2. \A c \in Clients : Effective(c)'
    BY <1>1, <1>2, <2>1
  <2>3. \A c \in Clients : Ordered(c)'
    BY <1>0, <1>2, <2>1 DEF Ordered
  <2> QED
    BY <2>2, <2>3 DEF SettingInv
<1> QED
  BY <1>3, <1>4, <1>5, Movers DEF SettingInv

-----------------------------------------------------------------------------
\* What a panic needs is there before it happens.
Cause(c) == \/ sub[c].writable = "broken"
            \/ NoServer(c)
            \/ sub[c].isFiler /\ conf.redis = "noaddr"
            \/ \E i \in DOMAIN sub[c].settings :
                 sub[c].settings[i].empty \/ ~conf.mysql
            \/ NoCut(c)

PanicInv == \A c \in Clients : pc[c] = "panicked" => Cause(c)

LEMMA KeepsPanic ==
  ASSUME TypeOK, StoredInv, PanicInv, [Next]_vars
  PROVE  PanicInv'
<1>0. \A d : Cause(d)' = Cause(d)
  BY Fixed DEF Cause, NoServer, NoCut
<1>1. ASSUME NEW c \in Clients, Step(c), NEW d \in Clients, pc'[d] = "panicked"
      PROVE  Cause(d)
  <2>1. CASE d # c
    BY <1>1, <2>1, Frame DEF PanicInv
  <2>2. CASE d = c
    <3>1. pc[c] = "cache" => sub[c].isFiler
      BY DEF StoredInv, Stores
    <3> QED
      BY <1>1, <2>2, <3>1, Effects
         DEF Begins, Takes, Posts, Hears, Loses, Caches, Sets, Replies, Cause
  <2> QED
    BY <2>1, <2>2
<1>2. CASE HandlersKept
  BY <1>0, <1>2 DEF HandlersKept, PanicInv
<1> QED
  BY <1>0, <1>1, <1>2, Movers DEF PanicInv

-----------------------------------------------------------------------------
(***************************************************************************)
(* The inductive invariant: no part of it but the types is inductive by    *)
(* itself.  That nothing is stored twice while no call fails (QuietInv)    *)
(* needs that a field in progress is not listed yet (ListInv), that only   *)
(* the answer to the current attempt is taken (AnswerInv) and that it      *)
(* says whether the file is stored.                                        *)
(***************************************************************************)
UploadInv == /\ TypeOK /\ ListInv /\ StoredInv /\ CallInv /\ QuietInv
             /\ CacheInv /\ AgreeInv /\ SettingInv /\ PanicInv

LEMMA UploadInvHolds == Spec => []UploadInv
<1>1. Init => UploadInv
  <2>1. Init => PanicInv
    BY DEF Init, PanicInv
  <2> QED
    BY <2>1, InitType, InitLists, InitStored, InitCalls, InitQuiet, InitCache,
       InitAgrees, InitSettings DEF UploadInv
<1>2. UploadInv /\ [Next]_vars => UploadInv'
  BY KeepsType, KeepsLists, KeepsStored, KeepsCalls, KeepsQuiet, KeepsCache,
     KeepsAgrees, KeepsSettings, KeepsPanic DEF UploadInv
<1> QED
  BY <1>1, <1>2, PTL DEF Spec

(***************************************************************************)
(* The result of a reply is true: every file it lists is stored, and a     *)
(* reply "ok" lists one copy of the first file of every field.             *)
(***************************************************************************)
THEOREM ReplyTheorem == Spec => []ReplyIsBacked
<1>1. ASSUME UploadInv, NEW c \in Clients, pc[c] = "done"
      PROVE  /\ metas[c] \subseteq copies
             /\ status[c] = 200 =>
                  /\ {m.field : m \in metas[c]} = sub[c].form
                  /\ Cardinality(metas[c]) = Cardinality(sub[c].form)
  <2>1. Lists(c) /\ metas[c] \subseteq copies
    BY <1>1 DEF UploadInv, ListInv, StoredInv, Stores
  <2>2. ASSUME status[c] = 200
        PROVE  Cardinality(metas[c]) = Cardinality(sub[c].form)
    <3> DEFINE f == [m \in metas[c] |-> m.field]
    <3>1. Listed(c) = sub[c].form /\ IsFiniteSet(metas[c])
      BY <1>1, <2>1, <2>2 DEF Lists
    <3>2. f \in [metas[c] -> sub[c].form]
      BY <3>1 DEF Listed
    <3>3. \A m, n \in metas[c] : f[m] = f[n] => m = n
      BY <2>1 DEF Lists
    <3>4. \A fs \in sub[c].form : \E m \in metas[c] : f[m] = fs
      BY <3>1 DEF Listed
    <3> HIDE DEF f
    <3>5. f \in Injection(metas[c], sub[c].form)
      BY <3>2, <3>3, Fun_IsInj
    <3>6. f \in Surjection(metas[c], sub[c].form)
      BY <3>2, <3>4, Fun_IsSurj
    <3> QED
      BY <3>1, <3>5, <3>6, FS_Surjection
  <2> QED
    BY <1>1, <2>1, <2>2 DEF Lists, Listed
<1>2. UploadInv => ReplyIsBacked
  BY <1>1 DEF ReplyIsBacked
<1> QED
  BY <1>2, UploadInvHolds, PTL

(***************************************************************************)
(* While no call of a request fails its reply, an error reply included,    *)
(* lists every copy stored for it: nothing is left behind unnamed.         *)
(***************************************************************************)
THEOREM OrphansTheorem == Spec => []OrphansNeedFailure
<1>1. UploadInv => OrphansNeedFailure
  BY DEF UploadInv, ListInv, Lists, StoredInv, Stores, QuietInv, Quiet, Tidy,
         OrphansNeedFailure
<1> QED
  BY <1>1, UploadInvHolds, PTL

(***************************************************************************)
(* However often calls fail, a file is stored at most Retry + 2 times:     *)
(* attempts are numbered, and a number is used once.                       *)
(***************************************************************************)
THEOREM CopiesTheorem == Spec => []CopiesBounded
<1>1. ASSUME UploadInv, NEW c \in Clients, NEW fs \in sub[c].form
      PROVE  Cardinality({m \in copies : m.client = c /\ m.field = fs}) <= conf.retry + 2
  <2> DEFINE K == {m \in copies : m.client = c /\ m.field = fs}
             f == [m \in K |-> m.attempt]
  <2>1. conf.retry \in Nat /\ copies \subseteq Calls
    BY <1>1, CaseFacts DEF UploadInv, TypeOK
  <2>2. \A m \in K : Fits(m) /\ m \in Calls /\ m.client = c /\ m.field = fs
    BY <1>1, <2>1 DEF UploadInv, CallInv
  <2>3. f \in [K -> 0..(conf.retry + 1)]
    BY <2>2 DEF Fits
  <2>4. ASSUME NEW m \in K, NEW n \in K, m.attempt = n.attempt
        PROVE  m = n
    <3>1. m.path = n.path /\ m.ttl = n.ttl
      BY <2>2, <2>4 DEF Fits
    <3> QED
      BY <2>2, <2>4, <3>1 DEF Calls
  <2>5. \A m, n \in K : f[m] = f[n] => m = n
    BY <2>4
  <2> HIDE DEF f, K
  <2>6. f \in Injection(K, 0..(conf.retry + 1))
    BY <2>3, <2>5, Fun_IsInj
  <2>7. /\ IsFiniteSet(0..(conf.retry + 1))
        /\ Cardinality(0..(conf.retry + 1)) = conf.retry + 2
    <3>1. \A n \in Nat : /\ IsFiniteSet(0..(n + 1))
                         /\ Cardinality(0..(n + 1)) = n + 2
      <4> SUFFICES ASSUME NEW n \in Nat
                   PROVE  /\ IsFiniteSet(0..(n + 1))
                          /\ Cardinality(0..(n + 1)) = n + 2
        OBVIOUS
      <4>1. 0 \in Int /\ n + 1 \in Int
        OBVIOUS
      <4>2. /\ IsFiniteSet(0..(n + 1))
            /\ Cardinality(0..(n + 1)) = IF 0 > n + 1 THEN 0 ELSE (n + 1) - 0 + 1
        BY <4>1, FS_Interval
      <4>3. ~(0 > n + 1) /\ (n + 1) - 0 + 1 = n + 2
        OBVIOUS
      <4> QED
        BY <4>2, <4>3
    <3> QED
      BY <2>1, <3>1
  <2>8. Cardinality(K) <= conf.retry + 2
    BY <2>6, <2>7, FS_Injection
  <2> QED
    BY <2>8 DEF K
<1>2. UploadInv => CopiesBounded
  BY <1>1 DEF CopiesBounded
<1> QED
  BY <1>2, UploadInvHolds, PTL

(***************************************************************************)
(* A stored copy has the wanted TTL, or none, and then a call of its       *)
(* request failed.                                                         *)
(***************************************************************************)
THEOREM LostTtlTheorem == Spec => []LostTtlNeedsFailure
<1>1. ASSUME UploadInv, NEW m \in copies, m.ttl # Wanted(m.client, Head(m.field))
      PROVE  m.ttl = NoTtl /\ <<m.client, "call">> \in failed
  <2>1. Fits(m)
    BY <1>1 DEF UploadInv, CallInv
  <2> QED
    BY <1>1, <2>1 DEF Fits, Quiet
<1>2. UploadInv => LostTtlNeedsFailure
  BY <1>1 DEF LostTtlNeedsFailure
<1> QED
  BY <1>2, UploadInvHolds, PTL

(***************************************************************************)
(* The cache never runs ahead of the filer.                                *)
(***************************************************************************)
THEOREM CacheNamesTheorem == Spec => []CacheNamesACopy
<1>1. UploadInv => CacheNamesACopy
  BY DEF UploadInv, CacheInv, CacheNamesACopy
<1> QED
  BY <1>1, UploadInvHolds, PTL

(***************************************************************************)
(* Every panic of an upload has its cause in the configuration or the      *)
(* form, whatever fails on the way.                                        *)
(***************************************************************************)
THEOREM UploadPanics == Spec => []PanicsHaveCause
<1>1. UploadInv => PanicsHaveCause
  BY DEF UploadInv, PanicInv, Cause, NoServer, NoCut, PanicsHaveCause
<1> QED
  BY <1>1, UploadInvHolds, PTL

(***************************************************************************)
(* Whenever no copy of a path is on its way to the cache, the cache has    *)
(* the filer's, after any number of uploads of the path by any number of   *)
(* requests: unless the last one was stored while an earlier one had still *)
(* to be cached, one of their calls or cachings failed, or a multi-byte    *)
(* name was cached under the path.                                         *)
(***************************************************************************)
THEOREM CacheAgreesTheorem == Spec => []CacheAgrees
<1>1. ASSUME UploadInv, NEW p \in Paths \ crossed, conf.redis = "on",
             LET writers == {m.client : m \in {k \in copies : k.path = p}}
             IN  /\ failed \cap (writers \X {"call", "cache"}) = {}
                 /\ \A c \in writers : ~Uncached(c, p)
      PROVE  \/ cache[p] = entry[p]
             \/ cache[p] \in {m \in copies : m.path = Mangled}
  <2> DEFINE writers == {m.client : m \in {k \in copies : k.path = p}}
  <2>1. \A m \in copies : m.path = p => m.client \in writers
    OBVIOUS
  <2>2. \A w \in writers : <<w, "call">> \notin failed /\ <<w, "cache">> \notin failed
    BY <1>1
  <2>3. Sound(p)
    <3> HIDE DEF writers
    <3> QED
      BY <1>1, <2>1, <2>2 DEF Sound, Quiet
  <2>4. \A d \in Clients : ~Uncached(d, p)
    BY <1>1, <2>1, CallShape DEF Uncached
  <2> QED
    BY <1>1, <2>3, <2>4 DEF UploadInv, AgreeInv, Agrees
<1>2. UploadInv => CacheAgrees
  BY <1>1 DEF CacheAgrees
<1> QED
  BY <1>2, UploadInvHolds, PTL

(***************************************************************************)
(* After a reply "ok" the last setting of every path that may have a TTL   *)
(* holds, unless another request set the path too or SetPathMeta failed;   *)
(* after an upload that failed none was made.                              *)
(***************************************************************************)
THEOREM SettingsTheorem == Spec => []SettingsFollowReply
<1>1. ASSUME UploadInv, NEW c \in Clients, pc[c] = "done"
      PROVE  LET ss      == sub[c].settings
                 Made(i) == ss[i].settable /\ (ss[i].ttl # NoTtl \/ sub[c].ttl # NoTtl)
                 Last(i) == \A j \in DOMAIN ss : Made(j) /\ ss[j].path = ss[i].path => j <= i
             IN  IF status[c] = 200
                 THEN <<c, "ttl">> \in failed \/
                      \A i \in {j \in DOMAIN ss : Made(j) /\ Last(j)} :
                         LET row == pathTtl[ss[i].path]
                         IN  /\ c \in row.by
                             /\ row.by = {c} => row.ttl \in {ss[i].ttl, sub[c].ttl} \ {NoTtl}
                             /\ row.by = {c} /\ ss[i].ttl # NoTtl => row.ttl = ss[i].ttl
                 ELSE sub[c].form = {} \/ \A p \in Paths : c \notin pathTtl[p].by
  <2> DEFINE ss      == sub[c].settings
             Made(i) == ss[i].settable /\ (ss[i].ttl # NoTtl \/ sub[c].ttl # NoTtl)
             Last(i) == \A j \in DOMAIN ss : Made(j) /\ ss[j].path = ss[i].path => j <= i
  <2>1. Ordered(c) /\ Effective(c) /\ ss \in Seq(Settings) /\ setting[c] \in Nat
    BY <1>1, CaseFacts DEF UploadInv, SettingInv, TypeOK
  <2>2. ASSUME status[c] = 200, <<c, "ttl">> \notin failed,
               NEW i \in DOMAIN ss, Made(i), Last(i)
        PROVE  LET row == pathTtl[ss[i].path]
               IN  /\ c \in row.by
                   /\ row.by = {c} => row.ttl \in {ss[i].ttl, sub[c].ttl} \ {NoTtl}
                   /\ row.by = {c} /\ ss[i].ttl # NoTtl => row.ttl = ss[i].ttl
    <3>1. setting[c] = Len(ss) /\ DOMAIN ss = 1..setting[c]
      BY <1>1, <2>1, <2>2 DEF Ordered
    <3>2. \A j : Makes(c, j) <=> Made(j)
      BY DEF Makes, SettingTtl
    <3>3. LastSoFar(c, i)
      BY <2>2, <3>1, <3>2 DEF LastSoFar
    <3>4. LET row == pathTtl[ss[i].path]
          IN  /\ c \in row.by
              /\ row.by = {c} => row.ttl = SettingTtl(c, ss[i])
      BY <2>1, <2>2, <3>1, <3>2, <3>3 DEF Effective
    <3> QED
      BY <2>2, <3>4 DEF SettingTtl
  <2>3. ASSUME status[c] # 200, sub[c].form # {}
        PROVE  \A p \in Paths : c \notin pathTtl[p].by
    BY <1>1, <2>1, <2>3 DEF Ordered
  <2> QED
    BY <2>2, <2>3
<1>2. UploadInv => SettingsFollowReply
  BY <1>1 DEF SettingsFollowReply
<1> QED
  BY <1>2, UploadInvHolds, PTL
=============================================================================
