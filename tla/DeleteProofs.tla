---------------------------- MODULE DeleteProofs ----------------------------
(***************************************************************************)
(* Deletions, for any number of requests, servers, retries and versions of *)
(* the file: type correctness, what an ok and a failure say, and how often *)
(* a request deletes.                                                      *)
(***************************************************************************)
EXTENDS Delete, WeedsProofs

\* The configuration is one of the cases and does not change.
CaseInv == \E k \in Cases : conf = k.conf /\ req = k.req

-----------------------------------------------------------------------------
\* The types of what a case has.
LEMMA CaseFacts ==
  ASSUME CaseInv
  PROVE  /\ conf.weeds \in Seq({"master", "volume", "filer"})
         /\ conf.retry \in Nat
         /\ conf.uniSource \in BOOLEAN
         /\ req \in [Clients -> Reqs]
         /\ \A c \in Clients : isFiler(c) \in BOOLEAN
BY CasesAssumption DEF CaseInv, Configs, isFiler

\* The server of an attempt is one of the list, or there is none.
LEMMA TargetType ==
  ASSUME CaseInv, NEW c \in Clients, retry[c] \in Nat, Target(c) # Panic
  PROVE  Target(c) \in 1..Len(conf.weeds)
<1>1. Choose(conf.weeds, isFiler(c), retry[c]) \in {Panic, NoWeed} \cup 1..Len(conf.weeds)
  BY CaseFacts, ChooseResult
<1> QED
  BY <1>1 DEF Target, getFileUrl

\* What weedDelete's failure does to the handler.
LEMMA FailedShape ==
  ASSUME TypeOK, NEW c \in Clients, Failed(c)
  PROVE  \/ /\ retry[c] < conf.retry
            /\ pc' = [pc EXCEPT ![c] = "try"]
            /\ retry' = [retry EXCEPT ![c] = @ + 1]
            /\ status' = status
         \/ /\ retry[c] = conf.retry
            /\ pc' = [pc EXCEPT ![c] = "done"]
            /\ status' = [status EXCEPT ![c] = 500]
            /\ retry' = retry
<1>1. conf.retry \in Nat /\ retry[c] \in 0..conf.retry
  BY CaseFacts DEF TypeOK, CaseInv
<1> QED
  BY <1>1 DEF Failed, Finish, Goto

\* It keeps the types of what it changes.
LEMMA FailedType ==
  ASSUME TypeOK, NEW c \in Clients, Failed(c)
  PROVE  /\ pc' \in [Clients -> {"start", "try", "lookup", "send", "wait"} \cup Finals]
         /\ retry' \in [Clients -> 0..conf.retry]
         /\ status' \in [Clients -> {0, 200, 405, 406, 500}]
<1> USE DEF TypeOK, Finals
<1>1. conf.retry \in Nat /\ retry \in [Clients -> 0..conf.retry]
  BY CaseFacts DEF CaseInv
<1>2. CASE retry[c] < conf.retry
  <2>1. retry[c] + 1 \in 0..conf.retry
    BY <1>1, <1>2
  <2>2. /\ pc' = [pc EXCEPT ![c] = "try"]
        /\ retry' = [retry EXCEPT ![c] = retry[c] + 1]
        /\ status' = status
    BY <1>2, <1>1, FailedShape
  <2> HIDE DEF TypeOK
  <2>3. retry' \in [Clients -> 0..conf.retry]
    BY <1>1, <2>1, <2>2
  <2> QED
    BY <2>2, <2>3 DEF TypeOK
<1>3. CASE ~(retry[c] < conf.retry)
  <2>1. /\ pc' = [pc EXCEPT ![c] = "done"]
        /\ retry' = retry
        /\ status' = [status EXCEPT ![c] = 500]
    BY <1>3, <1>1, FailedShape
  <2> QED
    BY <1>1, <2>1
<1> QED
  BY <1>2, <1>3

\* The DELETE of an attempt.
LEMMA CallType ==
  ASSUME TypeOK, NEW c \in Clients
  PROVE  Call(c) \in Calls
BY DEF TypeOK, Call, Calls

-----------------------------------------------------------------------------
LEMMA InitType == Init => TypeOK
<1> SUFFICES ASSUME Init PROVE TypeOK
  OBVIOUS
<1>1. CaseInv
  BY DEF Init, CaseInv
<1> QED
  BY <1>1, CaseFacts, VersionsAssumption DEF Init, TypeOK, CaseInv, Finals, Gone

\* A step does not change the configuration, nor then what DELETEs there are.
LEMMA Fixed ==
  ASSUME [Next]_vars
  PROVE  conf' = conf /\ req' = req /\ Calls' = Calls
<1>1. conf' = conf /\ req' = req
  BY DEF Next, vars, Handler, Begin, Try, Send, Redirected, NotRedirected, LookupFails,
         Answered, CallFails, Remove, Decline, Upload
<1> QED
  BY <1>1 DEF Calls

LEMMA HandlerType ==
  ASSUME TypeOK, NEW c \in Clients, conf' = conf, req' = req, Calls' = Calls,
         \/ Handler(c)
         \/ Redirected(c) \/ NotRedirected(c) \/ LookupFails(c)
         \/ Answered(c) \/ CallFails(c)
  PROVE  TypeOK'
<1> USE DEF TypeOK
<1>0. (\E k \in Cases : conf = k.conf /\ req = k.req)'
  OBVIOUS
<1>1. CASE Begin(c)
  <2>1. /\ \E s \in {"done", "panicked", "try"} : pc' = [pc EXCEPT ![c] = s]
        /\ \/ status' = status
           \/ \E code \in {0, 405, 406} : status' = [status EXCEPT ![c] = code]
        /\ UNCHANGED <<retry, atVolume, net, answered, version, uploads, historyVars>>
    BY <1>1 DEF Begin, Finish, Goto
  <2>2. pc' \in [Clients -> {"start", "try", "lookup", "send", "wait"} \cup Finals]
    <3>1. PICK s \in {"done", "panicked", "try"} : pc' = [pc EXCEPT ![c] = s]
      BY <2>1
    <3>2. s \in {"start", "try", "lookup", "send", "wait"} \cup Finals
      BY DEF Finals
    <3>3. pc \in [Clients -> {"start", "try", "lookup", "send", "wait"} \cup Finals]
      OBVIOUS
    <3> QED
      BY <3>1, <3>2, <3>3
  <2>3. status' \in [Clients -> {0, 200, 405, 406, 500}]
    <3>1. CASE status' = status
      BY <3>1
    <3>2. CASE \E code \in {0, 405, 406} : status' = [status EXCEPT ![c] = code]
      BY <3>2
    <3> QED
      BY <2>1, <3>1, <3>2
  <2> QED
    BY <1>0, <2>1, <2>2, <2>3 DEF historyVars
<1>2. CASE Try(c)
  <2>1. atVolume' \in [Clients -> BOOLEAN]
    BY <1>2, CaseFacts DEF Try, CaseInv
  <2>2. /\ pc' \in [Clients -> {"start", "try", "lookup", "send", "wait"} \cup Finals]
        /\ retry' \in [Clients -> 0..conf.retry]
        /\ status' \in [Clients -> {0, 200, 405, 406, 500}]
    <3>1. CASE Target(c) # Panic /\ req[c].path = "noslash"
      BY <1>2, <3>1, FailedType DEF Try
    <3>2. CASE ~(Target(c) # Panic /\ req[c].path = "noslash")
      <4>1. /\ \E s \in {"panicked", "send", "lookup"} : pc' = [pc EXCEPT ![c] = s]
            /\ UNCHANGED <<retry, status>>
        BY <1>2, <3>2 DEF Try, Goto
      <4> QED
        BY <4>1 DEF Finals
    <3> QED
      BY <3>1, <3>2
  <2>3. asked' \in [Clients -> SUBSET (1..Len(conf.weeds))]
    <3>1. Target(c) # Panic => Target(c) \in 1..Len(conf.weeds)
      BY TargetType, CaseFacts DEF CaseInv
    <3>2. asked \in [Clients -> SUBSET (1..Len(conf.weeds))]
      OBVIOUS
    <3>3. \/ asked' = asked
          \/ Target(c) # Panic /\ asked' = [asked EXCEPT ![c] = @ \cup {Target(c)}]
      BY <1>2 DEF Try
    <3> QED
      BY <3>1, <3>2, <3>3
  <2> QED
    BY <1>0, <1>2, <2>1, <2>2, <2>3 DEF Try
<1>3. CASE Send(c)
  BY <1>0, <1>3, CallType DEF Send, Goto, handlerVars, historyVars
<1>4. CASE Redirected(c)
  BY <1>0, <1>4 DEF Redirected, Goto, historyVars
<1>5. CASE NotRedirected(c)
  BY <1>0, <1>5, FailedType DEF NotRedirected
<1>6. CASE LookupFails(c)
  BY <1>0, <1>6 DEF LookupFails, Goto, handlerVars
<1>7. CASE Answered(c)
  BY <1>0, <1>7 DEF Answered, Finish, Goto, Finals, historyVars
<1>8. CASE CallFails(c)
  BY <1>0, <1>8, FailedType DEF CallFails
<1> QED
  BY <1>1, <1>2, <1>3, <1>4, <1>5, <1>6, <1>7, <1>8 DEF Handler

LEMMA ServerType ==
  ASSUME TypeOK, conf' = conf, req' = req, Calls' = Calls,
         \/ \E m \in net : Remove(m) \/ Decline(m)
         \/ Upload
  PROVE  TypeOK'
<1> USE DEF TypeOK
<1>0. (\E k \in Cases : conf = k.conf /\ req = k.req)'
  OBVIOUS
<1>1. ASSUME NEW m \in net, Remove(m) PROVE TypeOK'
  <2>1. version \in 1..MaxVersions
    BY <1>1, VersionsAssumption DEF Remove, Gone
  <2>2. m.client \in Clients
    BY <1>1 DEF Calls
  <2> QED
    BY <1>0, <1>1, <2>1, <2>2 DEF Remove, Answer, Gone, handlerVars
<1>2. ASSUME NEW m \in net, Decline(m) PROVE TypeOK'
  <2>1. m.client \in Clients
    BY <1>2 DEF Calls
  <2> QED
    BY <1>0, <1>2, <2>1 DEF Decline, Answer, handlerVars
<1>3. CASE Upload
  BY <1>0, <1>3, VersionsAssumption DEF Upload, Gone, handlerVars, historyVars
<1> QED
  BY <1>1, <1>2, <1>3

LEMMA TypeStep == TypeOK /\ [Next]_vars => TypeOK'
<1> SUFFICES ASSUME TypeOK, [Next]_vars PROVE TypeOK'
  OBVIOUS
<1>1. CASE Next
  BY <1>1, Fixed, HandlerType, ServerType DEF Next
<1>2. CASE UNCHANGED vars
  BY <1>2, Fixed DEF vars, handlerVars, historyVars, TypeOK
<1> QED
  BY <1>1, <1>2

\* Type correctness (Delete): the retries stay within the configured number.
THEOREM TypeCorrect == Spec => []TypeOK
BY InitType, TypeStep, PTL DEF Spec

-----------------------------------------------------------------------------
(***************************************************************************)
(* OkNeedsRemoval.  An answer is sent when a server has removed the file,  *)
(* refused, or found it gone; and it can only be gone by a removal.        *)
(***************************************************************************)
SomeRemoved == \E d \in Clients : removed[d] # {}

GoneInv == version = Gone => SomeRemoved

AnswerInv == \A m \in answered : <<m.client, "refused">> \in trouble \/ SomeRemoved

OkInv == \A c \in Clients : Ok(c) => <<c, "refused">> \in trouble \/ SomeRemoved

RemovalInv == GoneInv /\ AnswerInv /\ OkInv

\* A failure ends nobody with ok.
LEMMA FailedNotOk ==
  ASSUME TypeOK, NEW c \in Clients, Failed(c)
  PROVE  \A d \in Clients : Ok(d)' => Ok(d)
<1>1. /\ \E s \in {"try", "done"} : pc' = [pc EXCEPT ![c] = s]
      /\ \/ status' = status /\ pc' = [pc EXCEPT ![c] = "try"]
         \/ status' = [status EXCEPT ![c] = 500]
  BY FailedShape
<1>2. /\ pc \in [Clients -> {"start", "try", "lookup", "send", "wait"} \cup Finals]
      /\ status \in [Clients -> {0, 200, 405, 406, 500}]
  BY DEF TypeOK
<1> QED
  BY <1>1, <1>2 DEF Ok

\* What a handler does leaves the removals alone, and it ends with ok by
\* Answered only.
LEMMA HandlerShape ==
  ASSUME TypeOK, NEW c \in Clients,
         \/ Handler(c)
         \/ Redirected(c) \/ NotRedirected(c) \/ LookupFails(c)
         \/ Answered(c) \/ CallFails(c)
  PROVE  /\ UNCHANGED <<removed, version>>
         /\ trouble \subseteq trouble'
         /\ answered' \subseteq answered
         /\ \A d \in Clients : Ok(d)' => Ok(d) \/ (d = c /\ Answered(c))
<1> USE DEF TypeOK, Ok
<1>1. CASE Begin(c)
  BY <1>1 DEF Begin, Finish, Goto, historyVars
<1>2. CASE Try(c)
  <2>1. \/ Failed(c)
        \/ /\ \E s \in {"panicked", "send", "lookup"} : pc' = [pc EXCEPT ![c] = s]
           /\ status' = status
    BY <1>2 DEF Try, Goto
  <2>2. \A d \in Clients : Ok(d)' => Ok(d)
    BY <2>1, FailedNotOk
  <2> QED
    BY <1>2, <2>2 DEF Try
<1>3. CASE Send(c)
  BY <1>3 DEF Send, Goto, handlerVars, historyVars
<1>4. CASE Redirected(c)
  BY <1>4 DEF Redirected, Goto, historyVars
<1>5. CASE NotRedirected(c)
  <2>1. \A d \in Clients : Ok(d)' => Ok(d)
    BY <1>5, FailedNotOk DEF NotRedirected
  <2> QED
    BY <1>5, <2>1 DEF NotRedirected
<1>6. CASE LookupFails(c)
  BY <1>6 DEF LookupFails, Goto, handlerVars
<1>7. CASE Answered(c)
  BY <1>7 DEF Answered, Finish, Goto, historyVars
<1>8. CASE CallFails(c)
  <2>1. \A d \in Clients : Ok(d)' => Ok(d)
    BY <1>8, FailedNotOk DEF CallFails
  <2> QED
    BY <1>8, <2>1 DEF CallFails
<1> QED
  BY <1>1, <1>2, <1>3, <1>4, <1>5, <1>6, <1>7, <1>8 DEF Handler

LEMMA RemovalStep == TypeOK /\ RemovalInv /\ [Next]_vars => RemovalInv'
<1> SUFFICES ASSUME TypeOK, RemovalInv, [Next]_vars PROVE RemovalInv'
  OBVIOUS
<1> USE DEF RemovalInv, GoneInv, AnswerInv, OkInv, SomeRemoved
<1>1. ASSUME NEW c \in Clients,
             \/ Handler(c)
             \/ Redirected(c) \/ NotRedirected(c) \/ LookupFails(c)
             \/ Answered(c) \/ CallFails(c)
      PROVE  RemovalInv'
  <2>1. /\ UNCHANGED <<removed, version>>
        /\ trouble \subseteq trouble'
        /\ answered' \subseteq answered
        /\ \A d \in Clients : Ok(d)' => Ok(d) \/ (d = c /\ Answered(c))
    BY <1>1, HandlerShape
  <2>2. Answered(c) => <<c, "refused">> \in trouble \/ SomeRemoved
    BY DEF Answered, Call
  <2> QED
    BY <2>1, <2>2
<1>2. ASSUME NEW m \in net, Remove(m) PROVE RemovalInv'
  <2>1. removed'[m.client] # {} /\ m.client \in Clients
    <3>1. m.client \in Clients /\ removed \in [Clients -> SUBSET (1..MaxVersions)]
      BY <1>2 DEF TypeOK, Calls
    <3>2. removed' = [removed EXCEPT ![m.client] = @ \cup {version}]
      BY <1>2 DEF Remove
    <3> QED
      BY <3>1, <3>2
  <2> QED
    BY <2>1
<1>3. ASSUME NEW m \in net, Decline(m) PROVE RemovalInv'
  <2>1. /\ UNCHANGED <<pc, status, removed, version>>
        /\ trouble \subseteq trouble'
        /\ answered' \subseteq answered \cup {m}
        /\ version # Gone => <<m.client, "refused">> \in trouble'
    BY <1>3 DEF Decline, Answer, handlerVars
  <2> QED
    BY <2>1 DEF Ok
<1>4. CASE Upload
  <2>1. /\ version' # Gone
        /\ UNCHANGED <<pc, status, removed, trouble, answered>>
    BY <1>4 DEF Upload, TypeOK, Gone, handlerVars, historyVars
  <2> QED
    BY <2>1 DEF Ok
<1>5. CASE UNCHANGED vars
  BY <1>5 DEF vars, handlerVars, historyVars, Ok
<1> QED
  BY <1>1, <1>2, <1>3, <1>4, <1>5 DEF Next

\* OkNeedsRemoval: a reply ok follows a removal of the file, unless a server
\* refused this request, for any number of requests and retries.
THEOREM OkRemoved == Spec => []OkNeedsRemoval
<1>1. Init => RemovalInv
  BY DEF Init, RemovalInv, GoneInv, AnswerInv, OkInv, Ok, Gone
<1>2. RemovalInv => OkNeedsRemoval
  BY DEF RemovalInv, OkInv, OkNeedsRemoval, SomeRemoved
<1> QED
  BY <1>1, <1>2, RemovalStep, TypeCorrect, PTL DEF Spec

-----------------------------------------------------------------------------
(***************************************************************************)
(* RemovesOnceUnlessLost.  Until an answer is lost, a request sends one    *)
(* DELETE, which is on its way, or answered, while the request waits.      *)
(***************************************************************************)
HeardInv == \A m \in answered : pc[m.client] = "wait" /\ m = Call(m.client)

Quiet(c) == <<c, "lost">> \notin trouble

SentInv == \A m \in net : Quiet(m.client) =>
    /\ pc[m.client] = "wait" /\ m = Call(m.client)
    /\ m \notin answered
    /\ removed[m.client] = {}

FirstInv == \A c \in Clients : Quiet(c) =>
    /\ pc[c] \in {"start", "try", "lookup", "send"} => removed[c] = {}
    /\ \E v \in 1..MaxVersions : removed[c] \subseteq {v}

OnceInv == HeardInv /\ SentInv /\ FirstInv

\* A request that does not wait is between two of its DELETEs.
LEMMA BetweenStep ==
  ASSUME TypeOK, OnceInv, NEW c \in Clients,
         Begin(c) \/ Try(c) \/ Redirected(c) \/ NotRedirected(c) \/ LookupFails(c)
  PROVE  OnceInv'
<1> USE DEF TypeOK, OnceInv
<1>1. /\ pc[c] \in {"start", "try", "lookup"}
      /\ \E s \in {"try", "lookup", "send", "done", "panicked"} : pc' = [pc EXCEPT ![c] = s]
      /\ UNCHANGED <<net, answered, removed>>
      /\ \A d \in Clients \ {c} : retry'[d] = retry[d] /\ atVolume'[d] = atVolume[d]
      /\ \A d \in Clients : Quiet(d)' <=> Quiet(d)
  <2> USE DEF Quiet
  <2>1. CASE Begin(c)
    BY <2>1 DEF Begin, Finish, Goto, historyVars
  <2>2. CASE Try(c)
    <3>1. Failed(c) => /\ \E s \in {"try", "done"} : pc' = [pc EXCEPT ![c] = s]
                       /\ \A d \in Clients \ {c} : retry'[d] = retry[d]
      BY FailedShape
    <3>2. \/ Failed(c)
          \/ /\ \E s \in {"panicked", "send", "lookup"} : pc' = [pc EXCEPT ![c] = s]
             /\ retry' = retry
      BY <2>2 DEF Try, Goto
    <3> QED
      BY <2>2, <3>1, <3>2 DEF Try
  <2>3. CASE Redirected(c)
    BY <2>3 DEF Redirected, Goto, historyVars
  <2>4. CASE NotRedirected(c)
    <3>1. /\ \E s \in {"try", "done"} : pc' = [pc EXCEPT ![c] = s]
          /\ \A d \in Clients \ {c} : retry'[d] = retry[d]
      BY <2>4, FailedShape DEF NotRedirected
    <3> QED
      BY <2>4, <3>1 DEF NotRedirected
  <2>5. CASE LookupFails(c)
    BY <2>5 DEF LookupFails, Goto, handlerVars
  <2> QED
    BY <2>1, <2>2, <2>3, <2>4, <2>5
<1>2. \A d \in Clients \ {c} : pc'[d] = pc[d] /\ Call(d)' = Call(d)
  BY <1>1 DEF Call
<1>3. HeardInv'
  <2>1. \A m \in answered : m.client \in Clients \ {c}
    BY <1>1 DEF HeardInv, Calls
  <2> QED
    BY <1>1, <1>2, <2>1 DEF HeardInv
<1>4. SentInv'
  <2>1. \A m \in net : Quiet(m.client) => m.client \in Clients \ {c}
    BY <1>1 DEF SentInv, Calls
  <2>2. \A m \in net : m.client \in Clients
    BY DEF Calls
  <2> QED
    BY <1>1, <1>2, <2>1, <2>2 DEF SentInv
<1>5. FirstInv'
  BY <1>1 DEF FirstInv
<1> QED
  BY <1>3, <1>4, <1>5

LEMMA OnceStep == TypeOK /\ OnceInv /\ [Next]_vars => OnceInv'
<1> SUFFICES ASSUME TypeOK, OnceInv, [Next]_vars PROVE OnceInv'
  OBVIOUS
<1> USE DEF OnceInv
<1>0. /\ \A m \in net \cup answered : m.client \in Clients
      /\ pc \in [Clients -> {"start", "try", "lookup", "send", "wait"} \cup Finals]
      /\ removed \in [Clients -> SUBSET (1..MaxVersions)]
  BY DEF TypeOK, Calls
<1>1. ASSUME NEW c \in Clients, Send(c) PROVE OnceInv'
  <2>1. /\ pc[c] = "send"
        /\ pc' = [pc EXCEPT ![c] = "wait"]
        /\ net' = net \cup {Call(c)}
        /\ UNCHANGED <<answered, removed, retry, atVolume, trouble>>
    BY <1>1 DEF Send, Goto, handlerVars, historyVars
  <2>2. \A d : Call(d)' = Call(d) /\ (Quiet(d)' <=> Quiet(d))
    BY <2>1 DEF Call, Quiet
  <2>3. Call(c).client = c
    BY DEF Call
  <2>4. HeardInv'
    BY <1>0, <2>1, <2>2 DEF HeardInv
  <2>5. SentInv'
    <3>1. Quiet(c) => removed[c] = {} /\ Call(c) \notin answered
      BY <2>1, <2>3 DEF FirstInv, HeardInv
    <3>2. \A m \in net : Quiet(m.client) => m.client # c
      BY <2>1 DEF SentInv
    <3> QED
      BY <1>0, <2>1, <2>2, <2>3, <3>1, <3>2 DEF SentInv
  <2>6. FirstInv'
    BY <1>0, <2>1, <2>2 DEF FirstInv
  <2> QED
    BY <2>4, <2>5, <2>6
<1>2. ASSUME NEW c \in Clients, Answered(c) PROVE OnceInv'
  <2>1. /\ pc[c] = "wait"
        /\ Call(c) \in answered
        /\ pc' = [pc EXCEPT ![c] = "done"]
        /\ answered' = answered \ {Call(c)}
        /\ UNCHANGED <<net, removed, retry, atVolume, trouble>>
    BY <1>2 DEF Answered, Finish, Goto, historyVars
  <2>2. \A d : Call(d)' = Call(d) /\ (Quiet(d)' <=> Quiet(d))
    BY <2>1 DEF Call, Quiet
  <2>3. HeardInv'
    BY <1>0, <2>1, <2>2 DEF HeardInv
  <2>4. SentInv'
    <3>1. \A m \in net : Quiet(m.client) => m.client # c
      BY <2>1 DEF SentInv
    <3> QED
      BY <1>0, <2>1, <2>2, <3>1 DEF SentInv
  <2>5. FirstInv'
    BY <1>0, <2>1, <2>2 DEF FirstInv
  <2> QED
    BY <2>3, <2>4, <2>5
<1>3. ASSUME NEW c \in Clients, CallFails(c) PROVE OnceInv'
  <2>1. /\ \E s \in {"try", "done"} : pc' = [pc EXCEPT ![c] = s]
        /\ \A d \in Clients \ {c} : retry'[d] = retry[d]
    BY <1>3, FailedShape DEF CallFails, TypeOK
  <2>2. /\ trouble' = trouble \cup {<<c, "lost">>}
        /\ answered' = answered \ {Call(c)}
        /\ UNCHANGED <<net, removed, atVolume>>
    BY <1>3 DEF CallFails
  <2>3. /\ ~Quiet(c)'
        /\ \A d \in Clients \ {c} : /\ pc'[d] = pc[d] /\ Call(d)' = Call(d)
                                    /\ Quiet(d)' <=> Quiet(d)
    BY <1>0, <2>1, <2>2 DEF Call, Quiet
  <2>4. HeardInv'
    <3>1. \A m \in answered' : m.client \in Clients \ {c}
      BY <1>0, <2>2 DEF HeardInv
    <3> QED
      BY <2>2, <2>3, <3>1 DEF HeardInv
  <2>5. SentInv'
    BY <1>0, <2>2, <2>3 DEF SentInv
  <2>6. FirstInv'
    BY <2>2, <2>3 DEF FirstInv
  <2> QED
    BY <2>4, <2>5, <2>6
<1>4. ASSUME NEW m \in net, Remove(m) \/ Decline(m) PROVE OnceInv'
  <2>1. /\ net' = net \ {m}
        /\ answered' = IF Listening(m) THEN answered \cup {m} ELSE answered
        /\ UNCHANGED <<pc, retry, atVolume>>
        /\ \A d : Quiet(d)' <=> Quiet(d)
        /\ \/ removed' = removed
           \/ /\ version \in 1..MaxVersions
              /\ removed' = [removed EXCEPT ![m.client] = @ \cup {version}]
    <3>1. version # Gone => version \in 1..MaxVersions
      BY VersionsAssumption DEF TypeOK, Gone
    <3> QED
      BY <1>4, <3>1 DEF Remove, Decline, Answer, handlerVars, Quiet
  <2>2. \A d : Call(d)' = Call(d)
    BY <2>1 DEF Call
  <2>3. m.client \in Clients
    BY <1>0
  <2>4. HeardInv'
    BY <2>1, <2>2 DEF HeardInv, Listening
  <2>5. SentInv'
    <3> SUFFICES ASSUME NEW n \in net', Quiet(n.client)
                 PROVE  /\ pc[n.client] = "wait" /\ n = Call(n.client)
                        /\ n \notin answered'
                        /\ removed'[n.client] = {}
      BY <2>1, <2>2 DEF SentInv
    <3>1. n \in net /\ n # m /\ n.client \in Clients
      BY <1>0, <2>1
    <3>2. /\ pc[n.client] = "wait" /\ n = Call(n.client)
          /\ n \notin answered /\ removed[n.client] = {}
      BY <3>1 DEF SentInv
    <3>3. m.client # n.client
      BY <3>1, <3>2 DEF SentInv
    <3>4. removed'[n.client] = removed[n.client]
      BY <1>0, <2>1, <3>1, <3>3
    <3> QED
      BY <2>1, <3>1, <3>2, <3>4
  <2>6. FirstInv'
    <3> SUFFICES ASSUME NEW c \in Clients, Quiet(c)
                 PROVE  /\ pc[c] \in {"start", "try", "lookup", "send"} => removed'[c] = {}
                        /\ \E v \in 1..MaxVersions : removed'[c] \subseteq {v}
      BY <2>1 DEF FirstInv
    <3>1. CASE removed'[c] = removed[c]
      BY <3>1 DEF FirstInv
    <3>2. CASE removed'[c] # removed[c]
      <4>1. /\ c = m.client
            /\ version \in 1..MaxVersions
            /\ removed'[c] = removed[c] \cup {version}
        BY <1>0, <2>1, <2>3, <3>2
      <4>2. pc[c] = "wait" /\ removed[c] = {}
        BY <4>1 DEF SentInv
      <4> QED
        BY <4>1, <4>2
    <3> QED
      BY <3>1, <3>2
  <2> QED
    BY <2>4, <2>5, <2>6
<1>5. CASE Upload
  BY <1>5 DEF Upload, handlerVars, historyVars, HeardInv, SentInv, FirstInv, Quiet, Call
<1>6. CASE UNCHANGED vars
  BY <1>6 DEF vars, handlerVars, historyVars, HeardInv, SentInv, FirstInv, Quiet, Call
<1> QED
  BY <1>1, <1>2, <1>3, <1>4, <1>5, <1>6, BetweenStep DEF Next, Handler

\* RemovesOnceUnlessLost: only a request that lost an answer removes more than
\* one version of the file, for any number of requests and retries.
THEOREM RemovesOnce == Spec => []RemovesOnceUnlessLost
<1>1. Init => OnceInv
  <2> SUFFICES ASSUME Init PROVE OnceInv
    OBVIOUS
  <2>1. 1 \in 1..MaxVersions
    BY VersionsAssumption
  <2> QED
    BY <2>1 DEF Init, OnceInv, HeardInv, SentInv, FirstInv
<1>2. OnceInv => RemovesOnceUnlessLost
  <2> SUFFICES ASSUME OnceInv, NEW c \in Clients, Quiet(c)
               PROVE  ~(Cardinality(removed[c]) > 1)
    BY DEF RemovesOnceUnlessLost, Quiet
  <2>1. PICK v \in 1..MaxVersions : removed[c] \subseteq {v}
    BY DEF OnceInv, FirstInv
  <2>2. removed[c] = {} \/ removed[c] = {v}
    BY <2>1
  <2>3. Cardinality({}) = 0 /\ Cardinality({v}) = 1
    BY FS_EmptySet, FS_Singleton
  <2> QED
    BY <2>2, <2>3
<1> QED
  BY <1>1, <1>2, OnceStep, TypeCorrect, PTL DEF Spec

-----------------------------------------------------------------------------
(***************************************************************************)
(* FailoverComplete.  A request has turned to the servers of all rounds so *)
(* far, and every server of the type has a round (HitHasRound).            *)
(***************************************************************************)
GivenUp(c) == pc[c] = "done" /\ status[c] = 500

Rounds(c) == {r \in Nat : \/ r < retry[c] /\ pc[c] = "try"
                          \/ r <= retry[c] /\ (pc[c] \in {"lookup", "send", "wait"} \/ GivenUp(c))}

AskedInv == \A c \in Clients : req[c].path # "noslash" =>
    \A r \in Rounds(c) : getFileUrl(conf.weeds, isFiler(c), r) \in asked[c]

RetryInv == \A c \in Clients : /\ pc[c] = "start" => retry[c] = 0
                               /\ GivenUp(c) => retry[c] = conf.retry

FailoverInv == AskedInv /\ RetryInv

\* After a failure, the rounds so far are those before it and its own.
LEMMA FailedRounds ==
  ASSUME TypeOK, NEW c \in Clients, Failed(c), conf' = conf
  PROVE  /\ Rounds(c)' \subseteq {r \in Nat : r <= retry[c]}
         /\ \A d \in Clients \ {c} : Rounds(d)' = Rounds(d) /\ (GivenUp(d)' <=> GivenUp(d))
                                    /\ pc'[d] = pc[d] /\ retry'[d] = retry[d]
         /\ pc'[c] # "start"
         /\ GivenUp(c)' => retry'[c] = conf.retry
<1>1. retry[c] \in Nat /\ retry[c] \in 0..conf.retry
  BY CaseFacts DEF TypeOK, CaseInv
<1>2. CASE retry[c] < conf.retry
  <2>1. /\ pc' = [pc EXCEPT ![c] = "try"]
        /\ retry' = [retry EXCEPT ![c] = retry[c] + 1]
        /\ status' = status
    BY <1>1, <1>2, FailedShape
  <2> QED
    BY <1>1, <2>1 DEF Rounds, GivenUp, TypeOK
<1>3. CASE ~(retry[c] < conf.retry)
  <2>1. /\ retry[c] = conf.retry
        /\ pc' = [pc EXCEPT ![c] = "done"]
        /\ retry' = retry
        /\ status' = [status EXCEPT ![c] = 500]
    BY <1>1, <1>3, FailedShape
  <2> QED
    BY <1>1, <2>1 DEF Rounds, GivenUp, TypeOK
<1> QED
  BY <1>2, <1>3

LEMMA FailoverStep == TypeOK /\ FailoverInv /\ [Next]_vars => FailoverInv'
<1> SUFFICES ASSUME TypeOK, FailoverInv, [Next]_vars PROVE FailoverInv'
  OBVIOUS
<1> USE DEF FailoverInv
<1>0. /\ conf' = conf /\ req' = req
      /\ \A c \in Clients : isFiler(c)' = isFiler(c)
      /\ retry \in [Clients -> Nat]
      /\ conf.retry \in Nat
      /\ pc \in [Clients -> {"start", "try", "lookup", "send", "wait"} \cup Finals]
      /\ status \in [Clients -> {0, 200, 405, 406, 500}]
      /\ asked \in [Clients -> SUBSET (1..Len(conf.weeds))]
  <2>1. conf.retry \in Nat
    BY CaseFacts DEF TypeOK, CaseInv
  <2> QED
    BY <2>1, Fixed DEF TypeOK, isFiler
\* Whoever has no new rounds, and asked no fewer, keeps the first part.
<1>a. ASSUME \A c \in Clients : Rounds(c)' \subseteq Rounds(c) /\ asked[c] \subseteq asked'[c]
      PROVE  AskedInv'
  BY <1>0, <1>a DEF AskedInv
<1>b. ASSUME NEW c \in Clients, \/ Begin(c) \/ Redirected(c) \/ LookupFails(c)
                               \/ Send(c) \/ Answered(c)
      PROVE  FailoverInv'
  <2>1. UNCHANGED <<retry, asked>>
    BY <1>b DEF Begin, Redirected, LookupFails, Send, Answered, Finish, Goto,
                handlerVars, historyVars
  <2>2. \/ /\ pc[c] = "start"
           /\ \/ \E s \in {"try", "panicked"} : pc' = [pc EXCEPT ![c] = s] /\ status' = status
              \/ \E code \in {0, 405, 406} : /\ pc' = [pc EXCEPT ![c] = "done"]
                                             /\ status' = [status EXCEPT ![c] = code]
        \/ /\ pc[c] \in {"lookup", "send"}
           /\ \E s \in {"send", "wait"} : pc' = [pc EXCEPT ![c] = s] /\ status' = status
        \/ /\ pc' = [pc EXCEPT ![c] = "done"]
           /\ status' = [status EXCEPT ![c] = 200]
    BY <1>b DEF Begin, Redirected, LookupFails, Send, Answered, Finish, Goto, handlerVars
  <2>3. \A d \in Clients \ {c} : Rounds(d)' = Rounds(d) /\ (GivenUp(d)' <=> GivenUp(d)) /\ pc'[d] = pc[d]
    BY <1>0, <2>1, <2>2 DEF Rounds, GivenUp
  <2>4. ~GivenUp(c)' /\ pc'[c] # "start"
    BY <1>0, <2>2 DEF GivenUp, Finals
  <2>5. Rounds(c)' \subseteq Rounds(c)
    BY <1>0, <2>1, <2>2 DEF Rounds, GivenUp, RetryInv
  <2>6. AskedInv'
    BY <1>a, <2>1, <2>3, <2>5
  <2>7. RetryInv'
    BY <1>0, <2>1, <2>3, <2>4 DEF RetryInv
  <2> QED
    BY <2>6, <2>7
<1>c. ASSUME NEW c \in Clients, Failed(c), asked' = asked,
             req[c].path # "noslash" => pc[c] \in {"lookup", "wait"}
      PROVE  FailoverInv'
  <2>1. /\ Rounds(c)' \subseteq {r \in Nat : r <= retry[c]}
        /\ \A d \in Clients \ {c} : Rounds(d)' = Rounds(d) /\ (GivenUp(d)' <=> GivenUp(d))
                                   /\ pc'[d] = pc[d] /\ retry'[d] = retry[d]
        /\ pc'[c] # "start"
        /\ GivenUp(c)' => retry'[c] = conf.retry
    BY <1>0, <1>c, FailedRounds
  <2>2. pc[c] \in {"lookup", "wait"} => Rounds(c)' \subseteq Rounds(c)
    BY <2>1 DEF Rounds
  <2>3. ASSUME NEW d \in Clients, req[d].path # "noslash"
        PROVE  Rounds(d)' \subseteq Rounds(d)
    BY <1>c, <2>1, <2>2, <2>3
  <2>4. AskedInv'
    BY <1>0, <1>c, <2>3 DEF AskedInv
  <2>5. RetryInv'
    BY <1>0, <2>1 DEF RetryInv
  <2> QED
    BY <2>4, <2>5
<1>1. ASSUME NEW c \in Clients, Try(c) PROVE FailoverInv'
  <2>1. CASE Target(c) # Panic /\ req[c].path = "noslash"
    BY <1>1, <1>c, <2>1 DEF Try
  <2>2. CASE Target(c) = Panic
    <3>1. /\ pc' = [pc EXCEPT ![c] = "panicked"]
          /\ UNCHANGED <<retry, status, asked>>
      BY <1>1, <2>2 DEF Try, Goto
    <3>2. \A d \in Clients : /\ Rounds(d)' \subseteq Rounds(d)
                             /\ GivenUp(d)' => GivenUp(d)
                             /\ pc'[d] = "start" => pc[d] = "start"
      BY <1>0, <3>1 DEF Rounds, GivenUp
    <3>3. AskedInv'
      BY <1>a, <3>1, <3>2
    <3>4. RetryInv'
      BY <1>0, <3>1, <3>2 DEF RetryInv
    <3> QED
      BY <3>3, <3>4
  <2>3. CASE Target(c) # Panic /\ req[c].path # "noslash"
    <3>1. /\ pc[c] = "try"
          /\ \E s \in {"send", "lookup"} : pc' = [pc EXCEPT ![c] = s]
          /\ asked' = [asked EXCEPT ![c] = @ \cup {Target(c)}]
          /\ UNCHANGED <<retry, status>>
      BY <1>1, <2>3 DEF Try, Goto
    <3>2. \A d \in Clients \ {c} : Rounds(d)' = Rounds(d) /\ asked'[d] = asked[d]
      BY <1>0, <3>1 DEF Rounds, GivenUp
    <3>3. Rounds(c)' \subseteq Rounds(c) \cup {retry[c]}
      <4>1. retry[c] \in Nat /\ retry'[c] = retry[c] /\ ~GivenUp(c)'
        BY <1>0, <3>1 DEF GivenUp
      <4>2. \A r \in Rounds(c)' : r \in Nat /\ r <= retry[c]
        BY <4>1 DEF Rounds
      <4>3. \A r \in Nat : r < retry[c] => r \in Rounds(c)
        BY <3>1 DEF Rounds
      <4> QED
        BY <4>1, <4>2, <4>3
    <3>4. asked'[c] = asked[c] \cup {getFileUrl(conf.weeds, isFiler(c), retry[c])}
      BY <1>0, <3>1 DEF Target
    <3>5. AskedInv'
      BY <1>0, <3>2, <3>3, <3>4 DEF AskedInv
    <3>6. RetryInv'
      BY <1>0, <3>1 DEF RetryInv, GivenUp
    <3> QED
      BY <3>5, <3>6
  <2> QED
    BY <2>1, <2>2, <2>3
<1>2. ASSUME NEW c \in Clients, NotRedirected(c) \/ CallFails(c) PROVE FailoverInv'
  BY <1>2, <1>c DEF NotRedirected, CallFails
<1>3. CASE (\E m \in net : Remove(m) \/ Decline(m)) \/ Upload \/ UNCHANGED vars
  <2>1. UNCHANGED <<pc, retry, status, asked>>
    BY <1>3 DEF Remove, Decline, Upload, vars, handlerVars, historyVars
  <2> QED
    BY <1>0, <1>a, <2>1 DEF Rounds, GivenUp, RetryInv
<1> QED
  BY <1>b, <1>1, <1>2, <1>3 DEF Next, Handler

\* FailoverComplete (Delete): a deletion is given up only after every weed of
\* its type was turned to, if there are no more of them than attempts.
THEOREM Failover == Spec => []FailoverComplete
<1>1. Init => FailoverInv
  BY DEF Init, FailoverInv, AskedInv, RetryInv, Rounds, GivenUp
<1>2. TypeOK /\ FailoverInv => FailoverComplete
  <2> SUFFICES ASSUME TypeOK, FailoverInv, NEW c \in Clients, GivenUp(c),
                      req[c].path # "noslash", Len(conf.weeds) > 1,
                      NEW hits, hits = OfType(conf.weeds, TypeFor(isFiler(c))),
                      Cardinality(hits) <= conf.retry + 1, NEW i \in hits
               PROVE  i \in asked[c]
    BY DEF FailoverComplete, GivenUp
  <2>0. CaseInv
    BY DEF TypeOK, CaseInv
  <2>1. PICK r \in 0..(Cardinality(hits) - 1) : getFileUrl(conf.weeds, isFiler(c), r) = i
    BY <2>0, CaseFacts, HitHasRound
  <2>2. Cardinality(hits) \in Nat
    BY <2>0, CaseFacts, HitsFinite
  <2>3. r \in Rounds(c)
    <3>1. retry[c] = conf.retry /\ conf.retry \in Nat
      BY <2>0, CaseFacts DEF FailoverInv, RetryInv
    <3>2. r \in Nat /\ r <= retry[c]
      BY <2>1, <2>2, <3>1
    <3> QED
      BY <3>2 DEF Rounds
  <2> QED
    BY <2>1, <2>3 DEF FailoverInv, AskedInv
<1> QED
  BY <1>1, <1>2, FailoverStep, TypeCorrect, PTL DEF Spec
=============================================================================
