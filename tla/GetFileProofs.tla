---------------------------- MODULE GetFileProofs ----------------------------
(***************************************************************************)
(* The safety of one GET, for every configuration, request, body length    *)
(* and number of retries.                                                  *)
(***************************************************************************)
EXTENDS GetFile, WeedsProofs

Errors == {"nil", "notfound", "failed"}

Piece == [attempt : Nat, n : 1..MaxLen, whole : BOOLEAN]

Lengths == {NoLen} \cup 0..MaxLen
Codes   == {0, 200, 404, 405, 500}

Writers == [lengthHdr : Lengths, wrote : BOOLEAN, status : Codes,
            declared : Lengths, written : Nat, body : Seq(Piece)]

\* What a typed state says of its configuration.
LEMMA ConfFacts ==
  ASSUME TypeOK
  PROVE  /\ conf.weeds \in Seq(WeedTypes)
         /\ conf.shadows \in Seq(WeedTypes)
         /\ conf.retry \in Nat
         /\ retry \in Nat
         /\ shadowRetry \in Nat
         /\ isFiler \in BOOLEAN
         /\ out \in Writers
  BY ConfigsAssumption DEF TypeOK, isFiler, Writers, Lengths, Codes, Piece

\* The two choices of a server, in a typed state.
LEMMA TargetFacts ==
  ASSUME TypeOK
  PROVE  /\ Target \in {Panic} \cup 1..Len(conf.weeds)
         /\ Target = Panic => \/ Len(conf.weeds) = 0
                              \/ /\ Len(conf.weeds) > 1
                                 /\ OfType(conf.weeds, TypeFor(isFiler)) = {}
         /\ ShadowTarget = Panic => Len(conf.shadows) = 0
         /\ ShadowTarget = NoWeed
              => /\ Len(conf.shadows) > 1
                 /\ OfType(conf.shadows, TypeFor(isFiler)) = {}
<1> USE ConfFacts
<1>1. /\ Target \in {Panic} \cup 1..Len(conf.weeds)
      /\ Target = Panic => \/ Len(conf.weeds) = 0
                           \/ /\ Len(conf.weeds) > 1
                              /\ OfType(conf.weeds, TypeFor(isFiler)) = {}
  BY ChooseResult DEF Target
<1>2. /\ ShadowTarget = Panic => Len(conf.shadows) = 0
      /\ ShadowTarget = NoWeed
           => /\ Len(conf.shadows) > 1
              /\ OfType(conf.shadows, TypeFor(isFiler)) = {}
  BY ChooseResult DEF ShadowTarget, getShadowFileUrl
<1> QED
  BY <1>1, <1>2

\* Writing the status line gives a writer again.
LEMMA HeaderType ==
  ASSUME MaxLen \in Nat, NEW w \in Writers, NEW code \in {200, 404, 405, 500}
  PROVE  WriteHeader(w, code) \in Writers
<1>1. code \in Codes /\ w.lengthHdr \in Lengths
  BY DEF Codes, Writers
<1>2. [w EXCEPT !.wrote = TRUE, !.status = code, !.declared = w.lengthHdr] \in Writers
  BY <1>1 DEF Writers
<1> QED
  BY <1>2 DEF WriteHeader

\* A copy meets a typed writer and leaves one, and no more arrives at the
\* client than came from the server.
LEMMA CopyType ==
  ASSUME TypeOK, NEW a \in Answers, NEW n \in Accepts(Ready(a), a)
  PROVE  /\ Ready(a) \in Writers
         /\ n \in 0..MaxLen
         /\ n <= a.sent
         /\ Put(Ready(a), a, n) \in Writers
<1> DEFINE w == Ready(a)
<1>1. /\ a.len \in 0..MaxLen
      /\ a.sent \in 0..MaxLen
      /\ a.declared \in BOOLEAN
      /\ MaxLen \in Nat
  BY MaxLenAssumption DEF Answers
<1>2. AddHeaders(out, a) \in Writers
  <2>1. a.len \in Lengths
    BY <1>1 DEF Lengths
  <2> QED
    BY <2>1, ConfFacts DEF AddHeaders, Writers
<1>3. w \in Writers
  BY <1>1, <1>2, HeaderType DEF Ready
<1> HIDE DEF w
<1>4. Room(w) \in 0..MaxLen
  BY <1>1, <1>3 DEF Room, Writers, Lengths, NoLen
<1>5. n \in 0..MaxLen /\ n <= a.sent
  BY <1>1, <1>4 DEF Accepts, w
<1>6. Put(w, a, n) \in Writers
  <2>1. CASE a.sent = 0
    BY <1>3, <2>1 DEF Put
  <2>2. CASE a.sent # 0
    <3> DEFINE piece == [attempt |-> retry, n |-> n, whole |-> Whole(a) /\ n = a.sent]
               body  == IF n = 0 THEN w.body ELSE Append(w.body, piece)
               count == IF n = a.sent THEN w.written + n ELSE w.declared + 1
    <3>1. n # 0 => piece \in Piece
      BY <1>1, <1>5, ConfFacts DEF Piece, Whole
    <3>2. w.body \in Seq(Piece)
      BY <1>3 DEF Writers
    <3>3. body \in Seq(Piece)
      <4> HIDE DEF piece
      <4> QED
        BY <3>1, <3>2
    <3>4. count \in Nat
      BY <1>1, <1>3, <1>5 DEF Writers, Lengths, NoLen
    <3>5. Put(w, a, n) = [w EXCEPT !.written = count, !.body = body]
      BY <2>2 DEF Put
    <3> HIDE DEF body, count
    <3> QED
      BY <1>3, <3>3, <3>4, <3>5 DEF Writers
  <2> QED
    BY <2>1, <2>2
<1> QED
  BY <1>3, <1>5, <1>6 DEF w

-----------------------------------------------------------------------------
(***************************************************************************)
(* Type correctness.                                                       *)
(***************************************************************************)
\* TypeOK with the writers named.
Types == /\ conf \in Configs
         /\ req \in Requests
         /\ pc \in Stages
         /\ retry \in 0..conf.retry
         /\ shadowRetry \in 0..conf.retry
         /\ err \in Errors
         /\ answer \in SUBSET Answers
         /\ out \in Writers
         /\ asked \subseteq 1..Len(conf.weeds)
         /\ shadowAsked \in Nat
         /\ seen \subseteq {"missing", "blank", "cut", "page"}

LEMMA TypesIsTypeOK == TypeOK <=> Types
  BY DEF TypeOK, Types, Writers, Lengths, Codes, Piece, Errors

\* Returning from download keeps the counters in range.
LEMMA ReturnType ==
  ASSUME TypeOK, NEW e \in Errors, Return(e)
  PROVE  /\ err' = e
         /\ answer' = {}
         /\ retry' \in 0..conf.retry
         /\ pc' \in {"primary", "reply"}
  BY ConfFacts DEF Return, TypeOK

LEMMA InitType == Init => TypeOK
<1> SUFFICES ASSUME Init PROVE Types
  BY TypesIsTypeOK
<1>1. conf.retry \in Nat
  BY ConfigsAssumption DEF Init
<1>2. NewWriter \in Writers
  BY DEF NewWriter, Writers, Lengths, Codes
<1> QED
  BY <1>1, <1>2 DEF Init, Types, Stages, Errors

LEMMA NextType == TypeOK /\ [Next]_vars => TypeOK'
<1> SUFFICES ASSUME TypeOK, [Next]_vars PROVE TypeOK'
  OBVIOUS
<1> SUFFICES Types'
  BY TypesIsTypeOK, PTL
<1>a. Types
  BY TypesIsTypeOK
<1>b. conf.retry \in Nat /\ out \in Writers /\ MaxLen \in Nat
  BY ConfFacts, MaxLenAssumption
<1> USE <1>a DEF Types
<1>1. CASE AccessPanics \/ DenyAccess
  BY <1>1 DEF AccessPanics, DenyAccess, Stages
<1>2. CASE RefuseMethod
  <2>1. out' \in Writers
    BY <1>2, <1>b, HeaderType DEF RefuseMethod
  <2> QED
    BY <1>2, <2>1 DEF RefuseMethod, Stages
<1>3. CASE Accept
  BY <1>3 DEF Accept, Stages
<1>4. CASE AskWeed
  <2>1. Target \in 1..Len(conf.weeds)
    BY <1>4, TargetFacts DEF AskWeed
  <2> QED
    BY <1>4, <2>1 DEF AskWeed, Stages
<1>5. CASE NoWeedPanics
  BY <1>5 DEF NoWeedPanics, Stages
<1>6. CASE WeedFails
  <2>1. CASE retry < conf.retry
    BY <1>6, <1>b, <2>1, ReturnType DEF WeedFails, Stages, Errors
  <2>2. CASE ~(retry < conf.retry)
    BY <1>6, <1>b, <2>2 DEF WeedFails, Stages
  <2> QED
    BY <2>1, <2>2
<1>7. CASE WeedAnswers
  BY <1>7 DEF WeedAnswers, Stages
<1>8. CASE WeedMisses
  <2>1. CASE ShadowAccess
    BY <1>8, <1>b, <2>1 DEF WeedMisses, Stages
  <2>2. CASE ~ShadowAccess
    BY <1>8, <1>b, <2>2, ReturnType DEF WeedMisses, Stages, Errors
  <2> QED
    BY <2>1, <2>2
<1>9. CASE AskShadow
  BY <1>9 DEF AskShadow, Stages
<1>10. ASSUME NEW e \in {"notfound", "failed"}, ShadowFailed(e),
              UNCHANGED <<conf, req, out, asked, shadowAsked, seen>>
       PROVE  Types'
  <2>1. CASE shadowRetry < conf.retry
    BY <1>10, <1>b, <2>1 DEF ShadowFailed, Stages
  <2>2. CASE ~(shadowRetry < conf.retry)
    BY <1>10, <1>b, <2>2, ReturnType DEF ShadowFailed, Stages, Errors
  <2> QED
    BY <2>1, <2>2
<1>11. CASE NoShadow
  BY <1>10, <1>11 DEF NoShadow
<1>12. CASE NoShadowPanics
  BY <1>12 DEF NoShadowPanics, Stages
<1>13. CASE ShadowFails
  BY <1>10, <1>13 DEF ShadowFails
<1>14. CASE ShadowAnswers
  BY <1>14 DEF ShadowAnswers, Stages
<1>15. CASE Copy
  <2>1. PICK a \in answer : \E n \in Accepts(Ready(a), a) :
             /\ out' = Put(Ready(a), a, n)
             /\ seen' = seen \cup Marks(a, n)
             /\ Return(Verdict(a, n))
    BY <1>15 DEF Copy
  <2>2. PICK n \in Accepts(Ready(a), a) :
             /\ out' = Put(Ready(a), a, n)
             /\ seen' = seen \cup Marks(a, n)
             /\ Return(Verdict(a, n))
    BY <2>1
  <2>3. a \in Answers
    OBVIOUS
  <2>4. out' \in Writers
    BY <2>2, <2>3, CopyType
  <2>5. Verdict(a, n) \in Errors
    BY DEF Verdict, Errors
  <2>6. /\ err' \in Errors
        /\ answer' = {}
        /\ retry' \in 0..conf.retry
        /\ pc' \in {"primary", "reply"}
    BY <2>2, <2>5, ReturnType
  <2>7. seen' \subseteq {"missing", "blank", "cut", "page"}
    BY <2>2 DEF Marks
  <2> QED
    BY <1>15, <2>4, <2>6, <2>7 DEF Copy, Stages
<1>16. CASE Reply
  <2>1. StatusOf(err) \in {200, 404, 405, 500}
    BY DEF StatusOf, Errors
  <2>2. out' \in Writers
    BY <1>16, <1>b, <2>1, HeaderType DEF Reply
  <2> QED
    BY <1>16, <2>2 DEF Reply, Stages
<1>17. CASE UNCHANGED vars
  BY <1>17 DEF vars
<1> QED
  BY <1>1, <1>2, <1>3, <1>4, <1>5, <1>6, <1>7, <1>8, <1>9, <1>11, <1>12,
     <1>13, <1>14, <1>15, <1>16, <1>17 DEF Next, Handler, Servers

(***************************************************************************)
(* Every variable keeps its type, and both retry counters stay within the  *)
(* configured number of retries.                                           *)
(***************************************************************************)
THEOREM TypeCorrect == Spec => []TypeOK
  BY InitType, NextType, PTL DEF Spec

-----------------------------------------------------------------------------
(***************************************************************************)
(* What one GET promises about panics, about 404 and about failing over,   *)
(* for every configuration, request, body length and number of retries.    *)
(***************************************************************************)
\* The request and the configuration do not change.
LEMMA Fixed ==
  ASSUME [Next]_vars
  PROVE  conf' = conf /\ req' = req /\ isFiler' = isFiler /\ Checked' = Checked
<1>1. conf' = conf /\ req' = req
  BY DEF Next, Handler, Servers, vars, AccessPanics, DenyAccess, RefuseMethod, Accept,
         AskWeed, NoWeedPanics, WeedFails, WeedAnswers, WeedMisses, AskShadow,
         NoShadow, NoShadowPanics, ShadowFails, ShadowAnswers, Copy, Reply
<1> QED
  BY <1>1 DEF isFiler, Checked

\* The two ways download may return to getFileHandler.
LEMMA ReturnShape ==
  ASSUME TypeOK, NEW e, Return(e)
  PROVE  /\ err' = e
         /\ \/ /\ e # "nil" /\ retry < conf.retry
               /\ retry' = retry + 1 /\ pc' = "primary"
            \/ /\ e # "nil" => retry = conf.retry
               /\ retry' = retry /\ pc' = "reply"
  BY ConfFacts DEF Return, TypeOK

\* The ways it may go on after a shadow failed.
LEMMA ShadowFailedShape ==
  ASSUME TypeOK, NEW e, ShadowFailed(e)
  PROVE  \/ /\ shadowRetry < conf.retry /\ shadowRetry' = shadowRetry + 1
            /\ pc' = "shadow" /\ UNCHANGED <<retry, err>>
         \/ /\ shadowRetry = conf.retry /\ shadowRetry' = shadowRetry
            /\ Return(e)
  BY ConfFacts DEF ShadowFailed, TypeOK

\* What a copy does to the counters and to the history.
LEMMA CopyShape ==
  ASSUME TypeOK, Copy
  PROVE  \E a \in Answers : \E n \in Accepts(Ready(a), a) :
           /\ out' = Put(Ready(a), a, n)
           /\ n = 0 => "blank" \in seen'
           /\ ~Whole(a) => "cut" \in seen'
           /\ seen \subseteq seen'
           /\ Return(Verdict(a, n))
<1>1. answer \subseteq Answers
  BY DEF TypeOK
<1>2. PICK a \in answer : \E n \in Accepts(Ready(a), a) :
             /\ out' = Put(Ready(a), a, n)
             /\ seen' = seen \cup Marks(a, n)
             /\ Return(Verdict(a, n))
  BY DEF Copy
<1> QED
  BY <1>1, <1>2 DEF Marks

-----------------------------------------------------------------------------
(***************************************************************************)
(* Panics.  The inductive invariant says when the shadows are walked       *)
(* without there being any, in the last round only, and that no server is  *)
(* asked before the check of the caller.                                   *)
(***************************************************************************)
ShadowInv == pc \in {"shadow", "shadowWait"} /\ Len(conf.shadows) = 0
                => retry = conf.retry

UnaskedInv == pc = "start" => asked = {}

PanicInv == ShadowInv /\ UnaskedInv /\ PanicsHaveCause

LEMMA PanicStep == TypeOK /\ PanicInv /\ [Next]_vars => PanicInv'
<1> SUFFICES ASSUME TypeOK, PanicInv, [Next]_vars PROVE PanicInv'
  OBVIOUS
<1> USE Fixed, ConfFacts DEF PanicInv, ShadowInv, UnaskedInv, PanicsHaveCause
<1>0. retry \in 0..conf.retry
  BY DEF TypeOK
<1>1. CASE AccessPanics \/ DenyAccess \/ RefuseMethod \/ Accept
  BY <1>1 DEF AccessPanics, CheckPanics, DenyAccess, RefuseMethod, Accept
<1>2. CASE AskWeed \/ WeedAnswers \/ AskShadow \/ ShadowAnswers \/ Reply
  BY <1>2 DEF AskWeed, WeedAnswers, AskShadow, ShadowAnswers, Reply
<1>3. CASE NoWeedPanics
  BY <1>3, TargetFacts DEF NoWeedPanics
<1>4. CASE NoShadowPanics
  BY <1>4, TargetFacts DEF NoShadowPanics
<1>5. CASE WeedFails
  BY <1>0, <1>5, ReturnShape DEF WeedFails
<1>6. CASE WeedMisses
  BY <1>6, ReturnShape DEF WeedMisses, ShadowAccess
<1>7. CASE NoShadow
  BY <1>7, ShadowFailedShape, ReturnShape DEF NoShadow
<1>8. CASE ShadowFails
  BY <1>8, ShadowFailedShape, ReturnShape DEF ShadowFails
<1>9. CASE Copy
  BY <1>9, CopyShape, ReturnShape
<1>10. CASE UNCHANGED vars
  BY <1>10 DEF vars
<1> QED
  BY <1>1, <1>2, <1>3, <1>4, <1>5, <1>6, <1>7, <1>8, <1>9, <1>10
     DEF Next, Handler, Servers

(***************************************************************************)
(* A panic comes from isAccessible before any server is asked, from        *)
(* getFileUrl without a weed of the type, or from getShadowFileUrl without *)
(* shadows after the last attempt of download; from nothing else.          *)
(***************************************************************************)
THEOREM Panics == Spec => []PanicsHaveCause
<1>1. Init => PanicInv
  BY DEF Init, PanicInv, ShadowInv, UnaskedInv, PanicsHaveCause
<1>2. PanicInv => PanicsHaveCause
  BY DEF PanicInv
<1> QED
  BY <1>1, <1>2, PanicStep, TypeCorrect, PTL DEF Spec

-----------------------------------------------------------------------------
(***************************************************************************)
(* 404.  Its evidence is there as soon as the error is, and the status     *)
(* line of the reply is that of the error unless a copy has sent 200.      *)
(***************************************************************************)
Evidence == \/ seen \cap {"missing", "blank"} # {}
            \/ /\ Len(conf.shadows) > 1
               /\ OfType(conf.shadows, TypeFor(isFiler)) = {}

EvidenceInv == err = "notfound" => Evidence

\* getFileHandler's loop still runs: what the writer holds came from copies.
Trying == pc \notin {"refused", "done"}

StatusInv == /\ ~out.wrote => out.status = 0
             /\ Trying /\ out.wrote => out.status = 200
             /\ pc = "done" => out.status \in {200, StatusOf(err)}
             /\ pc = "refused" => out.status # 404

NotFoundInv == EvidenceInv /\ StatusInv

\* A status line that a copy sends is 200.
LEMMA CopyStatus ==
  ASSUME TypeOK, StatusInv, Trying, NEW a \in Answers, NEW n \in Accepts(Ready(a), a)
  PROVE  LET w == Put(Ready(a), a, n)
         IN  IF w.wrote THEN w.status = 200 ELSE w.status = 0
<1> DEFINE w == Ready(a)
<1>1. w \in Writers /\ Put(w, a, n) \in Writers
  BY CopyType
<1>2. IF w.wrote THEN w.status = 200 ELSE w.status = 0
  <2>a. out \in Writers /\ a.len \in Lengths
    BY ConfFacts, MaxLenAssumption DEF Answers, Lengths
  <2>1. AddHeaders(out, a) \in Writers
    <3>1. [out EXCEPT !.lengthHdr = a.len] \in Writers
      BY <2>a DEF Writers
    <3> QED
      BY <2>a, <3>1 DEF AddHeaders
  <2>2. /\ AddHeaders(out, a).wrote = out.wrote
        /\ AddHeaders(out, a).status = out.status
    BY ConfFacts DEF AddHeaders, Writers
  <2> QED
    BY <2>1, <2>2, ConfFacts DEF Ready, WriteHeader, StatusInv, Writers
<1> HIDE DEF w
<1>3. /\ Put(w, a, n).wrote = w.wrote
      /\ Put(w, a, n).status = w.status
  BY <1>1 DEF Put, Writers
<1> QED
  BY <1>2, <1>3 DEF w

\* The status line of the reply, after copies or without any.
LEMMA HeaderStatus ==
  ASSUME NEW w \in Writers, NEW code \in {200, 404, 405, 500}
  PROVE  /\ WriteHeader(w, code).wrote
         /\ WriteHeader(w, code).status = IF w.wrote THEN w.status ELSE code
  BY DEF WriteHeader, Writers

LEMMA EvidenceStep == TypeOK /\ EvidenceInv /\ [Next]_vars => EvidenceInv'
<1> SUFFICES ASSUME TypeOK, EvidenceInv, [Next]_vars PROVE EvidenceInv'
  OBVIOUS
<1>0. seen \subseteq seen' => (Evidence => Evidence')
  BY Fixed DEF Evidence
<1> USE DEF EvidenceInv
<1>1. CASE AccessPanics \/ DenyAccess \/ RefuseMethod \/ Accept \/ NoWeedPanics \/ NoShadowPanics
  BY <1>0, <1>1 DEF AccessPanics, DenyAccess, RefuseMethod, Accept, NoWeedPanics, NoShadowPanics
<1>2. CASE AskWeed \/ WeedAnswers \/ AskShadow \/ ShadowAnswers \/ Reply
  BY <1>0, <1>2 DEF AskWeed, WeedAnswers, AskShadow, ShadowAnswers, Reply
<1>3. CASE WeedFails
  BY <1>0, <1>3, ReturnShape DEF WeedFails
<1>4. CASE WeedMisses
  BY <1>4 DEF WeedMisses, Evidence
<1>5. CASE NoShadow
  <2>1. Evidence
    BY <1>5, TargetFacts DEF NoShadow, Evidence
  <2> QED
    BY <1>0, <1>5, <2>1 DEF NoShadow
<1>6. CASE ShadowFails
  BY <1>0, <1>6, ShadowFailedShape, ReturnShape DEF ShadowFails
<1>7. CASE Copy
  <2>a. PICK a \in Answers : \E n \in Accepts(Ready(a), a) :
           /\ n = 0 => "blank" \in seen'
           /\ Return(Verdict(a, n))
    BY <1>7, CopyShape
  <2>1. PICK n \in Accepts(Ready(a), a) :
           /\ n = 0 => "blank" \in seen'
           /\ Return(Verdict(a, n))
    BY <2>a
  <2>2. err' = "notfound" => n = 0
    BY <2>1, ReturnShape DEF Verdict
  <2> QED
    BY <2>1, <2>2 DEF Evidence
<1>8. CASE UNCHANGED vars
  BY <1>0, <1>8 DEF vars
<1> QED
  BY <1>1, <1>2, <1>3, <1>4, <1>5, <1>6, <1>7, <1>8 DEF Next, Handler, Servers

LEMMA StatusStep == TypeOK /\ StatusInv /\ [Next]_vars => StatusInv'
<1> SUFFICES ASSUME TypeOK, StatusInv, [Next]_vars PROVE StatusInv'
  OBVIOUS
<1>0. err \in Errors /\ pc \in Stages
  BY DEF TypeOK, Errors
<1> USE DEF StatusInv, Trying
<1>1. CASE AccessPanics \/ DenyAccess \/ Accept \/ NoWeedPanics \/ NoShadowPanics
  BY <1>1 DEF AccessPanics, DenyAccess, Accept, NoWeedPanics, NoShadowPanics
<1>2. CASE AskWeed \/ WeedAnswers \/ AskShadow \/ ShadowAnswers
  BY <1>2 DEF AskWeed, WeedAnswers, AskShadow, ShadowAnswers
<1>3. CASE WeedFails
  BY <1>3, ReturnShape DEF WeedFails
<1>4. CASE WeedMisses
  BY <1>4, ReturnShape DEF WeedMisses
<1>5. CASE NoShadow
  BY <1>5, ShadowFailedShape, ReturnShape DEF NoShadow
<1>6. CASE ShadowFails
  BY <1>6, ShadowFailedShape, ReturnShape DEF ShadowFails
<1>7. CASE Copy
  <2>a. PICK a \in Answers : \E n \in Accepts(Ready(a), a) :
           /\ out' = Put(Ready(a), a, n)
           /\ Return(Verdict(a, n))
    BY <1>7, CopyShape
  <2>1. PICK n \in Accepts(Ready(a), a) :
           /\ out' = Put(Ready(a), a, n)
           /\ Return(Verdict(a, n))
    BY <2>a
  <2>2. IF out'.wrote THEN out'.status = 200 ELSE out'.status = 0
    BY <1>7, <2>1, CopyStatus DEF Copy
  <2>3. pc' \in {"primary", "reply"}
    BY <2>1, ReturnShape
  <2> QED
    BY <2>2, <2>3
<1>8. CASE Reply
  BY <1>0, <1>8, HeaderStatus, ConfFacts DEF Reply, StatusOf, Errors
<1>9. CASE RefuseMethod
  BY <1>9, HeaderStatus, ConfFacts DEF RefuseMethod
<1>10. CASE UNCHANGED vars
  BY <1>10 DEF vars
<1> QED
  BY <1>1, <1>2, <1>3, <1>4, <1>5, <1>6, <1>7, <1>8, <1>9, <1>10
     DEF Next, Handler, Servers

(***************************************************************************)
(* getFileHandler tells 404 only on evidence; servers out of reach never   *)
(* make a file "not found".                                                *)
(***************************************************************************)
THEOREM NotFound == Spec => []NotFoundHasEvidence
<1>1. Init => NotFoundInv
  BY DEF Init, NotFoundInv, EvidenceInv, StatusInv, Trying, NewWriter
<1>2. TypeOK /\ NotFoundInv => NotFoundHasEvidence
  BY DEF NotFoundInv, EvidenceInv, Evidence, StatusInv, NotFoundHasEvidence,
         StatusOf, TypeOK
<1>3. TypeOK /\ NotFoundInv /\ [Next]_vars => NotFoundInv'
  BY EvidenceStep, StatusStep DEF NotFoundInv
<1> QED
  BY <1>1, <1>2, <1>3, TypeCorrect, PTL DEF Spec

-----------------------------------------------------------------------------
(***************************************************************************)
(* Failing over.  A weed of every round so far was asked, and the loop     *)
(* ends without success in the last round only.                            *)
(***************************************************************************)
Rounds == IF pc \in {"start", "denied", "refused", "primary", "panicked"}
          THEN 0..(retry - 1) ELSE 0..retry

AskedInv == \A r \in Rounds : getFileUrl(conf.weeds, isFiler, r) \in asked

GiveUpInv == pc \in {"reply", "done"} /\ err # "nil" => retry = conf.retry

FailoverInv == AskedInv /\ GiveUpInv

LEMMA FailoverStep == TypeOK /\ FailoverInv /\ [Next]_vars => FailoverInv'
<1> SUFFICES ASSUME TypeOK, FailoverInv, [Next]_vars PROVE FailoverInv'
  OBVIOUS
<1>0. retry \in 0..conf.retry /\ conf.retry \in Nat
  BY ConfFacts DEF TypeOK
<1>a. Rounds' \subseteq Rounds /\ asked \subseteq asked' => AskedInv'
  BY Fixed DEF FailoverInv, AskedInv
<1> USE DEF FailoverInv, GiveUpInv, Rounds
<1>1. CASE AccessPanics \/ DenyAccess \/ RefuseMethod \/ Accept
  BY <1>0, <1>1, <1>a, Fixed DEF AccessPanics, DenyAccess, RefuseMethod, Accept
<1>2. CASE NoWeedPanics \/ NoShadowPanics
  BY <1>0, <1>2, <1>a, Fixed DEF NoWeedPanics, NoShadowPanics
<1>3. CASE AskWeed
  <2>1. AskedInv'
    <3> SUFFICES ASSUME NEW r \in Rounds'
                 PROVE  getFileUrl(conf.weeds, isFiler, r) \in asked'
      BY Fixed DEF AskedInv
    <3>1. r = retry \/ r \in Rounds
      BY <1>0, <1>3 DEF AskWeed
    <3> QED
      BY <1>3, <3>1 DEF AskWeed, AskedInv, Target
  <2> QED
    BY <1>3, <2>1 DEF AskWeed
<1>4. CASE WeedAnswers \/ AskShadow \/ ShadowAnswers \/ Reply
  BY <1>0, <1>4, <1>a, Fixed DEF WeedAnswers, AskShadow, ShadowAnswers, Reply
<1>5. CASE WeedFails
  BY <1>0, <1>5, <1>a, Fixed, ReturnShape DEF WeedFails
<1>6. CASE WeedMisses
  BY <1>0, <1>6, <1>a, Fixed, ReturnShape DEF WeedMisses
<1>7. CASE NoShadow
  BY <1>0, <1>7, <1>a, Fixed, ShadowFailedShape, ReturnShape DEF NoShadow
<1>8. CASE ShadowFails
  BY <1>0, <1>8, <1>a, Fixed, ShadowFailedShape, ReturnShape DEF ShadowFails
<1>9. CASE Copy
  BY <1>0, <1>9, <1>a, Fixed, CopyShape, ReturnShape DEF Copy
<1>10. CASE UNCHANGED vars
  BY <1>10, <1>a, Fixed DEF vars
<1> QED
  BY <1>1, <1>2, <1>3, <1>4, <1>5, <1>6, <1>7, <1>8, <1>9, <1>10
     DEF Next, Handler, Servers

(***************************************************************************)
(* A download is given up only after every weed of its type was asked, as  *)
(* long as there are no more of them than attempts: the rounds of          *)
(* getFileHandler's loop go over distinct servers.                         *)
(***************************************************************************)
THEOREM Failover == Spec => []FailoverComplete
<1>1. Init => FailoverInv
  BY DEF Init, FailoverInv, AskedInv, GiveUpInv, Rounds
<1>2. TypeOK /\ FailoverInv => FailoverComplete
  <2> SUFFICES ASSUME TypeOK, FailoverInv,
                      pc = "done", err # "nil", Len(conf.weeds) > 1,
                      NEW i \in OfType(conf.weeds, TypeFor(isFiler)),
                      Cardinality(OfType(conf.weeds, TypeFor(isFiler))) <= conf.retry + 1
               PROVE  i \in asked
    BY DEF FailoverComplete
  <2>1. PICK r \in 0..(Cardinality(OfType(conf.weeds, TypeFor(isFiler))) - 1) :
            getFileUrl(conf.weeds, isFiler, r) = i
    BY HitHasRound, ConfFacts
  <2>2. Cardinality(OfType(conf.weeds, TypeFor(isFiler))) \in Nat
    BY HitsFinite, ConfFacts
  <2>3. r \in Rounds
    BY <2>1, <2>2, ConfFacts DEF FailoverInv, GiveUpInv, Rounds
  <2> QED
    BY <2>1, <2>3 DEF FailoverInv, AskedInv
<1> QED
  BY <1>1, <1>2, FailoverStep, TypeCorrect, PTL DEF Spec

-----------------------------------------------------------------------------
(***************************************************************************)
(* Amplification.  Each attempt before the current one has cost retry + 1  *)
(* shadow requests at most, the current one what Spent says.               *)
(***************************************************************************)
Spent == CASE pc \in {"start", "denied", "refused", "primary", "primaryWait"} -> 0
           [] pc = "shadow" -> shadowRetry
           [] pc = "shadowWait" -> shadowRetry + 1
           [] pc \in {"copy", "reply", "done", "panicked"} -> conf.retry + 1

CostInv == shadowAsked <= retry * (conf.retry + 1) + Spent

\* The next row of a rectangle, and a part of one.
LEMMA Rows ==
  ASSUME NEW r \in Nat, NEW R \in Nat, NEW k \in Nat, r <= R
  PROVE  /\ r * k \in Nat
         /\ (r + 1) * k = r * k + k
         /\ r * k <= R * k
<1>1. r * k \in Nat /\ (r + 1) * k = r * k + k
  OBVIOUS
<1>2. PICK d \in Nat : R = r + d
  <2>1. R - r \in Nat /\ R = r + (R - r)
    OBVIOUS
  <2> QED
    BY <2>1
<1>3. R * k = r * k + d * k /\ d * k \in Nat
  BY <1>2
<1> QED
  BY <1>1, <1>3

\* A bound moves by as much as what it bounds, or by more.
LEMMA Shift ==
  ASSUME NEW b \in Nat, NEW x \in Nat, NEW y \in Nat, NEW s \in Nat, NEW t \in Nat,
         x <= b + s, y + s <= x + t
  PROVE  y <= b + t
  OBVIOUS

\* Spent is a number, however the stage moves.
LEMMA SpentType == TypeOK => Spent \in 0..(conf.retry + 1)
<1> SUFFICES ASSUME TypeOK PROVE Spent \in 0..(conf.retry + 1)
  OBVIOUS
<1>1. /\ conf.retry \in Nat
      /\ shadowRetry \in 0..conf.retry
      /\ pc \in Stages
  BY ConfFacts DEF TypeOK
<1>2. CASE pc \in {"start", "denied", "refused", "primary", "primaryWait"}
  BY <1>1, <1>2 DEF Spent
<1>3. CASE pc = "shadow"
  BY <1>1, <1>3 DEF Spent
<1>4. CASE pc = "shadowWait"
  BY <1>1, <1>4 DEF Spent
<1>5. CASE pc \in {"copy", "reply", "done", "panicked"}
  BY <1>1, <1>5 DEF Spent
<1> QED
  BY <1>1, <1>2, <1>3, <1>4, <1>5 DEF Stages

\* Returning from download uses up the current attempt's share.
LEMMA ReturnCost ==
  ASSUME TypeOK, CostInv, NEW e, Return(e), conf' = conf, shadowAsked' = shadowAsked
  PROVE  CostInv'
<1> DEFINE share == conf.retry + 1
<1>1. /\ share \in Nat /\ Spent <= share /\ Spent \in Nat
      /\ retry \in Nat /\ shadowAsked \in Nat
  BY SpentType, ConfFacts DEF TypeOK
<1>2. retry * share \in Nat /\ (retry + 1) * share = retry * share + share
  BY <1>1, Rows
<1>3. shadowAsked <= retry * share + Spent
  BY DEF CostInv
<1>4. \/ retry' = retry + 1 /\ pc' = "primary"
      \/ retry' = retry /\ pc' = "reply"
  BY ReturnShape
<1>5. Spent' = IF pc' = "primary" THEN 0 ELSE share
  BY <1>4 DEF Spent
<1>6. shadowAsked <= retry' * share + Spent'
  <2> HIDE DEF share
  <2> QED
    BY <1>1, <1>2, <1>3, <1>4, <1>5
<1> QED
  BY <1>6 DEF CostInv

LEMMA CostStep == TypeOK /\ CostInv /\ [Next]_vars => CostInv'
<1> SUFFICES ASSUME TypeOK, CostInv, [Next]_vars PROVE CostInv'
  OBVIOUS
<1> DEFINE base == retry * (conf.retry + 1)
<1>0. /\ shadowRetry \in 0..conf.retry /\ conf.retry \in Nat
      /\ shadowAsked \in Nat /\ base \in Nat /\ Spent \in Nat
  BY ConfFacts, Rows, SpentType DEF TypeOK
<1>a. shadowAsked <= base + Spent
  BY DEF CostInv
<1>b. ASSUME retry' = retry, Spent' \in Nat,
             shadowAsked' \in Nat, shadowAsked' + Spent <= shadowAsked + Spent'
      PROVE  CostInv'
  <2>1. /\ shadowAsked \in Nat /\ shadowAsked' \in Nat /\ base \in Nat
        /\ Spent \in Nat /\ Spent' \in Nat
    BY <1>0, <1>b
  <2>2. shadowAsked <= base + Spent /\ shadowAsked' + Spent <= shadowAsked + Spent'
    BY <1>a, <1>b
  <2>3. shadowAsked' <= base + Spent'
    BY <2>1, <2>2, Shift
  <2> QED
    BY <1>b, <2>3, Fixed DEF CostInv
<1> HIDE DEF base
<1>1. CASE AccessPanics \/ DenyAccess \/ RefuseMethod \/ Accept \/ AskWeed \/ Reply
  BY <1>0, <1>1, <1>b DEF AccessPanics, DenyAccess, RefuseMethod, Accept, AskWeed, Reply, Spent
<1>2. CASE NoWeedPanics \/ NoShadowPanics \/ WeedAnswers \/ ShadowAnswers
  BY <1>0, <1>2, <1>b, Fixed
     DEF NoWeedPanics, NoShadowPanics, WeedAnswers, ShadowAnswers, Spent
<1>3. CASE WeedFails
  <2>1. CASE retry < conf.retry
    BY <1>3, <2>1, ReturnCost DEF WeedFails
  <2>2. CASE ~(retry < conf.retry)
    BY <1>0, <1>3, <2>2, <1>b DEF WeedFails, Spent
  <2> QED
    BY <2>1, <2>2
<1>4. CASE WeedMisses
  <2>1. CASE ShadowAccess
    BY <1>0, <1>4, <2>1, <1>b DEF WeedMisses, Spent
  <2>2. CASE ~ShadowAccess
    BY <1>4, <2>2, ReturnCost DEF WeedMisses
  <2> QED
    BY <2>1, <2>2
<1>5. CASE AskShadow
  BY <1>0, <1>5, <1>b DEF AskShadow, Spent
<1>6. CASE NoShadow
  <2>1. CASE Return("notfound")
    BY <1>6, <2>1, ReturnCost DEF NoShadow
  <2>2. CASE ~Return("notfound")
    BY <1>0, <1>6, <2>2, <1>b, ShadowFailedShape DEF NoShadow, Spent
  <2> QED
    BY <2>1, <2>2
<1>7. CASE ShadowFails
  <2>1. CASE Return("failed")
    BY <1>7, <2>1, ReturnCost DEF ShadowFails
  <2>2. CASE ~Return("failed")
    BY <1>0, <1>7, <2>2, <1>b, ShadowFailedShape DEF ShadowFails, Spent
  <2> QED
    BY <2>1, <2>2
<1>8. CASE Copy
  BY <1>8, CopyShape, ReturnCost DEF Copy
<1>9. CASE UNCHANGED vars
  BY <1>9 DEF vars, CostInv, Spent
<1> QED
  BY <1>1, <1>2, <1>3, <1>4, <1>5, <1>6, <1>7, <1>8, <1>9
     DEF Next, Handler, Servers

(***************************************************************************)
(* One request costs the shadows at most (retry + 1) times (retry + 1)     *)
(* requests: the loop of download within the loop of getFileHandler.       *)
(***************************************************************************)
THEOREM Cost == Spec => []Amplification
<1>1. Init => CostInv
  BY ConfigsAssumption DEF Init, CostInv, Spent
<1>2. TypeOK /\ CostInv => Amplification
  <2> SUFFICES ASSUME TypeOK, CostInv PROVE Amplification
    OBVIOUS
  <2> DEFINE R     == conf.retry
             share == R + 1
  <2>1. /\ retry \in Nat /\ R \in Nat /\ share \in Nat /\ retry <= R
        /\ shadowAsked \in Nat /\ Spent \in Nat /\ Spent <= share
    <3>1. conf.retry \in Nat /\ Spent \in 0..(conf.retry + 1)
      BY ConfFacts, SpentType
    <3>2. retry \in 0..conf.retry /\ shadowAsked \in Nat
      BY DEF TypeOK
    <3> QED
      BY <3>1, <3>2
  <2>2. /\ retry * share \in Nat /\ R * share \in Nat
        /\ retry * share <= R * share
        /\ (R + 1) * share = R * share + share
    BY <2>1, Rows
  <2>3. shadowAsked <= retry * share + Spent
    BY DEF CostInv
  <2>4. shadowAsked <= (R + 1) * share
    <3> HIDE DEF R, share
    <3> QED
      BY <2>1, <2>2, <2>3
  <2> QED
    BY <2>4 DEF Amplification
<1> QED
  BY <1>1, <1>2, CostStep, TypeCorrect, PTL DEF Spec

-----------------------------------------------------------------------------
(***************************************************************************)
(* What the client of one GET holds in the end.  All attempts write into   *)
(* one ResponseWriter, so the argument is about what an attempt can find   *)
(* in it and what it leaves there.                                         *)
(***************************************************************************)
\* getFileHandler has not had a success yet.
Pending == pc \notin {"reply", "done"} \/ err # "nil"

Broken == seen \cap {"cut", "blank"} # {}

\* Before the status line is out nothing was written.
WriterInv == ~out.wrote => /\ out.written = 0
                           /\ out.declared = NoLen
                           /\ out.body = <<>>

\* A header or a status line that an unsuccessful attempt left behind comes
\* from an answer that broke off or had nothing for the client.
TraceInv == Pending /\ Trying /\ (out.wrote \/ out.lengthHdr # NoLen) => Broken

\* What the reply told.
ReplyInv == pc = "done" => \/ out.status = StatusOf(err)
                           \/ out.status = 200 /\ (err # "nil" => Broken)

HonestInv == StatusInv /\ WriterInv /\ TraceInv /\ ReplyInv

\* Without a broken answer, unsuccessful attempts leave at most an empty
\* length, after which no block gets through any more.
CleanInv == "cut" \notin seen /\ Pending /\ Trying
                => /\ out.body = <<>>
                   /\ out.lengthHdr \in {NoLen, 0}
                   /\ out.wrote => out.declared = 0

\* Without a broken answer, a success is one whole answer.
SuccessInv == "cut" \notin seen /\ ~Pending => OneWholeAnswer /\ out.wrote

-----------------------------------------------------------------------------
(***************************************************************************)
(* The writer that a copy meets and the one it leaves.                     *)
(***************************************************************************)
LEMMA ReadyFacts ==
  ASSUME TypeOK, NEW a \in Answers
  PROVE  LET w == Ready(a)
         IN  /\ w \in Writers
             /\ w.body = out.body /\ w.written = out.written
             /\ out.wrote => w = out
             /\ ~out.wrote => w.lengthHdr = IF a.declared /\ out.lengthHdr = NoLen
                                            THEN a.len ELSE out.lengthHdr
             /\ ~out.wrote /\ a.sent # 0 => /\ w.wrote
                                            /\ w.status = 200
                                            /\ w.declared = w.lengthHdr
             /\ a.sent = 0 => w.wrote = out.wrote /\ w.declared = out.declared
<1> DEFINE h == AddHeaders(out, a)
<1>1. a.len \in Lengths /\ out \in Writers
  BY ConfFacts, MaxLenAssumption DEF Answers, Lengths
<1>2. h \in Writers
  BY <1>1 DEF AddHeaders, Writers
<1>3. /\ h.body = out.body /\ h.written = out.written
      /\ h.wrote = out.wrote /\ h.declared = out.declared
      /\ out.wrote => h = out
      /\ ~out.wrote => h.lengthHdr = IF a.declared /\ out.lengthHdr = NoLen
                                     THEN a.len ELSE out.lengthHdr
  BY <1>1 DEF AddHeaders, Writers
<1> HIDE DEF h
<1>4. WriteHeader(h, 200) \in Writers
  BY <1>2, HeaderType, MaxLenAssumption
<1>5. Ready(a) = IF a.sent = 0 THEN h ELSE WriteHeader(h, 200)
  BY DEF Ready, h
<1>6. CASE a.sent = 0
  BY <1>2, <1>3, <1>5, <1>6
<1>7. CASE a.sent # 0
  <2>1. CASE h.wrote
    BY <1>2, <1>3, <1>5, <1>7, <2>1 DEF WriteHeader
  <2>2. CASE ~h.wrote
    <3>1. Ready(a) = [h EXCEPT !.wrote = TRUE, !.status = 200, !.declared = h.lengthHdr]
      BY <1>5, <1>7, <2>2 DEF WriteHeader
    <3>2. /\ Ready(a).body = h.body /\ Ready(a).written = h.written
          /\ Ready(a).lengthHdr = h.lengthHdr /\ Ready(a).wrote
          /\ Ready(a).status = 200 /\ Ready(a).declared = h.lengthHdr
      BY <1>2, <3>1 DEF Writers
    <3> QED
      BY <1>3, <1>4, <1>5, <1>7, <2>2, <3>2
  <2> QED
    BY <2>1, <2>2
<1> QED
  BY <1>6, <1>7

LEMMA PutFacts ==
  ASSUME NEW w \in Writers, NEW a \in Answers, NEW n
  PROVE  LET p == Put(w, a, n)
         IN  /\ a.sent = 0 => p = w
             /\ p.wrote = w.wrote /\ p.lengthHdr = w.lengthHdr
             /\ p.declared = w.declared /\ p.status = w.status
             /\ n = 0 => p.body = w.body
             /\ a.sent # 0 /\ n # 0
                  => p.body = Append(w.body, [attempt |-> retry, n |-> n,
                                              whole |-> Whole(a) /\ n = a.sent])
  BY DEF Put, Writers

\* The first copy that meets an untouched writer gets all of it through.
LEMMA FirstFits ==
  ASSUME TypeOK, WriterInv, ~out.wrote, out.lengthHdr = NoLen,
         NEW a \in Answers, NEW n \in Accepts(Ready(a), a)
  PROVE  n = a.sent
<1> DEFINE w == Ready(a)
<1>1. /\ a.sent \in 0..MaxLen /\ a.len \in 0..MaxLen /\ a.sent <= a.len
      /\ MaxLen \in Nat
  BY MaxLenAssumption DEF Answers
<1>2. /\ w.written = 0
      /\ w.declared \in {NoLen, a.len}
  BY ReadyFacts DEF WriterInv
<1>3. a.sent <= Room(w)
  <2> HIDE DEF w
  <2> QED
    BY <1>1, <1>2 DEF Room, NoLen
<1> QED
  BY <1>3 DEF Accepts

\* An empty declared length lets nothing through.
LEMMA NoRoom ==
  ASSUME TypeOK, NEW a \in Answers, NEW n \in Accepts(Ready(a), a),
         Ready(a).declared = 0
  PROVE  n = 0
<1> DEFINE w == Ready(a)
<1>1. w.written \in Nat /\ w.declared = 0
  BY ReadyFacts DEF Writers
<1>2. Room(w) = 0
  <2> HIDE DEF w
  <2> QED
    BY <1>1 DEF Room, NoLen
<1> QED
  BY <1>2 DEF Accepts, Answers

-----------------------------------------------------------------------------
(***************************************************************************)
(* The steps.  Copy and the two replies touch the writer; every other step *)
(* leaves it alone and starts before any success.                          *)
(***************************************************************************)
LEMMA OtherSteps ==
  ASSUME TypeOK, [Next]_vars, ~Copy, ~Reply, ~RefuseMethod, ~UNCHANGED vars
  PROVE  /\ out' = out /\ seen \subseteq seen'
         /\ Pending /\ Trying /\ Trying' /\ Pending'
<1> USE DEF Pending, Trying
<1>1. CASE AccessPanics \/ DenyAccess \/ Accept \/ NoWeedPanics \/ NoShadowPanics
  BY <1>1 DEF AccessPanics, DenyAccess, Accept, NoWeedPanics, NoShadowPanics
<1>2. CASE AskWeed \/ WeedAnswers \/ AskShadow \/ ShadowAnswers
  BY <1>2 DEF AskWeed, WeedAnswers, AskShadow, ShadowAnswers
<1>3. CASE WeedFails
  BY <1>3, ReturnShape DEF WeedFails
<1>4. CASE WeedMisses
  BY <1>4, ReturnShape DEF WeedMisses
<1>5. CASE NoShadow
  BY <1>5, ShadowFailedShape, ReturnShape DEF NoShadow
<1>6. CASE ShadowFails
  BY <1>6, ShadowFailedShape, ReturnShape DEF ShadowFails
<1> QED
  BY <1>1, <1>2, <1>3, <1>4, <1>5, <1>6 DEF Next, Handler, Servers

LEMMA WriterStep == TypeOK /\ WriterInv /\ [Next]_vars => WriterInv'
<1> SUFFICES ASSUME TypeOK, WriterInv, [Next]_vars PROVE WriterInv'
  OBVIOUS
<1> USE DEF WriterInv
<1>1. CASE Copy
  <2>1. PICK a \in Answers : \E n \in Accepts(Ready(a), a) : out' = Put(Ready(a), a, n)
    BY <1>1, CopyShape
  <2>2. PICK n \in Accepts(Ready(a), a) : out' = Put(Ready(a), a, n)
    BY <2>1
  <2>3. CASE a.sent = 0
    <3>1. out' = Ready(a)
      BY <2>2, <2>3 DEF Put
    <3> QED
      BY <2>3, <3>1, ReadyFacts
  <2>4. CASE a.sent # 0
    <3>1. Ready(a).wrote
      BY <2>4, ReadyFacts
    <3>2. Ready(a) \in Writers
      BY ReadyFacts
    <3>3. out'.wrote
      BY <2>2, <3>1, <3>2, PutFacts
    <3> QED
      BY <3>3
  <2> QED
    BY <2>3, <2>4
<1>2. CASE Reply
  <2>1. StatusOf(err) \in {200, 404, 405, 500}
    BY DEF StatusOf, TypeOK
  <2> QED
    BY <1>2, <2>1, HeaderStatus, ConfFacts DEF Reply
<1>3. CASE RefuseMethod
  BY <1>3, HeaderStatus, ConfFacts DEF RefuseMethod
<1>4. CASE UNCHANGED vars
  BY <1>4 DEF vars
<1> QED
  BY <1>1, <1>2, <1>3, <1>4, OtherSteps

LEMMA TraceStep == TypeOK /\ WriterInv /\ TraceInv /\ [Next]_vars => TraceInv'
<1> SUFFICES ASSUME TypeOK, WriterInv, TraceInv, [Next]_vars PROVE TraceInv'
  OBVIOUS
<1>1. CASE Copy
  <2>1. PICK a \in Answers : \E n \in Accepts(Ready(a), a) :
           /\ n = 0 => "blank" \in seen'
           /\ ~Whole(a) => "cut" \in seen'
           /\ seen \subseteq seen'
           /\ Return(Verdict(a, n))
    BY <1>1, CopyShape
  <2>2. PICK n \in Accepts(Ready(a), a) :
           /\ n = 0 => "blank" \in seen'
           /\ ~Whole(a) => "cut" \in seen'
           /\ seen \subseteq seen'
           /\ Return(Verdict(a, n))
    BY <2>1
  <2>3. Pending /\ Trying
    BY <1>1 DEF Copy, Pending, Trying
  <2>4. CASE out.wrote \/ out.lengthHdr # NoLen
    BY <2>2, <2>3, <2>4 DEF TraceInv, Broken
  <2>5. CASE ~out.wrote /\ out.lengthHdr = NoLen
    <3>1. n = a.sent
      BY <2>5, FirstFits
    <3>2. Pending' => Verdict(a, n) # "nil"
      BY <2>2, ReturnShape DEF Pending
    <3>3. Pending' => n = 0 \/ ~Whole(a)
      BY <3>1, <3>2 DEF Verdict
    <3> QED
      BY <2>2, <3>3 DEF TraceInv, Broken
  <2> QED
    BY <2>4, <2>5
<1>2. CASE Reply \/ RefuseMethod
  BY <1>2 DEF Reply, RefuseMethod, TraceInv, Trying
<1>3. CASE UNCHANGED vars
  BY <1>3 DEF vars, TraceInv, Pending, Trying, Broken
<1> QED
  BY <1>1, <1>2, <1>3, OtherSteps DEF TraceInv, Broken

LEMMA ReplyStep ==
  TypeOK /\ StatusInv /\ TraceInv /\ ReplyInv /\ [Next]_vars => ReplyInv'
<1> SUFFICES ASSUME TypeOK, StatusInv, TraceInv, ReplyInv, [Next]_vars
             PROVE  ReplyInv'
  OBVIOUS
<1>1. CASE Reply
  <2>1. StatusOf(err) \in {200, 404, 405, 500}
    BY DEF StatusOf, TypeOK
  <2>2. out'.status = IF out.wrote THEN out.status ELSE StatusOf(err)
    BY <1>1, <2>1, HeaderStatus, ConfFacts DEF Reply
  <2>3. Trying /\ (err # "nil" => Pending)
    BY <1>1 DEF Reply, Trying, Pending
  <2>4. out.wrote => out.status = 200 /\ (err # "nil" => Broken)
    BY <2>3 DEF StatusInv, TraceInv
  <2> QED
    BY <1>1, <2>2, <2>4 DEF Reply, ReplyInv, StatusOf, Broken
<1>2. CASE Copy
  BY <1>2, CopyShape, ReturnShape DEF ReplyInv
<1>3. CASE RefuseMethod
  BY <1>3 DEF RefuseMethod, ReplyInv
<1>4. CASE UNCHANGED vars
  BY <1>4 DEF vars, ReplyInv, StatusOf, Broken
<1> QED
  BY <1>1, <1>2, <1>3, <1>4, OtherSteps DEF ReplyInv, Trying

(***************************************************************************)
(* getFileHandler tells a missing file with 404 and any other failure with *)
(* a status of failure; 200 goes out in its place only after an answer     *)
(* that broke off or was empty.                                            *)
(***************************************************************************)
THEOREM Honest == Spec => []FailureHonest
<1>1. Init => HonestInv
  BY DEF Init, HonestInv, StatusInv, WriterInv, TraceInv, ReplyInv, Trying, NewWriter
<1>2. TypeOK /\ HonestInv => FailureHonest
  <2>1. TypeOK /\ err # "nil" => StatusOf(err) \in OwnStatus
    BY DEF TypeOK, StatusOf, OwnStatus
  <2> QED
    BY <2>1 DEF HonestInv, ReplyInv, FailureHonest, Broken
<1>3. TypeOK /\ HonestInv /\ [Next]_vars => HonestInv'
  BY StatusStep, WriterStep, TraceStep, ReplyStep DEF HonestInv
<1> QED
  BY <1>1, <1>2, <1>3, TypeCorrect, PTL DEF Spec

-----------------------------------------------------------------------------
(***************************************************************************)
(* One whole answer.                                                       *)
(***************************************************************************)
\* What a copy of a whole answer does to a clean writer.
LEMMA CleanCopy ==
  ASSUME TypeOK, WriterInv,
         out.body = <<>>, out.lengthHdr \in {NoLen, 0}, out.wrote => out.declared = 0,
         NEW a \in Answers, Whole(a), NEW n \in Accepts(Ready(a), a)
  PROVE  LET p == Put(Ready(a), a, n)
         IN  \/ /\ n = 0
                /\ p.body = <<>> /\ p.lengthHdr \in {NoLen, 0}
                /\ p.wrote => p.declared = 0
             \/ /\ n = a.sent /\ n # 0
                /\ p.wrote /\ p.status = 200
                /\ p.declared \in {NoLen, n}
                /\ p.body = <<[attempt |-> retry, n |-> n, whole |-> TRUE]>>
<1> DEFINE w == Ready(a)
           p == Put(w, a, n)
<1>1. /\ a.len = a.sent /\ a.sent \in 0..MaxLen /\ MaxLen \in Nat
  BY MaxLenAssumption DEF Answers, Whole
<1>2. w.body = <<>> /\ w \in Writers
  BY ReadyFacts
<1>3. /\ n = 0 => p.body = w.body
      /\ a.sent # 0 /\ n # 0
           => p.body = Append(w.body, [attempt |-> retry, n |-> n,
                                       whole |-> Whole(a) /\ n = a.sent])
  <2> HIDE DEF w
  <2> QED
    BY <1>2, PutFacts
<1>4. /\ p.wrote = w.wrote /\ p.lengthHdr = w.lengthHdr
      /\ p.declared = w.declared /\ p.status = w.status
  <2> HIDE DEF w
  <2> QED
    BY <1>2 DEF Put, Writers
<1>5. CASE a.sent = 0
  <2>1. n = 0
    BY <1>1, <1>5, CopyType
  <2>2. w.lengthHdr \in {NoLen, 0} /\ (w.wrote => w.declared = 0)
    BY <1>1, <1>5, ReadyFacts
  <2> QED
    BY <1>2, <1>3, <1>4, <2>1, <2>2
<1>6. CASE a.sent # 0 /\ (out.wrote \/ out.lengthHdr = 0)
  <2>1. w.declared = 0 /\ w.lengthHdr \in {NoLen, 0}
    BY <1>6, ReadyFacts DEF NoLen
  <2>2. n = 0
    BY <2>1, NoRoom
  <2> QED
    BY <1>2, <1>3, <1>4, <2>1, <2>2
<1>7. CASE a.sent # 0 /\ ~out.wrote /\ out.lengthHdr = NoLen
  <2>1. n = a.sent /\ n # 0
    BY <1>7, FirstFits
  <2>2. w.wrote /\ w.status = 200 /\ w.declared \in {NoLen, n}
    BY <1>1, <1>7, <2>1, ReadyFacts
  <2>3. (Whole(a) /\ n = a.sent) = TRUE
    BY <2>1
  <2>4. p.body = Append(<<>>, [attempt |-> retry, n |-> n, whole |-> TRUE])
    BY <1>2, <1>3, <1>7, <2>1, <2>3
  <2>5. p.body = <<[attempt |-> retry, n |-> n, whole |-> TRUE]>>
    BY <2>4
  <2> QED
    BY <1>4, <2>1, <2>2, <2>5
<1> QED
  BY <1>5, <1>6, <1>7

ServedInv == WriterInv /\ CleanInv /\ SuccessInv

LEMMA ServedStep ==
  TypeOK /\ StatusInv /\ ServedInv /\ [Next]_vars => CleanInv' /\ SuccessInv'
<1> SUFFICES ASSUME TypeOK, StatusInv, ServedInv, [Next]_vars
             PROVE  CleanInv' /\ SuccessInv'
  OBVIOUS
<1>1. CASE Copy
  <2>1. PICK a \in Answers : \E n \in Accepts(Ready(a), a) :
           /\ out' = Put(Ready(a), a, n)
           /\ ~Whole(a) => "cut" \in seen'
           /\ seen \subseteq seen'
           /\ Return(Verdict(a, n))
    BY <1>1, CopyShape
  <2>2. PICK n \in Accepts(Ready(a), a) :
           /\ out' = Put(Ready(a), a, n)
           /\ ~Whole(a) => "cut" \in seen'
           /\ seen \subseteq seen'
           /\ Return(Verdict(a, n))
    BY <2>1
  <2> SUFFICES ASSUME "cut" \notin seen' PROVE CleanInv' /\ SuccessInv'
    BY DEF CleanInv, SuccessInv
  <2>3. Whole(a) /\ "cut" \notin seen
    BY <2>2
  <2>4. /\ out.body = <<>>
        /\ out.lengthHdr \in {NoLen, 0}
        /\ out.wrote => out.declared = 0
    BY <1>1, <2>3 DEF Copy, ServedInv, CleanInv, Pending, Trying
  <2>5. Pending' <=> Verdict(a, n) # "nil"
    BY <2>2, ReturnShape DEF Pending
  <2>6. WriterInv
    BY DEF ServedInv
  <2>7. CASE n = 0
    <3>1. Pending'
      BY <2>5, <2>7 DEF Verdict
    <3>2. /\ out'.body = <<>> /\ out'.lengthHdr \in {NoLen, 0}
          /\ out'.wrote => out'.declared = 0
      BY <2>2, <2>3, <2>4, <2>6, <2>7, CleanCopy
    <3> QED
      BY <3>1, <3>2 DEF CleanInv, SuccessInv
  <2>8. CASE n # 0
    <3>1. /\ n = a.sent
          /\ out'.wrote /\ out'.status = 200 /\ out'.declared \in {NoLen, n}
          /\ out'.body = <<[attempt |-> retry, n |-> n, whole |-> TRUE]>>
      BY <2>2, <2>3, <2>4, <2>6, <2>8, CleanCopy
    <3>2. ~Pending'
      BY <2>3, <2>5, <2>8, <3>1 DEF Verdict
    <3>3. OneWholeAnswer'
      BY <3>1 DEF OneWholeAnswer
    <3> QED
      BY <3>1, <3>2, <3>3 DEF CleanInv, SuccessInv
  <2> QED
    BY <2>7, <2>8
<1>2. CASE Reply
  <2>1. ~Trying' /\ seen' = seen /\ (~Pending' => ~Pending)
    BY <1>2 DEF Reply, Trying, Pending
  <2>2. out.wrote => out' = out
    BY <1>2 DEF Reply, WriteHeader
  <2> QED
    BY <2>1, <2>2 DEF ServedInv, CleanInv, SuccessInv, OneWholeAnswer
<1>3. CASE RefuseMethod
  BY <1>3 DEF RefuseMethod, CleanInv, SuccessInv, Trying, Pending
<1>4. CASE UNCHANGED vars
  BY <1>4 DEF vars, ServedInv, CleanInv, SuccessInv, Pending, Trying, OneWholeAnswer
<1> QED
  BY <1>1, <1>2, <1>3, <1>4, OtherSteps DEF ServedInv, CleanInv, SuccessInv

(***************************************************************************)
(* Unless an answer broke off, a GET that getFileHandler reports as served *)
(* has given the client exactly one whole answer.                          *)
(***************************************************************************)
THEOREM Served == Spec => []ServedWhole
<1>1. Init => StatusInv /\ ServedInv
  BY DEF Init, StatusInv, ServedInv, WriterInv, CleanInv, SuccessInv, Trying,
         Pending, NewWriter
<1>2. ServedInv => ServedWhole
  BY DEF ServedInv, SuccessInv, ServedWhole, Success, Pending
<1>3. TypeOK /\ StatusInv /\ ServedInv /\ [Next]_vars => (StatusInv /\ ServedInv)'
  BY StatusStep, WriterStep, ServedStep DEF ServedInv
<1> QED
  BY <1>1, <1>2, <1>3, TypeCorrect, PTL DEF Spec
=============================================================================
