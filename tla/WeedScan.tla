------------------------------ MODULE WeedScan ------------------------------
(***************************************************************************)
(* One call of getWeed (src/server/url_generator.go), iteration by         *)
(* iteration.  The loop `for _, w := range weeds` of Go 1.13 has ONE       *)
(* variable w: the pointer the function returns shows w, so it shows       *)
(* whatever a later iteration copies into w.                               *)
(***************************************************************************)
EXTENDS Weeds

CONSTANTS WeedLists,  \* the configured lists a call may be given
          WeedTypes,  \* the types a server may have
          MaxRound    \* the highest round a caller asks for

ASSUME ListsAssumption == WeedLists \subseteq Seq(WeedTypes)
ASSUME TypesAssumption == {Master, Filer} \subseteq WeedTypes
ASSUME RoundAssumption == MaxRound \in Nat

VARIABLES weeds, weedType, round0,  \* the arguments
          pc,                       \* "loop" or "done"
          i,                        \* servers copied into w so far
          round,                    \* the argument, counted down
          isNil                     \* the result weed is still nil

args == <<weeds, weedType, round0>>
vars == <<args, pc, i, round, isNil>>

\* The loop variable holds the server copied last; the pointer, once set,
\* shows it.
Result == IF isNil THEN NoWeed ELSE i

Init == /\ weeds \in WeedLists
        /\ weedType \in {Master, Filer}
        /\ round0 \in 0..MaxRound
        /\ pc = "loop"
        /\ i = 0
        /\ round = round0
        /\ isNil = TRUE

\* Mutant of Skip: round-- for every server, whatever its type.
SkipCounts == /\ pc = "loop"
              /\ i < Len(weeds)
              /\ weeds[i + 1] # weedType
              /\ i' = i + 1
              /\ round' = round - 1
              /\ UNCHANGED <<args, pc, isNil>>

\* A server of another type: only w changes.
Skip == /\ pc = "loop"
        /\ i < Len(weeds)
        /\ weeds[i + 1] # weedType
        /\ i' = i + 1
        /\ UNCHANGED <<args, pc, round, isNil>>

\* A server of the type while rounds are left: weed = &w, one round less.
Pass == /\ pc = "loop"
        /\ i < Len(weeds)
        /\ weeds[i + 1] = weedType
        /\ round # 0
        /\ i' = i + 1
        /\ isNil' = FALSE
        /\ round' = round - 1
        /\ UNCHANGED <<args, pc>>

\* Mutant of Hit: the break is forgotten.
HitNoBreak == /\ pc = "loop"
              /\ i < Len(weeds)
              /\ weeds[i + 1] = weedType
              /\ round = 0
              /\ i' = i + 1
              /\ isNil' = FALSE
              /\ UNCHANGED <<args, pc, round>>

\* A server of the type in round 0: weed = &w and break.
Hit == /\ pc = "loop"
       /\ i < Len(weeds)
       /\ weeds[i + 1] = weedType
       /\ round = 0
       /\ i' = i + 1
       /\ isNil' = FALSE
       /\ pc' = "done"
       /\ UNCHANGED <<args, round>>

\* The list is exhausted.
End == /\ pc = "loop"
       /\ i = Len(weeds)
       /\ pc' = "done"
       /\ UNCHANGED <<args, i, round, isNil>>

Next == Skip \/ Pass \/ Hit \/ End

Spec == Init /\ [][Next]_vars

-----------------------------------------------------------------------------
\* Every variable keeps its type, and the countdown never passes zero.
TypeOK == /\ weeds \in WeedLists
          /\ weedType \in {Master, Filer}
          /\ round0 \in 0..MaxRound
          /\ pc \in {"loop", "done"}
          /\ i \in 0..Len(weeds)
          /\ round \in 0..round0
          /\ isNil \in BOOLEAN

\* The servers of the type among the first k.
Seen(k) == {j \in OfType(weeds, weedType) : j <= k}

(***************************************************************************)
(* The loop invariant: the countdown has lost one round for each server of *)
(* the type met, and the pointer is nil until the first.  It is what makes *)
(* ScanIsGetWeed inductive (WeedScanProofs).                               *)
(***************************************************************************)
LoopInv == pc = "loop" => /\ round = round0 - Cardinality(Seen(i))
                          /\ (isNil <=> Seen(i) = {})

(***************************************************************************)
(* What the loop returns is what the closed form getWeed says: the server  *)
(* of the type with rank round0, the LAST server of the list when the type *)
(* has too few, nil when it has none.                                      *)
(***************************************************************************)
ScanIsGetWeed == pc = "done" => Result = getWeed(weeds, weedType, round0)

(***************************************************************************)
(* While the round is below the number of servers of the type, the server  *)
(* has the type: no attempt of that number goes to a server that cannot    *)
(* serve it.                                                               *)
(***************************************************************************)
RightTypeInRange ==
    pc = "done" /\ round0 < Cardinality(OfType(weeds, weedType))
        => Result # NoWeed /\ weeds[Result] = weedType
=============================================================================
