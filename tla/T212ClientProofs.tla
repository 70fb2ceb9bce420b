--------------------------- MODULE T212ClientProofs ---------------------------
(***************************************************************************)
(* The retry loops of T212Client tell the truth when they return, for any  *)
(* number of calls and attempts.                                           *)
(***************************************************************************)
EXTENDS T212Client, TLAPS

\* A POST is tried again only after an answer that may have had no effect.
AnsweredEnds ==
    \A c \in Calls : kind[c] = "post" /\ last[c] \in {"ok", "garbled"} => pc[c] # "trying"

\* Other calls place nothing.
OnlyPosts == \A c \in Calls : kind[c] # "post" => placed[c] = 0

\* An idle call has no answer, and each attempt before the one in progress placed
\* at most one order.
Fresh == \A c \in Calls : pc[c] = "idle" => last[c] = "none"
PlacedByAttempts ==
    \A c \in Calls :
        placed[c] <= IF pc[c] \in {"idle", "trying"} THEN attempt[c] - 1 ELSE attempt[c]

Inv ==
    /\ TypeOK /\ ReturnIsTrue /\ DeniedIsFinal /\ PlacedByAttempts
    /\ AnsweredEnds /\ OnlyPosts /\ Fresh /\ OrdersExplained

\* No call has begun: the invariant holds.
LEMMA InvInit == Init => Inv
  BY ClientAssumption DEF Init, Inv, TypeOK, ReturnIsTrue, DeniedIsFinal, PlacedByAttempts,
        AnsweredEnds, OnlyPosts, Fresh, OrdersExplained

\* What one attempt does to its own call, by cases of the answer.
LEMMA TryStep ==
    ASSUME Inv, NEW c \in Calls, Try(c)
    PROVE  Inv'
<1> USE ClientAssumption DEF Inv
<1>1. PICK answer \in Answers :
        /\ \/ MayTakeEffect(c, answer) /\ Effect(c)
           \/ MayHaveNoEffect(c, answer) /\ UNCHANGED <<placed, leg>>
        /\ last' = [last EXCEPT ![c] = answer]
        /\ pc' = [pc EXCEPT ![c] = Resolve(c, answer)]
        /\ attempt' = [attempt EXCEPT ![c] = IF Resolve(c, answer) = "trying" THEN @ + 1 ELSE @]
        /\ unsure' = [unsure EXCEPT ![c] = IF answer \in {"error", "transport"} THEN @ + 1 ELSE @]
  BY DEF Try
<1>2. pc[c] = "trying" /\ kind' = kind
  BY DEF Try
<1>3. /\ Resolve(c, answer) \in {"trying", "returned", "raised"}
      /\ Resolve(c, answer) = "returned" =>
            answer = "ok" \/ (answer = "garbled" /\ kind[c] = "delete")
      /\ Resolve(c, answer) = "trying" =>
            answer \in {"429", "error", "transport"} /\ attempt[c] # MaxRetries
      /\ answer = "denied" => Resolve(c, answer) = "raised"
  <2>1. CASE Succeeds(c, answer)
    <3>1. Resolve(c, answer) = "returned"
      BY <2>1 DEF Resolve
    <3>2. answer = "ok" \/ (answer = "garbled" /\ kind[c] = "delete")
      BY <2>1 DEF Succeeds
    <3> QED
      BY <3>1, <3>2
  <2>2. CASE ~Succeeds(c, answer) /\ answer \in {"garbled", "denied"}
    <3>1. Resolve(c, answer) = "raised"
      BY <2>2 DEF Resolve
    <3> QED
      BY <3>1
  <2>3. CASE ~Succeeds(c, answer) /\ answer \notin {"garbled", "denied"}
    <3>1. answer \in {"429", "error", "transport"}
      BY <2>3 DEF Succeeds, Answers
    <3>2. /\ Resolve(c, answer) \in {"trying", "raised"}
          /\ Resolve(c, answer) = "trying" => attempt[c] # MaxRetries
      BY <2>3 DEF Resolve
    <3> QED
      BY <3>1, <3>2
  <2> QED
    BY <2>1, <2>2, <2>3
<1>4. /\ kind[c] = "post" => leg' = leg /\ (placed' = placed \/ placed' = [placed EXCEPT ![c] = @ + 1])
      /\ kind[c] # "post" => placed' = placed
      /\ leg' = "gone" \/ leg' = leg
  BY <1>1 DEF Effect, TypeOK, Kinds
<1>5. answer \in {"ok", "garbled"} =>
        /\ kind[c] = "post" => placed' = [placed EXCEPT ![c] = @ + 1]
        /\ kind[c] = "delete" => leg' = "gone"
  BY <1>1 DEF Effect, MayHaveNoEffect, TypeOK, Kinds
<1>6. /\ kind \in [Calls -> Kinds]
      /\ pc \in [Calls -> {"idle", "trying", "returned", "raised"}]
      /\ attempt \in [Calls -> 1..MaxRetries]
      /\ placed \in [Calls -> 0..MaxRetries]
      /\ last \in [Calls -> Answers \cup {"none"}] /\ leg \in {"open", "gone"}
      /\ placed[c] <= attempt[c] - 1 /\ unsure \in [Calls -> Nat]
  BY <1>2 DEF TypeOK, PlacedByAttempts
<1>7. placed' \in [Calls -> 0..MaxRetries] /\ placed'[c] <= placed[c] + 1
  BY <1>4, <1>6
<1>8. attempt' \in [Calls -> 1..MaxRetries]
  BY <1>1, <1>3, <1>6
<1>9. TypeOK'
  BY <1>1, <1>2, <1>3, <1>4, <1>6, <1>7, <1>8 DEF TypeOK
<1>10. ReturnIsTrue'
  <2>1. ASSUME NEW d \in Calls, d # c, pc'[d] = "returned"
        PROVE  /\ kind[d] = "post" => placed'[d] > 0
               /\ kind[d] = "delete" => leg' = "gone"
    <3>1. pc[d] = "returned" /\ placed'[d] = placed[d]
      BY <1>1, <1>4, <1>6, <2>1
    <3> QED
      BY <1>4, <3>1 DEF ReturnIsTrue
  <2>2. pc'[c] = "returned" => /\ kind[c] = "post" => placed'[c] > 0
                               /\ kind[c] = "delete" => leg' = "gone"
    BY <1>1, <1>3, <1>5, <1>6
  <2> QED
    BY <1>2, <2>1, <2>2 DEF ReturnIsTrue
<1>11. DeniedIsFinal'
  BY <1>1, <1>2, <1>3, <1>6 DEF DeniedIsFinal
<1>12. PlacedByAttempts'
  <2>1. placed'[c] <= IF pc'[c] \in {"idle", "trying"} THEN attempt'[c] - 1 ELSE attempt'[c]
    BY <1>1, <1>3, <1>6, <1>7
  <2>2. \A d \in Calls : d # c => placed'[d] = placed[d] /\ pc'[d] = pc[d] /\ attempt'[d] = attempt[d]
    BY <1>1, <1>4, <1>6
  <2> QED
    BY <2>1, <2>2 DEF PlacedByAttempts
<1>13. AnsweredEnds' /\ Fresh'
  BY <1>1, <1>2, <1>3, <1>6 DEF AnsweredEnds, Fresh
<1>14. OrdersExplained'
  <2>1. \A d \in Calls : d # c =>
            placed'[d] = placed[d] /\ unsure'[d] = unsure[d] /\ last'[d] = last[d]
    BY <1>1, <1>4, <1>6
  <2>2. placed[c] <= unsure[c] \/ kind[c] # "post"
    BY <1>2, <1>6 DEF OrdersExplained, AnsweredEnds
  <2>3. CASE kind[c] = "post"
    <3>1. placed[c] <= unsure[c]
      BY <2>2, <2>3
    <3>2. answer \notin {"ok", "garbled", "error", "transport"} => placed' = placed
      BY <1>1 DEF MayTakeEffect
    <3>3. placed'[c] <= unsure'[c] + IF last'[c] \in {"ok", "garbled"} THEN 1 ELSE 0
      BY <1>1, <1>6, <1>7, <3>1, <3>2
    <3> QED
      BY <2>1, <3>3 DEF OrdersExplained
  <2>4. CASE kind[c] # "post"
    <3>1. placed[c] = 0
      BY <1>6, <2>4 DEF OnlyPosts
    <3>2. placed'[c] <= unsure'[c] + IF last'[c] \in {"ok", "garbled"} THEN 1 ELSE 0
      BY <1>1, <1>4, <1>6, <2>4, <3>1
    <3> QED
      BY <2>1, <3>2 DEF OrdersExplained
  <2> QED
    BY <2>3, <2>4
<1>15. OnlyPosts'
  BY <1>2, <1>4, <1>6 DEF OnlyPosts
<1> QED
  BY <1>9, <1>10, <1>11, <1>12, <1>13, <1>14, <1>15

\* Starting a call or making an attempt keeps the invariant.
LEMMA InvStep == Inv /\ [Next]_vars => Inv'
<1> SUFFICES ASSUME Inv, [Next]_vars PROVE Inv'
  OBVIOUS
<1>1. ASSUME NEW c \in Calls, Start(c) PROVE Inv'
  BY <1>1 DEF Start, Inv, TypeOK, ReturnIsTrue, DeniedIsFinal, PlacedByAttempts,
        AnsweredEnds, OnlyPosts, Fresh, OrdersExplained
<1>2. CASE UNCHANGED vars
  BY <1>2 DEF vars, Inv, TypeOK, ReturnIsTrue, DeniedIsFinal, PlacedByAttempts,
        AnsweredEnds, OnlyPosts, Fresh, OrdersExplained
<1> QED
  BY <1>1, <1>2, TryStep DEF Next

\* A call that returns did what it was asked to, whatever the server and the
\* network answered before.
THEOREM ReturnsAreTrue == Spec => []ReturnIsTrue
<1>1. Inv => ReturnIsTrue
  BY DEF Inv
<1> QED
  BY InvInit, InvStep, <1>1, PTL DEF Spec

\* No attempt follows an answer that the credentials are refused.
THEOREM DenialIsFinal == Spec => []DeniedIsFinal
<1>1. Inv => DeniedIsFinal
  BY DEF Inv
<1> QED
  BY InvInit, InvStep, <1>1, PTL DEF Spec

\* A POST repeats only what may have had no effect: its orders are explained by
\* the answers it got.
THEOREM RepeatsAreExplained == Spec => []OrdersExplained
<1>1. Inv => OrdersExplained
  BY DEF Inv
<1> QED
  BY InvInit, InvStep, <1>1, PTL DEF Spec
=============================================================================
