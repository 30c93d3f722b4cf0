------------------------- MODULE PanelContentProofs -------------------------
(***************************************************************************)
(* What an operator wrote survives every start of the API, for any         *)
(* languages, wordings and names of plans and any number of edits.         *)
(*                                                                         *)
(* PanelDecides is inductive once it knows that no plan is given a name    *)
(* more often than the panel is used (ContentInv), which the types of the  *)
(* two counters need.                                                      *)
(***************************************************************************)
EXTENDS PanelContent, TLAPS

Counted ==
  /\ plans \in [Names -> Nat] /\ placed \in [Names -> Nat]
  /\ changes \in 0..MaxChanges
  /\ \A n \in Names : placed[n] <= changes

ContentInv == TypeOK /\ Counted /\ PanelDecides

\* The types of the two counters follow from what bounds them.
LEMMA CountersTyped ==
  ASSUME NEW ps \in [Names -> Nat], NEW qs \in [Names -> Nat], NEW k \in 0..MaxChanges,
         \A n \in Names : qs[n] <= k /\ ps[n] <= qs[n] + 1
  PROVE  ps \in [Names -> 0..(MaxChanges + 1)] /\ qs \in [Names -> 0..MaxChanges]
<1>1. \A n \in Names : ps[n] \in 0..(MaxChanges + 1) /\ qs[n] \in 0..MaxChanges
  BY ContentAssumption
<1>. QED
  BY <1>1

\* Before the first start there is nothing, which the operator has not touched.
LEMMA ContentInit == Init => ContentInv
<1>. SUFFICES ASSUME Init PROVE ContentInv
  OBVIOUS
<1>1. Counted
  BY ContentAssumption DEF Init, Counted
<1>2. PanelDecides
  BY ContentAssumption DEF Init, PanelDecides
<1>. QED
  BY <1>1, <1>2, CountersTyped, ContentAssumption
     DEF Init, ContentInv, Counted, PanelDecides, TypeOK, Values

\* The seed fills what is missing, and nothing else.
LEMMA BootKeeps == ContentInv /\ Boot => ContentInv'
<1>. SUFFICES ASSUME ContentInv, Boot PROVE ContentInv'
  OBVIOUS
<1>1. /\ texts' \in [Languages -> Values \cup {NoText}]
      /\ \A l \in Languages :
           texts'[l] = texts[l] \/ (texts[l] = NoText /\ texts'[l] = Original)
  BY DEF Boot, Seed, SeedTexts, ContentInv, TypeOK, Values
<1>2. /\ plans' \in [Names -> Nat]
      /\ \A n \in Names : plans'[n] = plans[n] \/ (plans[n] = 0 /\ plans'[n] = 1)
  BY DEF Boot, Seed, SeedPlans, ContentInv, Counted
<1>3. UNCHANGED <<cache, wish, placed, changes>> /\ api' = "up"
  BY DEF Boot
<1>4. PanelDecides'
  <2>1. ASSUME NEW l \in Languages
        PROVE  /\ wish'[l] \in Wordings => texts'[l] = wish'[l]
               /\ wish'[l] \notin Wordings => texts'[l] \in {Original, NoText}
    BY <1>1, <1>3, ContentAssumption DEF ContentInv, PanelDecides
  <2>2. ASSUME NEW n \in Names PROVE plans'[n] <= placed'[n] + 1
    BY <1>2, <1>3 DEF ContentInv, Counted, PanelDecides
  <2>. QED
    BY <2>1, <2>2 DEF PanelDecides
<1>5. Counted'
  BY <1>2, <1>3 DEF ContentInv, Counted
<1>. QED
  BY <1>1, <1>3, <1>4, <1>5, CountersTyped DEF ContentInv, Counted, PanelDecides, TypeOK

\* An edit is counted, and needs the API.
LEMMA EditCounts ==
  ASSUME ContentInv, Edit
  PROVE  /\ changes' \in 0..MaxChanges /\ changes' = changes + 1 /\ changes \in Nat
         /\ UNCHANGED <<api, cache>>
  BY ContentAssumption DEF Edit, ContentInv, TypeOK

\* What the panel does to a text is what the operator last wanted of it.
LEMMA TextKeeps ==
  ASSUME ContentInv, NEW l \in Languages, NEW v \in Wordings \cup {NoText}, SetText(l, v),
         NEW w \in Wordings \cup {"untouched", "deleted"}, wish' = [wish EXCEPT ![l] = w],
         w = v \/ (w = "deleted" /\ v = NoText)
  PROVE  ContentInv'
<1>1. /\ texts' = [texts EXCEPT ![l] = v] /\ UNCHANGED <<plans, placed>> /\ Edit
  BY DEF SetText
<1>2. Counted'
  BY <1>1, EditCounts DEF ContentInv, Counted
<1>3. PanelDecides'
  BY <1>1, ContentAssumption DEF ContentInv, TypeOK, PanelDecides
<1>. QED
  BY <1>1, <1>2, <1>3, EditCounts DEF ContentInv, TypeOK, Values

\* A plan that gets a name was given it.
LEMMA PlanKeeps ==
  ASSUME ContentInv, Edit, UNCHANGED <<texts, wish>>,
         plans' \in [Names -> Nat], placed' \in [Names -> Nat],
         \A n \in Names :
           /\ placed'[n] \in {placed[n], placed[n] + 1}
           /\ plans'[n] - plans[n] <= placed'[n] - placed[n]
  PROVE  ContentInv'
<1>1. Counted'
  BY EditCounts DEF ContentInv, Counted
<1>2. PanelDecides'
  BY DEF ContentInv, Counted, PanelDecides
<1>. QED
  BY <1>1, <1>2, EditCounts, CountersTyped DEF ContentInv, Counted, PanelDecides, TypeOK

\* An edit of a text is what the operator wants.
LEMMA PanelTextKeeps ==
  ASSUME ContentInv, NEW l \in Languages,
         DeleteBotText(l) \/ \E v \in Wordings : CreateBotText(l, v) \/ PatchBotText(l, v)
  PROVE  ContentInv'
<1>1. CASE DeleteBotText(l)
  BY <1>1, TextKeeps DEF DeleteBotText
<1>2. ASSUME NEW v \in Wordings, CreateBotText(l, v) \/ PatchBotText(l, v) PROVE ContentInv'
  BY <1>2, TextKeeps DEF CreateBotText, PatchBotText
<1>. QED
  BY <1>1, <1>2

\* A plan that the panel makes or renames is accounted for.
LEMMA PanelPlanKeeps ==
  ASSUME ContentInv, NEW n \in Names,
         CreatePlan(n) \/ DeletePlan(n) \/ \E new \in Names : PatchPlan(n, new)
  PROVE  ContentInv'
<1>0. plans \in [Names -> Nat] /\ placed \in [Names -> Nat]
  BY DEF ContentInv, Counted
<1>1. CASE CreatePlan(n)
  BY <1>0, <1>1, PlanKeeps DEF CreatePlan
<1>2. CASE DeletePlan(n)
  BY <1>0, <1>2, PlanKeeps DEF DeletePlan
<1>3. ASSUME NEW new \in Names, PatchPlan(n, new) PROVE ContentInv'
  <2>1. /\ plans' \in [Names -> Nat] /\ placed' \in [Names -> Nat]
        /\ placed'[new] = placed[new] + 1 /\ plans'[new] = plans[new] + 1
        /\ placed'[n] = placed[n] /\ plans'[n] = plans[n] - 1
        /\ \A m \in Names \ {n, new} : placed'[m] = placed[m] /\ plans'[m] = plans[m]
    BY <1>0, <1>3 DEF PatchPlan
  <2>. QED
    BY <1>0, <1>3, <2>1, PlanKeeps DEF PatchPlan
<1>. QED
  BY <1>1, <1>2, <1>3

\* So every step preserves the invariant.
LEMMA ContentNext == ContentInv /\ [Next]_vars => ContentInv'
<1>. SUFFICES ASSUME ContentInv, [Next]_vars PROVE ContentInv'
  OBVIOUS
<1>1. CASE Stop
  BY <1>1 DEF Stop, ContentInv, TypeOK, Counted, PanelDecides
<1>2. CASE RefreshTexts
  BY <1>2 DEF RefreshTexts, Reload, ContentInv, TypeOK, Counted, PanelDecides
<1>3. CASE UNCHANGED vars
  BY <1>3 DEF vars, ContentInv, TypeOK, Counted, PanelDecides
<1>. QED
  BY <1>1, <1>2, <1>3, BootKeeps, PanelTextKeeps, PanelPlanKeeps DEF Next

\* It always holds.
LEMMA ContentAlways == Spec => []ContentInv
  BY ContentInit, ContentNext, PTL DEF Spec

\* Every variable keeps its type (seed.py, admin_catalog.py, texts_service.py).
THEOREM TypeCorrect == Spec => []TypeOK
<1>1. ContentInv => TypeOK
  BY DEF ContentInv
<1>. QED
  BY <1>1, ContentAlways, PTL

\* However often the API starts and whatever the operator does in between, a
\* text holds what the operator wrote last, a text that was left alone or
\* deleted holds its default or nothing, and no start adds a plan beside one of
\* the same name (seed).
THEOREM SeedRespectsPanel == Spec => []PanelDecides
<1>1. ContentInv => PanelDecides
  BY DEF ContentInv
<1>. QED
  BY <1>1, ContentAlways, PTL
=============================================================================
