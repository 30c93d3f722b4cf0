---------------------------- MODULE PanelContent ----------------------------
(***************************************************************************)
(* What an operator edits in the panel, against the two programs that deal *)
(* with it behind the operator's back: the seed, which every start of the  *)
(* API container runs first (entrypoint.sh, seed.py), and the text cache   *)
(* of the worker (texts_service.py), which housekeeping replaces.          *)
(*                                                                         *)
(* One text stands for every table the seed keys on a unique column; plans *)
(* are apart, since their name, which the seed looks for, is not unique.   *)
(* There is one API container, so nobody edits while the seed runs, and    *)
(* the seed is one transaction: a seed that dies leaves nothing behind.    *)
(***************************************************************************)
EXTENDS Integers

CONSTANTS Languages, English,
          Shipped,    \* languages the text has a default in (DEFAULTS)
          Wordings,   \* what an operator may write
          Empty,      \* the empty string, which is one of them
          Original,   \* the default of a language
          NoText,
          Names,      \* of plans
          Seeded,     \* the names in PLANS
          MaxChanges  \* bound: edits in the panel

ASSUME ContentAssumption ==
  /\ English \in Shipped /\ Shipped \subseteq Languages
  /\ Empty \in Wordings /\ Original \notin Wordings
  /\ NoText \notin Wordings \cup {Original}
  /\ {"untouched", "deleted"} \cap Wordings = {}   \* the marks of wish
  /\ Seeded \subseteq Names
  /\ MaxChanges \in Nat

Values == Wordings \cup {Original}

VARIABLES
  api,     \* the API container: seeding or failing to, or serving
  texts,   \* bot_texts: the rows of one key
  plans,   \* how many rows of plans have each name
  cache,   \* _cache of the worker
  wish,    \* history: what the operator did last to each row
  placed,  \* history: how often the operator gave a plan each name
  changes

vars == <<api, texts, plans, cache, wish, placed, changes>>

TypeOK ==
  /\ api \in {"down", "up"}
  /\ texts \in [Languages -> Values \cup {NoText}]
  /\ plans \in [Names -> 0..(MaxChanges + 1)]
  /\ cache \in [Languages -> Values \cup {NoText}]
  /\ wish \in [Languages -> Wordings \cup {"untouched", "deleted"}]
  /\ placed \in [Names -> 0..MaxChanges]
  /\ changes \in 0..MaxChanges

Init ==
  /\ api = "down"
  /\ texts = [l \in Languages |-> NoText]
  /\ plans = [n \in Names |-> 0]
  /\ cache = [l \in Languages |-> NoText]
  /\ wish = [l \in Languages |-> "untouched"]
  /\ placed = [n \in Names |-> 0]
  /\ changes = 0

----------------------------------------------------------------------------
(* The API container.                                                      *)

\* Mutant of SeedTexts: existing rows are set back.
SeedTextsAll == texts' = [l \in Languages |-> IF l \in Shipped THEN Original ELSE texts[l]]

SeedTexts ==
  texts' = [l \in Languages |->
    IF l \in Shipped /\ texts[l] = NoText THEN Original ELSE texts[l]]

SeedPlans ==
  plans' = [n \in Names |-> IF n \in Seeded /\ plans[n] = 0 THEN 1 ELSE plans[n]]

\* seed: each block looks for its rows and adds those it misses.
Seed == SeedTexts /\ SeedPlans

\* scalar_one_or_none raises for two rows: the seed fails, and the entrypoint
\* exits before it starts the server.  Docker starts the container again.
Boot ==
  /\ api = "down"
  /\ \A n \in Seeded : plans[n] <= 1
  /\ Seed
  /\ api' = "up"
  /\ UNCHANGED <<cache, wish, placed, changes>>

Stop ==
  /\ api = "up"
  /\ api' = "down"
  /\ UNCHANGED <<texts, plans, cache, wish, placed, changes>>

----------------------------------------------------------------------------
(* The panel, while the API serves it.                                     *)

Edit ==
  /\ api = "up"
  /\ changes < MaxChanges
  /\ changes' = changes + 1
  /\ UNCHANGED <<api, cache>>

SetText(l, v) ==
  /\ Edit
  /\ texts' = [texts EXCEPT ![l] = v]
  /\ UNCHANGED <<plans, placed>>

\* (key, lang) is unique: 400 if there is a row.
CreateBotText(l, v) ==
  /\ texts[l] = NoText
  /\ SetText(l, v)
  /\ wish' = [wish EXCEPT ![l] = v]

PatchBotText(l, v) ==
  /\ texts[l] # NoText
  /\ SetText(l, v)
  /\ wish' = [wish EXCEPT ![l] = v]

DeleteBotText(l) ==
  /\ texts[l] # NoText
  /\ SetText(l, NoText)
  /\ wish' = [wish EXCEPT ![l] = "deleted"]

\* Nothing asks whether the name is taken.
CreatePlan(n) ==
  /\ Edit
  /\ plans' = [plans EXCEPT ![n] = @ + 1]
  /\ placed' = [placed EXCEPT ![n] = @ + 1]
  /\ UNCHANGED <<texts, wish>>

\* A change of the name.
PatchPlan(n, new) ==
  /\ plans[n] > 0 /\ new # n
  /\ Edit
  /\ plans' = [plans EXCEPT ![n] = @ - 1, ![new] = @ + 1]
  /\ placed' = [placed EXCEPT ![new] = @ + 1]
  /\ UNCHANGED <<texts, wish>>

\* A plan that has been sold cannot be deleted (400).
DeletePlan(n) ==
  /\ plans[n] > 0
  /\ Edit
  /\ plans' = [plans EXCEPT ![n] = @ - 1]
  /\ UNCHANGED <<texts, wish, placed>>

----------------------------------------------------------------------------
(* The worker.                                                             *)

\* Mutant of Reload: rows are added to the cache, none is ever taken out.
ReloadMerges ==
  cache' = [l \in Languages |-> IF texts[l] = NoText THEN cache[l] ELSE texts[l]]

\* refresh: the cache is built anew and replaced as a whole.
Reload == cache' = texts

\* refresh_texts, at the start of the worker and in every round of housekeeping.
RefreshTexts ==
  /\ Reload
  /\ UNCHANGED <<api, texts, plans, wish, placed, changes>>

\* text(): the row of the language, or else the English one, if it says
\* anything; a missing row, unlike an empty English one, is made up for by the
\* default.  The result says in which language it is.
Says(db, l) ==
  CASE db[l] \notin {NoText, Empty} -> <<l, db[l]>>
    [] db[l] \in {NoText, Empty} /\ db[English] # NoText -> <<English, db[English]>>
    [] db[l] \in {NoText, Empty} /\ db[English] = NoText ->
         <<IF l \in Shipped THEN l ELSE English, Original>>

----------------------------------------------------------------------------
Next ==
  \/ Boot \/ Stop \/ RefreshTexts
  \/ \E l \in Languages :
       \/ DeleteBotText(l)
       \/ \E v \in Wordings : CreateBotText(l, v) \/ PatchBotText(l, v)
  \/ \E n \in Names :
       \/ CreatePlan(n) \/ DeletePlan(n)
       \/ \E new \in Names : PatchPlan(n, new)

Spec == Init /\ [][Next]_vars

\* Containers are restarted (restart: unless-stopped), and housekeeping returns.
Fairness == WF_vars(Boot) /\ WF_vars(RefreshTexts)

FairSpec == Spec /\ Fairness

----------------------------------------------------------------------------
\* However often the API starts, what an operator wrote stays until the operator
\* changes it; what the operator left alone, or deleted, holds the default or
\* nothing; and no start adds a plan beside one of the same name (seed: "never
\* duplicates rows and never overwrites operator edits made from the panel").
PanelDecides ==
  /\ \A l \in Languages :
       /\ wish[l] \in Wordings => texts[l] = wish[l]
       /\ wish[l] \notin Wordings => texts[l] \in {Original, NoText}
  /\ \A n \in Names : plans[n] <= placed[n] + 1

\* Once the operator stops editing, the worker's users come to be told what the
\* table says, in every language, deleted and emptied rows included (refresh,
\* housekeeping_loop, text).
TextsConverge == <>[](\A l \in Languages : Says(cache, l) = Says(texts, l))

\* A container that is started again serves again: the seed, run on every start,
\* is idempotent whatever the operator did in between (seed.py:1-6).
ApiComesBack == api = "down" ~> api = "up"
=============================================================================
