------------------------------ MODULE BotUsers ------------------------------
(***************************************************************************)
(* One Telegram user as the bot and the API know it: the middleware's      *)
(* language cache (bot/middlewares/user.py), the /lang handler, the link   *)
(* handler, their HTTP calls (bot/services/api_client.py) and the          *)
(* endpoints behind them (routes/internal.py, routes/admin_users.py).      *)
(*                                                                         *)
(* Updates of one user are handled concurrently, one task each.  The       *)
(* server looks rows up and writes them in one transaction; two first      *)
(* messages may both find no row.  A call may be lost on either way, or    *)
(* given up by the bot while the server still works on it.                 *)
(***************************************************************************)
EXTENDS Integers

CONSTANTS Updates,    \* updates handled at the same time
          Late,       \* the place of a call the bot has given up
          Languages,
          Offered,    \* available_languages(), the choice the bot offers
          Known,      \* active rows of the languages table
          Hint,       \* the language of the user's Telegram client
          Fallback,   \* _fallback_language of it
          NoLanguage,
          TTL,        \* _TTL_SECONDS, in ticks
          Patience,   \* the longest a call takes, in ticks
          MaxChanges, \* bound: changes of the language
          MaxFaults   \* bound: calls lost or given up

ASSUME BotAssumption ==
  /\ Late \notin Updates
  /\ Offered \subseteq Languages /\ Known \subseteq Languages
  /\ Hint \in Languages /\ Fallback \in Languages /\ NoLanguage \notin Languages
  /\ TTL \in Nat /\ Patience \in Nat /\ Patience < TTL
  /\ MaxChanges \in Nat /\ MaxFaults \in Nat

VARIABLES
  user,    \* users.language, NoLanguage while there is no row
  cache,   \* _cache: the language, and the ticks it is still valid
  update,  \* what each update is about, and the ticks since its `now`
  call,    \* its HTTP call, and the one that was given up
  heldAgo, \* history: ticks since the row held each language, up to Ages
  changes, faults

vars == <<user, cache, update, call, heldAgo, changes, faults>>
history == <<heldAgo, changes, faults>>

Ages == TTL + Patience + 1
Calls == Updates \cup {Late}
Maybe == Languages \cup {NoLanguage}

\* What the user sends: a text, a choice of language, a link to download.
Kinds == {"text", "choice", "link"}
Ops == {"upsert", "language", "record"}
Done == {"ok", "error"}
Call == [op : Ops \cup {"none"}, stage : {"sent", "found", "missing", "differs"} \cup Done,
         lang : Maybe]
NoUpdate == [kind |-> "text", pick |-> NoLanguage, age |-> 0]
NoCall == [op |-> "none", stage |-> "ok", lang |-> NoLanguage]

TypeOK ==
  /\ user \in Maybe
  /\ cache \in [lang : Maybe, left : 0..TTL]
  /\ update \in [Updates -> [kind : Kinds, pick : Offered \cup {NoLanguage}, age : 0..Patience]]
  /\ call \in [Calls -> Call]
  /\ heldAgo \in [Languages -> 0..Ages]
  /\ changes \in 0..MaxChanges /\ faults \in 0..MaxFaults

Init ==
  /\ user = NoLanguage
  /\ cache = [lang |-> NoLanguage, left |-> 0]
  /\ update = [e \in Updates |-> NoUpdate]
  /\ call = [c \in Calls |-> NoCall]
  /\ heldAgo = [l \in Languages |-> Ages]
  /\ changes = 0 /\ faults = 0

----------------------------------------------------------------------------
(* The API.                                                                *)

Stage(c, s) == call' = [call EXCEPT ![c].stage = s]
Bot == <<cache, update>>

\* _upsert_user, on its own or for a link that is recorded: the row is looked
\* up; an upsert answers with the language it read.
LookUp(c) ==
  /\ call[c].op \in {"upsert", "record"} /\ call[c].stage = "sent"
  /\ IF user = NoLanguage
     THEN Stage(c, "missing")
     ELSE call' = [call EXCEPT ![c].stage = "found",
                     ![c].lang = IF call[c].op = "upsert" THEN user ELSE NoLanguage]
  /\ UNCHANGED <<user, Bot, history>>

Hold(l) == heldAgo' = [heldAgo EXCEPT ![l] = 0]

\* The insert, with the language that was sent, fails (500) if another came first.
Insert(c) ==
  /\ call[c].stage = "missing"
  /\ \/ /\ user # NoLanguage
        /\ Stage(c, "error")
        /\ UNCHANGED <<user, heldAgo>>
     \/ /\ user = NoLanguage
        /\ Stage(c, "ok")
        /\ user' = call[c].lang
        /\ Hold(user')
  /\ UNCHANGED <<Bot, changes, faults>>

\* The update of a row found leaves its language alone.
Refresh(c) ==
  /\ call[c].stage = "found"
  /\ Stage(c, "ok")
  /\ UNCHANGED <<user, Bot, history>>

\* set_language looks the row up: 400 for an inactive language, 404 without a row.
LookUpChooser(c) ==
  /\ call[c].op = "language" /\ call[c].stage = "sent"
  /\ \/ (call[c].lang \notin Known \/ user = NoLanguage) /\ Stage(c, "error")
     \/ call[c].lang \in Known /\ user = call[c].lang /\ Stage(c, "found")
     \/ call[c].lang \in Known /\ user \in Languages \ {call[c].lang} /\ Stage(c, "differs")
  /\ UNCHANGED <<user, Bot, history>>

\* The language is written only if it differs from what was loaded: an edit of
\* the panel in between outlives a choice that changed nothing.
SetLanguage(c) ==
  /\ call[c].stage = "differs"
  /\ Stage(c, "ok")
  /\ user' = call[c].lang
  /\ Hold(user')
  /\ UNCHANGED <<Bot, changes, faults>>

\* patch_user, from the panel.
PatchUser(l) ==
  /\ changes < MaxChanges
  /\ user # NoLanguage
  /\ user' = l
  /\ Hold(l)
  /\ changes' = changes + 1
  /\ UNCHANGED <<Bot, call, faults>>

----------------------------------------------------------------------------
(* The bot.                                                                *)

Free(e) == call[e].op = "none"
Ask(e, op, lang) ==
  call' = [call EXCEPT ![e] = [op |-> op, stage |-> "sent", lang |-> lang]]
Finish(e) == call' = [call EXCEPT ![e] = NoCall]

\* The handler of a kind of update, once the middleware has found the language.
Handler(e, kind, pick, lang) ==
  CASE kind = "text" -> Finish(e)
    [] kind = "choice" -> Ask(e, "language", pick)
    [] kind = "link" -> Ask(e, "record", lang)

\* Mutant of Hit: every use of the entry makes it last longer.
HitProlongs == cache' = [cache EXCEPT !.left = TTL]

Hit == UNCHANGED cache

\* UserMiddleware: the cached language while it is valid, otherwise an upsert.
Arrive(e, kind, pick) ==
  /\ Free(e)
  /\ kind = "choice" => changes < MaxChanges
  /\ changes' = IF kind = "choice" THEN changes + 1 ELSE changes
  /\ \/ cache.left > 0 /\ Hit /\ Handler(e, kind, pick, cache.lang)
     \/ cache.left = 0 /\ UNCHANGED cache /\ Ask(e, "upsert", Hint)
  /\ update' = [update EXCEPT ![e] =
       IF Free(e)' THEN NoUpdate ELSE [kind |-> kind, pick |-> pick, age |-> 0]]
  /\ UNCHANGED <<user, heldAgo, faults>>

Answered(e, op) == call[e].op = op /\ call[e].stage \in Done

\* Mutant of Resolved: the language the bot falls back on is cached as well.
ResolvedAlways(e) ==
  /\ cache' = [lang |-> IF call[e].stage = "ok" THEN call[e].lang ELSE Fallback,
               left |-> TTL - update[e].age]
  /\ Handler(e, update[e].kind, update[e].pick, cache'.lang)

\* The answer is cached, from the time the update came; a failure is not.
Resolved(e) ==
  \/ /\ call[e].stage = "ok"
     /\ cache' = [lang |-> call[e].lang, left |-> TTL - update[e].age]
     /\ Handler(e, update[e].kind, update[e].pick, call[e].lang)
  \/ /\ call[e].stage = "error"
     /\ UNCHANGED cache
     /\ Handler(e, update[e].kind, update[e].pick, Fallback)

Receive(e) ==
  /\ \/ Answered(e, "upsert") /\ Resolved(e)
     \/ /\ Answered(e, "language")
        /\ Finish(e)
        /\ cache' = IF call[e].stage = "ok" THEN [lang |-> call[e].lang, left |-> TTL] ELSE cache
     \/ /\ Answered(e, "record")
        /\ Finish(e)
        /\ UNCHANGED cache
  /\ update' = [update EXCEPT ![e] = IF Free(e)' THEN NoUpdate ELSE [@ EXCEPT !.age = 0]]
  /\ UNCHANGED <<user, history>>

----------------------------------------------------------------------------
(* The network, and time.                                                  *)

Fault ==
  /\ faults < MaxFaults
  /\ faults' = faults + 1
  /\ UNCHANGED <<user, Bot, heldAgo, changes>>

\* The request never arrives, or the answer does not.
Lost(e) ==
  /\ ~Free(e) /\ call[e].stage \in {"sent", "ok"}
  /\ Fault
  /\ Stage(e, "error")

\* The bot gives up a call that the server goes on with.
GiveUp(e) ==
  /\ ~Free(e) /\ call[e].stage \notin Done
  /\ Free(Late)
  /\ Fault
  /\ call' = [call EXCEPT ![e].stage = "error", ![Late] = call[e]]

LateAnswer ==
  /\ ~Free(Late) /\ call[Late].stage \in Done
  /\ Finish(Late)
  /\ UNCHANGED <<user, Bot, history>>

\* No call takes longer than Patience: assumed, since the client's timeout
\* (httpx.Timeout) bounds each phase of a call and not the whole.
Tick ==
  /\ \A e \in Updates : Free(e) \/ update[e].age < Patience
  /\ cache' = [cache EXCEPT !.left = IF @ > 0 THEN @ - 1 ELSE 0]
  /\ update' = [e \in Updates |->
       IF Free(e) THEN update[e] ELSE [update[e] EXCEPT !.age = @ + 1]]
  /\ heldAgo' = [l \in Languages |->
       IF l = user THEN 0 ELSE IF heldAgo[l] < Ages THEN heldAgo[l] + 1 ELSE Ages]
  /\ UNCHANGED <<user, call, changes, faults>>

----------------------------------------------------------------------------
Serve(c) ==
  LookUp(c) \/ Insert(c) \/ Refresh(c) \/ LookUpChooser(c) \/ SetLanguage(c)

Next ==
  \/ \E c \in Calls : Serve(c)
  \/ \E l \in Languages : PatchUser(l)
  \/ \E e \in Updates :
       \/ \E kind \in Kinds \ {"choice"} : Arrive(e, kind, NoLanguage)
       \/ \E pick \in Offered : Arrive(e, "choice", pick)
       \/ Receive(e) \/ Lost(e) \/ GiveUp(e)
  \/ LateAnswer \/ Tick

Spec == Init /\ [][Next]_vars

\* The server works, the bot reads its answers, and time passes; whether the
\* user ever writes again is up to the user.
Fairness ==
  /\ \A c \in Calls : WF_vars(Serve(c))
  /\ \A e \in Updates : WF_vars(Receive(e))
  /\ WF_vars(LateAnswer) /\ WF_vars(Tick)

FairSpec == Spec /\ Fairness

----------------------------------------------------------------------------
\* A language the bot uses from its cache was the row's not longer ago than the
\* entry's life and one call, whatever is answered, lost or late
\* (UserMiddleware, set_cached_language).
CacheFresh ==
  cache.left > 0 =>
    /\ cache.lang \in Languages
    /\ heldAgo[cache.lang] <= TTL + Patience - cache.left

\* Once nobody changes the language any more, the cache comes to agree with the
\* row for good, however an older answer has overwritten a newer choice.
CacheConverges == <>[](cache.left > 0 => cache.lang = user)
=============================================================================
