---------------------------- MODULE BotUsersProofs ----------------------------
(***************************************************************************)
(* How stale the bot's idea of a user's language can be, for any number of *)
(* concurrent updates, any languages, changes and faults, and any life of  *)
(* an entry and patience of a call.                                        *)
(*                                                                         *)
(* The argument (AnswersRecent): what an answer says was the row's at some *)
(* moment of the call, and the call is no older than the age the bot       *)
(* counts from its update's `now`; the entry is dated from that `now` too. *)
(***************************************************************************)
EXTENDS BotUsers, TLAPS

\* Only _upsert_user inserts a row, and what can become the language of a row
\* is a language.
Insertable ==
  \A c \in Calls :
    /\ call[c].stage = "missing" => call[c].op \in {"upsert", "record"}
    /\ call[c].stage = "differs" => call[c].op = "language" /\ call[c].lang \in Languages
    /\ call[c].op \in {"upsert", "record"} /\ call[c].stage \in {"sent", "missing"}
       => call[c].lang \in Languages

TypeInv == TypeOK /\ Insertable /\ (cache.left > 0 => cache.lang \in Languages)

\* An answer that the bot may cache was true not longer ago than its update is old.
\* A call that was given up is cached by nobody.
Cacheable(e) ==
  \/ call[e].op = "upsert" /\ call[e].stage \in {"found", "ok"}
  \/ call[e].op = "language" /\ call[e].stage \in {"found", "ok"}

AnswersRecent ==
  \A e \in Updates : Cacheable(e) =>
    call[e].lang \in Languages /\ heldAgo[call[e].lang] <= update[e].age

\* The row holds its language now.
RowHeldNow == user \in Languages => heldAgo[user] = 0

FreshInv == TypeInv /\ AnswersRecent /\ RowHeldNow /\ CacheFresh

LEMMA Constants ==
  /\ Hint \in Languages /\ Fallback \in Languages /\ Known \subseteq Languages
  /\ Offered \subseteq Languages /\ NoLanguage \notin Languages
  /\ TTL \in Nat /\ Patience \in Nat /\ Patience < TTL /\ Ages \in Nat
  /\ Ages = TTL + Patience + 1
  /\ Updates \subseteq Calls /\ Late \in Calls /\ Late \notin Updates
  BY BotAssumption DEF Ages, Calls

LEMMA FreshInit == Init => FreshInv
<1>. SUFFICES ASSUME Init PROVE FreshInv
  OBVIOUS
<1>1. TypeOK
  BY Constants, BotAssumption DEF Init, TypeOK, Maybe, Kinds, NoUpdate, NoCall, Call, Ops, Done
<1>. QED
  BY <1>1, Constants DEF Init, FreshInv, TypeInv, Insertable, AnswersRecent, Cacheable,
       RowHeldNow, CacheFresh, NoCall

----------------------------------------------------------------------------
(* The server: every step of it on a call.                                 *)

LEMMA LookUpFresh ==
  ASSUME FreshInv, NEW c \in Calls, LookUp(c)
  PROVE  FreshInv'
<1>. USE Constants DEF Stage, Bot, history
<1>0. /\ call[c] \in Call /\ call[c].op \in {"upsert", "record"} /\ call[c].stage = "sent"
      /\ user \in Maybe /\ UNCHANGED <<user, cache, update, heldAgo, changes, faults>>
  BY DEF LookUp, FreshInv, TypeInv, TypeOK
<1>1. TypeInv'
  <2>1. CASE user = NoLanguage
    <3>1. call' = [call EXCEPT ![c].stage = "missing"]
      BY <2>1 DEF LookUp
    <3>2. TypeOK'
      BY <1>0, <3>1 DEF FreshInv, TypeInv, TypeOK, Call, Done
    <3>3. Insertable'
      BY <1>0, <3>1 DEF FreshInv, TypeInv, TypeOK, Insertable, Call
    <3>. QED
      BY <1>0, <3>2, <3>3 DEF FreshInv, TypeInv
  <2>2. CASE user # NoLanguage
    <3>. DEFINE told == IF call[c].op = "upsert" THEN user ELSE NoLanguage
    <3>1. told \in Maybe
      BY <1>0 DEF Maybe
    <3>. HIDE DEF told
    <3>2. call' = [call EXCEPT ![c].stage = "found", ![c].lang = told]
      BY <2>2 DEF LookUp, told
    <3>3. TypeOK'
      BY <1>0, <3>1, <3>2 DEF FreshInv, TypeInv, TypeOK, Call
    <3>4. Insertable'
      BY <1>0, <3>2 DEF FreshInv, TypeInv, TypeOK, Insertable, Call
    <3>. QED
      BY <1>0, <3>3, <3>4 DEF FreshInv, TypeInv
  <2>. QED
    BY <2>1, <2>2
<1>2. AnswersRecent'
  BY DEF LookUp, FreshInv, TypeInv, TypeOK, AnswersRecent, RowHeldNow, Cacheable, Call, Ops, Done, Maybe
<1>3. RowHeldNow' /\ CacheFresh'
  BY DEF LookUp, FreshInv, RowHeldNow, CacheFresh
<1>. QED
  BY <1>1, <1>2, <1>3 DEF FreshInv

LEMMA InsertFresh ==
  ASSUME FreshInv, NEW c \in Calls, Insert(c)
  PROVE  FreshInv'
<1>. USE Constants DEF Stage, Bot
<1>1. TypeInv'
  BY DEF Insert, Hold, FreshInv, TypeInv, TypeOK, Insertable, Call, Ops, Done, Maybe
<1>2. AnswersRecent'
  <2>1. CASE Stage(c, "error") /\ UNCHANGED <<user, heldAgo>>
    BY <2>1 DEF Insert, FreshInv, TypeInv, TypeOK, AnswersRecent, Cacheable, Call
  <2>2. CASE Stage(c, "ok") /\ user' = call[c].lang /\ Hold(user')
    <3>1. /\ call[c].op \in {"upsert", "record"} /\ call[c].lang \in Languages
          /\ call'[c].op = call[c].op /\ call'[c].lang = call[c].lang
          /\ heldAgo' = [heldAgo EXCEPT ![call[c].lang] = 0] /\ UNCHANGED update
      BY <2>2 DEF Insert, Hold, FreshInv, TypeInv, TypeOK, Insertable, Call
    <3>2. \A d \in Calls \ {c} : call'[d] = call[d]
      BY <2>2 DEF FreshInv, TypeInv, TypeOK
    <3>3. \A l \in Languages : heldAgo'[l] = heldAgo[l] \/ heldAgo'[l] = 0
      BY <3>1 DEF FreshInv, TypeInv, TypeOK
    <3>. QED
      BY <3>1, <3>2, <3>3 DEF FreshInv, TypeInv, TypeOK, AnswersRecent, Cacheable
  <2>. QED
    BY <2>1, <2>2 DEF Insert
<1>3. RowHeldNow' /\ CacheFresh'
  BY DEF Insert, Hold, FreshInv, TypeInv, TypeOK, Insertable, RowHeldNow, CacheFresh, Maybe
<1>. QED
  BY <1>1, <1>2, <1>3 DEF FreshInv

LEMMA RefreshFresh ==
  ASSUME FreshInv, NEW c \in Calls, Refresh(c)
  PROVE  FreshInv'
<1>. USE Constants DEF Stage, Bot, history
<1>1. TypeInv'
  BY DEF Refresh, FreshInv, TypeInv, TypeOK, Insertable, Call, Ops, Done, Maybe
<1>2. AnswersRecent'
  BY DEF Refresh, FreshInv, TypeInv, TypeOK, Insertable, AnswersRecent, Cacheable, Call
<1>3. RowHeldNow' /\ CacheFresh'
  BY DEF Refresh, FreshInv, RowHeldNow, CacheFresh
<1>. QED
  BY <1>1, <1>2, <1>3 DEF FreshInv

LEMMA LookUpChooserFresh ==
  ASSUME FreshInv, NEW c \in Calls, LookUpChooser(c)
  PROVE  FreshInv'
<1>. USE Constants DEF Stage, Bot, history
<1>0. /\ call[c] \in Call /\ call[c].op = "language" /\ call[c].stage = "sent"
      /\ user \in Maybe /\ UNCHANGED <<user, cache, update, heldAgo, changes, faults>>
  BY DEF LookUpChooser, FreshInv, TypeInv, TypeOK
<1>1. ASSUME NEW s \in {"error", "found", "differs"},
             call' = [call EXCEPT ![c].stage = s],
             s # "error" => call[c].lang \in Languages,
             s = "found" => user = call[c].lang
      PROVE  FreshInv'
  <2>1. TypeInv'
    <3>1. TypeOK'
      BY <1>0, <1>1 DEF FreshInv, TypeInv, TypeOK, Call, Done
    <3>2. Insertable'
      BY <1>0, <1>1 DEF FreshInv, TypeInv, TypeOK, Insertable, Call
    <3>. QED
      BY <1>0, <3>1, <3>2 DEF FreshInv, TypeInv
  <2>2. AnswersRecent'
    BY <1>0, <1>1 DEF FreshInv, TypeInv, TypeOK, AnswersRecent, RowHeldNow, Cacheable, Call
  <2>3. RowHeldNow' /\ CacheFresh'
    BY <1>0 DEF FreshInv, RowHeldNow, CacheFresh
  <2>. QED
    BY <2>1, <2>2, <2>3 DEF FreshInv
<1>. QED
  BY <1>1 DEF LookUpChooser

LEMMA SetLanguageFresh ==
  ASSUME FreshInv, NEW c \in Calls, SetLanguage(c)
  PROVE  FreshInv'
<1>. USE Constants DEF Stage, Bot
<1>0. call[c].op = "language" /\ call[c].lang \in Languages
  BY DEF SetLanguage, FreshInv, TypeInv, Insertable
<1>1. TypeInv'
  BY <1>0 DEF SetLanguage, Hold, FreshInv, TypeInv, TypeOK, Insertable, Call, Ops, Done, Maybe
<1>2. AnswersRecent'
  <2>1. /\ call'[c].lang = call[c].lang
        /\ heldAgo' = [heldAgo EXCEPT ![call[c].lang] = 0] /\ UNCHANGED update
    BY DEF SetLanguage, Hold, FreshInv, TypeInv, TypeOK, Call
  <2>2. \A d \in Calls \ {c} : call'[d] = call[d]
    BY DEF SetLanguage, FreshInv, TypeInv, TypeOK
  <2>3. \A l \in Languages : heldAgo'[l] = heldAgo[l] \/ heldAgo'[l] = 0
    BY <2>1 DEF FreshInv, TypeInv, TypeOK
  <2>. QED
    BY <1>0, <2>1, <2>2, <2>3 DEF FreshInv, TypeInv, TypeOK, AnswersRecent, Cacheable
<1>3. RowHeldNow' /\ CacheFresh'
  BY <1>0 DEF SetLanguage, Hold, FreshInv, TypeInv, TypeOK, RowHeldNow, CacheFresh, Maybe
<1>. QED
  BY <1>1, <1>2, <1>3 DEF FreshInv

LEMMA PatchUserFresh ==
  ASSUME FreshInv, NEW l \in Languages, PatchUser(l)
  PROVE  FreshInv'
<1>. USE Constants DEF Bot
<1>1. TypeInv'
  BY BotAssumption DEF PatchUser, Hold, FreshInv, TypeInv, TypeOK, Insertable, Maybe
<1>2. AnswersRecent'
  BY DEF PatchUser, Hold, FreshInv, TypeInv, TypeOK, AnswersRecent, Cacheable
<1>3. RowHeldNow' /\ CacheFresh'
  BY DEF PatchUser, Hold, FreshInv, TypeInv, TypeOK, RowHeldNow, CacheFresh, Maybe
<1>. QED
  BY <1>1, <1>2, <1>3 DEF FreshInv

----------------------------------------------------------------------------
(* The bot.                                                                *)

LEMMA FinishLeaves ==
  ASSUME TypeInv, NEW e \in Updates, Finish(e)
  PROVE  /\ call' \in [Calls -> Call]
         /\ Insertable'
         /\ ~Cacheable(e)'
         /\ \A c \in Calls \ {e} : call'[c] = call[c]
  BY Constants DEF Finish, TypeInv, TypeOK, Insertable, Cacheable, Call, Ops, Done, Maybe, NoCall

LEMMA AskLeaves ==
  ASSUME TypeInv, NEW e \in Updates, NEW op \in Ops, NEW lang \in Maybe, Ask(e, op, lang),
         op \in {"upsert", "record"} => lang \in Languages
  PROVE  /\ call' \in [Calls -> Call]
         /\ Insertable'
         /\ ~Cacheable(e)'
         /\ \A c \in Calls \ {e} : call'[c] = call[c]
<1>. DEFINE asked == [op |-> op, stage |-> "sent", lang |-> lang]
<1>1. call' = [call EXCEPT ![e] = asked] /\ asked \in Call
  BY DEF Ask, Call
<1>. HIDE DEF asked
<1>2. asked.op = op /\ asked.stage = "sent" /\ asked.lang = lang
  BY DEF asked
<1>. QED
  BY <1>1, <1>2, Constants DEF TypeInv, TypeOK, Insertable, Cacheable, Done

\* Whatever the handler of an update does next, the call it leaves behind is one
\* that has answered nothing yet, or none.
LEMMA HandlerLeaves ==
  ASSUME TypeInv, NEW e \in Updates, NEW kind \in Kinds,
         NEW pick \in Offered \cup {NoLanguage}, NEW lang \in Languages,
         Handler(e, kind, pick, lang)
  PROVE  /\ call' \in [Calls -> Call]
         /\ Insertable'
         /\ ~Cacheable(e)'
         /\ \A c \in Calls \ {e} : call'[c] = call[c]
<1>1. CASE kind = "text"
  BY <1>1, FinishLeaves DEF Handler
<1>2. CASE kind = "choice"
  BY <1>2, AskLeaves, Constants DEF Handler, Ops, Maybe
<1>3. CASE kind = "link"
  BY <1>3, AskLeaves DEF Handler, Ops, Maybe
<1>. QED
  BY <1>1, <1>2, <1>3 DEF Kinds

LEMMA ArriveFresh ==
  ASSUME FreshInv, NEW e \in Updates, NEW kind \in Kinds,
         NEW pick \in Offered \cup {NoLanguage}, Arrive(e, kind, pick)
  PROVE  FreshInv'
<1>. USE Constants DEF FreshInv
<1>1. /\ call' \in [Calls -> Call]
      /\ Insertable'
      /\ ~Cacheable(e)'
      /\ \A c \in Calls \ {e} : call'[c] = call[c]
  <2>1. CASE cache.left > 0 /\ Handler(e, kind, pick, cache.lang)
    <3>1. cache.lang \in Languages
      BY <2>1 DEF TypeInv
    <3>. QED
      BY <2>1, <3>1, HandlerLeaves
  <2>2. CASE Ask(e, "upsert", Hint)
    BY <2>2, AskLeaves DEF Ops, Maybe
  <2>. QED
    BY <2>1, <2>2 DEF Arrive
<1>2. /\ UNCHANGED <<user, cache, heldAgo, faults>>
      /\ changes' \in 0..MaxChanges
      /\ \E u \in [kind : Kinds, pick : Offered \cup {NoLanguage}, age : 0..Patience] :
           update' = [update EXCEPT ![e] = u]
  <2>1. /\ UNCHANGED <<user, cache, heldAgo, faults>>
        /\ changes' \in 0..MaxChanges
    BY BotAssumption DEF Arrive, Hit, TypeInv, TypeOK
  <2>. DEFINE u == IF Free(e)' THEN NoUpdate ELSE [kind |-> kind, pick |-> pick, age |-> 0]
  <2>2. update' = [update EXCEPT ![e] = u]
    BY DEF Arrive
  <2>3. u \in [kind : Kinds, pick : Offered \cup {NoLanguage}, age : 0..Patience]
    BY DEF NoUpdate, Kinds
  <2>. QED
    BY <2>1, <2>2, <2>3
<1>3. TypeInv'
  BY <1>1, <1>2 DEF TypeInv, TypeOK
<1>4. AnswersRecent'
  BY <1>1, <1>2 DEF AnswersRecent, Cacheable, TypeInv, TypeOK
<1>5. RowHeldNow' /\ CacheFresh'
  BY <1>2 DEF RowHeldNow, CacheFresh
<1>. QED
  BY <1>3, <1>4, <1>5

LEMMA ReceiveFresh ==
  ASSUME FreshInv, NEW e \in Updates, Receive(e)
  PROVE  FreshInv'
<1>. USE Constants DEF FreshInv
<1>0. /\ update[e].kind \in Kinds /\ update[e].pick \in Offered \cup {NoLanguage}
      /\ update[e].age \in 0..Patience
  BY DEF TypeInv, TypeOK
<1>1. /\ call' \in [Calls -> Call]
      /\ Insertable'
      /\ ~Cacheable(e)'
      /\ \A c \in Calls \ {e} : call'[c] = call[c]
      /\ \/ cache' = cache
         \/ /\ cache'.lang \in Languages /\ cache' \in [lang : Maybe, left : 0..TTL]
            /\ heldAgo[cache'.lang] <= TTL + Patience - cache'.left
  <2>1. CASE Answered(e, "upsert") /\ Resolved(e)
    <3>1. CASE /\ call[e].stage = "ok"
               /\ cache' = [lang |-> call[e].lang, left |-> TTL - update[e].age]
               /\ Handler(e, update[e].kind, update[e].pick, call[e].lang)
      <4>1. call[e].lang \in Languages /\ heldAgo[call[e].lang] <= update[e].age
        BY <2>1, <3>1 DEF Answered, AnswersRecent, Cacheable
      <4>2. heldAgo[call[e].lang] \in Nat
        BY <4>1 DEF TypeInv, TypeOK
      <4>3. /\ cache'.lang \in Languages /\ cache' \in [lang : Maybe, left : 0..TTL]
            /\ heldAgo[cache'.lang] <= TTL + Patience - cache'.left
        BY <1>0, <3>1, <4>1, <4>2 DEF Maybe
      <4>. QED
        BY <1>0, <3>1, <4>1, <4>3, HandlerLeaves
    <3>2. CASE /\ UNCHANGED cache
               /\ Handler(e, update[e].kind, update[e].pick, Fallback)
      BY <1>0, <3>2, HandlerLeaves
    <3>. QED
      BY <2>1, <3>1, <3>2 DEF Resolved
  <2>2. CASE /\ Answered(e, "language")
             /\ Finish(e)
             /\ cache' = IF call[e].stage = "ok" THEN [lang |-> call[e].lang, left |-> TTL] ELSE cache
    <3>1. /\ call' \in [Calls -> Call]
          /\ Insertable'
          /\ ~Cacheable(e)'
          /\ \A c \in Calls \ {e} : call'[c] = call[c]
      BY <2>2, FinishLeaves
    <3>2. CASE call[e].stage = "ok"
      <4>1. call[e].lang \in Languages /\ heldAgo[call[e].lang] <= update[e].age
        BY <2>2, <3>2 DEF Answered, AnswersRecent, Cacheable
      <4>2. heldAgo[call[e].lang] \in Nat
        BY <4>1 DEF TypeInv, TypeOK
      <4>3. /\ cache'.lang \in Languages /\ cache' \in [lang : Maybe, left : 0..TTL]
            /\ heldAgo[cache'.lang] <= TTL + Patience - cache'.left
        BY <1>0, <2>2, <3>2, <4>1, <4>2 DEF Maybe
      <4>. QED
        BY <3>1, <4>3
    <3>3. CASE call[e].stage # "ok"
      BY <2>2, <3>1, <3>3
    <3>. QED
      BY <3>2, <3>3
  <2>3. CASE Finish(e) /\ UNCHANGED cache
    BY <2>3, FinishLeaves
  <2>. QED
    BY <2>1, <2>2, <2>3 DEF Receive
<1>2. /\ UNCHANGED <<user, heldAgo, changes, faults>>
      /\ \E u \in [kind : Kinds, pick : Offered \cup {NoLanguage}, age : 0..Patience] :
           update' = [update EXCEPT ![e] = u]
  <2>. DEFINE u == IF Free(e)' THEN NoUpdate ELSE [update[e] EXCEPT !.age = 0]
  <2>1. update' = [update EXCEPT ![e] = u]
    BY DEF Receive
  <2>2. u \in [kind : Kinds, pick : Offered \cup {NoLanguage}, age : 0..Patience]
    BY DEF NoUpdate, Kinds, TypeInv, TypeOK
  <2>. QED
    BY <2>1, <2>2 DEF Receive, history
<1>3. TypeInv'
  BY <1>1, <1>2 DEF TypeInv, TypeOK
<1>4. AnswersRecent'
  BY <1>1, <1>2 DEF AnswersRecent, Cacheable, TypeInv, TypeOK
<1>5. RowHeldNow' /\ CacheFresh'
  BY <1>1, <1>2 DEF RowHeldNow, CacheFresh
<1>. QED
  BY <1>3, <1>4, <1>5

----------------------------------------------------------------------------
(* The network, and time.                                                  *)

LEMMA NetworkFresh ==
  ASSUME FreshInv, LateAnswer \/ \E e \in Updates : Lost(e) \/ GiveUp(e)
  PROVE  FreshInv'
<1>. USE Constants, BotAssumption
     DEF FreshInv, TypeInv, TypeOK, Insertable, Cacheable, Call, Ops, Done, Maybe, Fault, Bot, history
<1>1. ASSUME NEW e \in Updates, Lost(e) PROVE FreshInv'
  BY <1>1 DEF Lost, Stage, AnswersRecent, RowHeldNow, CacheFresh
<1>2. ASSUME NEW e \in Updates, GiveUp(e) PROVE FreshInv'
  <2>1. /\ call' = [call EXCEPT ![e].stage = "error", ![Late] = call[e]]
        /\ call[e].stage \notin Done /\ UNCHANGED <<user, cache, update, heldAgo, changes>>
    BY <1>2 DEF GiveUp
  <2>. DEFINE given == [call[e] EXCEPT !.stage = "error"]
  <2>2. /\ call'[e] = given /\ call'[Late] = call[e]
        /\ \A c \in Calls \ {e, Late} : call'[c] = call[c]
    BY <2>1
  <2>3. given \in Call /\ given.stage = "error" /\ call[e] \in Call
    OBVIOUS
  <2>4. call' \in [Calls -> Call]
    BY <2>1, <2>3
  <2>. HIDE DEF given
  <2>5. Insertable'
    <3>1. ASSUME NEW c \in Calls
          PROVE  /\ call'[c].stage = "missing" => call'[c].op \in {"upsert", "record"}
                 /\ call'[c].stage = "differs" => call'[c].op = "language" /\ call'[c].lang \in Languages
                 /\ call'[c].op \in {"upsert", "record"} /\ call'[c].stage \in {"sent", "missing"}
                    => call'[c].lang \in Languages
      <4>1. CASE c = e
        BY <4>1, <2>2, <2>3
      <4>2. CASE c # e
        BY <4>2, <2>2
      <4>. QED
        BY <4>1, <4>2
    <3>. QED
      BY <3>1
  <2>6. AnswersRecent'
    BY <2>1, <2>2, <2>3 DEF AnswersRecent
  <2>7. TypeOK'
    <3>1. faults' = faults + 1 /\ faults < MaxFaults
      BY <1>2 DEF GiveUp
    <3>2. faults' \in 0..MaxFaults
      BY <3>1
    <3>. QED
      BY <2>1, <2>4, <3>2
  <2>8. RowHeldNow' /\ CacheFresh' /\ (cache'.left > 0 => cache'.lang \in Languages)
    BY <2>1 DEF RowHeldNow, CacheFresh
  <2>. QED
    BY <2>5, <2>6, <2>7, <2>8
<1>3. CASE LateAnswer
  BY <1>3 DEF LateAnswer, Finish, NoCall, AnswersRecent, RowHeldNow, CacheFresh
<1>. QED
  BY <1>1, <1>2, <1>3

\* Ages, lives and times since grow and shrink together.
LEMMA TickFresh ==
  ASSUME FreshInv, Tick
  PROVE  FreshInv'
<1>. USE Constants DEF FreshInv
<1>1. TypeInv'
  <2>1. cache' \in [lang : Maybe, left : 0..TTL] /\ (cache'.left > 0 => cache'.lang \in Languages)
    BY DEF Tick, TypeInv, TypeOK
  <2>2. update' \in [Updates -> [kind : Kinds, pick : Offered \cup {NoLanguage}, age : 0..Patience]]
    BY DEF Tick, TypeInv, TypeOK
  <2>3. heldAgo' \in [Languages -> 0..Ages]
    BY DEF Tick, TypeInv, TypeOK
  <2>. QED
    BY <2>1, <2>2, <2>3 DEF Tick, TypeInv, TypeOK, Insertable
<1>2. \A l \in Languages :
        /\ heldAgo[l] \in 0..Ages /\ heldAgo'[l] \in 0..Ages
        /\ heldAgo'[l] <= heldAgo[l] + 1
  BY DEF Tick, TypeInv, TypeOK
<1>3. AnswersRecent'
  <2>. SUFFICES ASSUME NEW e \in Updates, Cacheable(e)'
                PROVE  call'[e].lang \in Languages /\ heldAgo'[call'[e].lang] <= update'[e].age
    BY DEF AnswersRecent
  <2>1. call'[e] = call[e] /\ ~Free(e) /\ Cacheable(e)
    BY DEF Tick, Cacheable, Free
  <2>2. update'[e].age = update[e].age + 1 /\ update[e].age \in Nat
    BY <2>1 DEF Tick, TypeInv, TypeOK
  <2>3. call[e].lang \in Languages /\ heldAgo[call[e].lang] <= update[e].age
    BY <2>1 DEF AnswersRecent
  <2>. QED
    BY <1>2, <2>1, <2>2, <2>3
<1>4. RowHeldNow'
  BY DEF Tick, RowHeldNow
<1>5. CacheFresh'
  <2>. SUFFICES ASSUME cache'.left > 0
                PROVE  /\ cache'.lang \in Languages
                       /\ heldAgo'[cache'.lang] <= TTL + Patience - cache'.left
    BY DEF CacheFresh
  <2>1. /\ cache.left > 0 /\ cache.left \in 0..TTL
        /\ cache'.lang = cache.lang /\ cache'.left = cache.left - 1
    BY DEF Tick, TypeInv, TypeOK
  <2>. QED
    BY <1>2, <2>1 DEF CacheFresh
<1>. QED
  BY <1>1, <1>3, <1>4, <1>5

----------------------------------------------------------------------------
LEMMA FreshNext == FreshInv /\ [Next]_vars => FreshInv'
<1>. SUFFICES ASSUME FreshInv, [Next]_vars PROVE FreshInv'
  OBVIOUS
<1>1. ASSUME NEW c \in Calls, Serve(c) PROVE FreshInv'
  BY <1>1, LookUpFresh, InsertFresh, RefreshFresh, LookUpChooserFresh, SetLanguageFresh
     DEF Serve
<1>2. ASSUME NEW e \in Updates, NEW kind \in Kinds \ {"choice"}, Arrive(e, kind, NoLanguage)
      PROVE  FreshInv'
  BY <1>2, ArriveFresh
<1>3. ASSUME NEW e \in Updates, NEW pick \in Offered, Arrive(e, "choice", pick)
      PROVE  FreshInv'
  BY <1>3, ArriveFresh DEF Kinds
<1>4. CASE UNCHANGED vars
  BY <1>4 DEF vars, FreshInv, TypeInv, TypeOK, Insertable, AnswersRecent, Cacheable, RowHeldNow,
              CacheFresh
<1>. QED
  BY <1>1, <1>2, <1>3, <1>4, PatchUserFresh, ReceiveFresh, NetworkFresh, TickFresh DEF Next

LEMMA FreshAlways == Spec => []FreshInv
  BY FreshInit, FreshNext, PTL DEF Spec

\* Every variable keeps its type (UserMiddleware, api_client, users_upsert).
THEOREM TypeCorrect == Spec => []TypeOK
<1>1. FreshInv => TypeOK
  BY DEF FreshInv, TypeInv
<1>. QED
  BY <1>1, FreshAlways, PTL

\* A language the bot uses from its cache was the row's not longer ago than the
\* entry's life and one call, for any number of updates handled at the same time
\* (UserMiddleware, set_cached_language).
THEOREM CacheStaysFresh == Spec => []CacheFresh
<1>1. FreshInv => CacheFresh
  BY DEF FreshInv
<1>. QED
  BY <1>1, FreshAlways, PTL
=============================================================================
