------------------------------ MODULE RateLimit ------------------------------
(***************************************************************************)
(* The request throttle of the intake, apps/api/app/services/ratelimit.py: *)
(* one Redis counter per identity (a telegram user, a group chat), created *)
(* with its expiry by SET NX EX and counted up by INCR.  The two commands  *)
(* of one check are two steps, between which the counter may expire.       *)
(***************************************************************************)
EXTENDS Integers

CONSTANTS Users, Chats,  \* identities, by scope
          NoChat,        \* the request comes from a private chat
          Calls,         \* concurrent checks
          Limit,         \* RATE_LIMIT_MAX_REQUESTS
          Window,        \* RATE_LIMIT_WINDOW_SECONDS, in ticks
          MaxHits,       \* bound: hits of a counter in its life
          MaxOpened      \* bound: checks let through by errors in that time

ASSUME RateLimitAssumption ==
  /\ NoChat \notin Chats
  /\ Limit \in Nat /\ Window \in Nat \ {0} /\ MaxHits \in Nat /\ MaxOpened \in Nat

VARIABLES
  count,   \* the counters, 0 when the key does not exist
  ttl,     \* ticks until the key expires, Forever if it has no expiry
  call,    \* the checks in progress
  passed,  \* history: checks of an identity passed since its key was created
  opened   \* history: those of them that passed because Redis failed

key == <<count, ttl>>
history == <<passed, opened>>
vars == <<key, call, history>>

Identities == Users \cup Chats
Forever == Window + 1

TypeOK ==
  /\ count \in [Identities -> Nat]
  /\ ttl \in [Identities -> 0..Forever]
  /\ call \in [Calls -> [pc : {"idle", "set", "incr"}, id : Identities,
                         chat : Chats \cup {NoChat}]]
  /\ passed \in [Identities -> Nat]
  /\ opened \in [Identities -> Nat]

Init ==
  /\ count = [i \in Identities |-> 0]
  /\ ttl = [i \in Identities |-> 0]
  /\ \E u \in Users :
       call = [c \in Calls |-> [pc |-> "idle", id |-> u, chat |-> NoChat]]
  /\ passed = [i \in Identities |-> 0]
  /\ opened = [i \in Identities |-> 0]

----------------------------------------------------------------------------
At(c, pc) == call[c].pc = pc

Id(c) == call[c].id

\* is_rate_limited checks the user first, then the group chat if there is one.
Arrive(c, u, g) ==
  /\ At(c, "idle")
  /\ call' = [call EXCEPT ![c] = [pc |-> "set", id |-> u, chat |-> g]]
  /\ UNCHANGED <<key, history>>

\* Mutant of Conclude: a chat is checked even when there is none.
ConcludeWithChat(c, pass) ==
  call' = [call EXCEPT
    ![c] = IF pass
           THEN [pc |-> "set", id |-> @.chat, chat |-> NoChat]
           ELSE [@ EXCEPT !.pc = "idle", !.chat = NoChat]]

\* The check of an identity ends; a pass goes on with the chat.
Conclude(c, pass) ==
  call' = [call EXCEPT
    ![c] = IF pass /\ @.chat # NoChat
           THEN [pc |-> "set", id |-> @.chat, chat |-> NoChat]
           ELSE [@ EXCEPT !.pc = "idle", !.chat = NoChat]]

\* SET key 1 NX EX window, as Redis executes it when there is no key.
Set(i) ==
  /\ count[i] = 0
  /\ count' = [count EXCEPT ![i] = 1]
  /\ ttl' = [ttl EXCEPT ![i] = Window]

\* INCR key: a key that has expired meanwhile starts again, with no expiry.
Hit(i) ==
  /\ count[i] < MaxHits
  /\ count' = [count EXCEPT ![i] = @ + 1]
  /\ ttl' = [ttl EXCEPT ![i] = IF count[i] = 0 THEN Forever ELSE @]

\* The history of a key, begun anew if a command made it just now: p more checks
\* have passed, o of them by an error.
Counts(i, made, p, o) ==
  /\ passed' = [passed EXCEPT ![i] = (IF made THEN 0 ELSE @) + p]
  /\ opened' = [opened EXCEPT ![i] = (IF made THEN 0 ELSE @) + o]

Tally(pass) == IF pass THEN 1 ELSE 0

SetNx(c) ==
  /\ At(c, "set")
  /\ \/ /\ Set(Id(c))
        /\ Counts(Id(c), TRUE, Tally(1 <= Limit), 0)
        /\ Conclude(c, 1 <= Limit)
     \/ /\ count[Id(c)] # 0
        /\ call' = [call EXCEPT ![c].pc = "incr"]
        /\ UNCHANGED <<key, history>>

\* Mutant of Incr: the limit is compared one too late.
IncrLate(c) ==
  LET pass == count[Id(c)] <= Limit IN
  /\ At(c, "incr")
  /\ Hit(Id(c))
  /\ Counts(Id(c), count[Id(c)] = 0, Tally(pass), 0)
  /\ Conclude(c, pass)

Incr(c) ==
  LET pass == count[Id(c)] + 1 <= Limit IN
  /\ At(c, "incr")
  /\ Hit(Id(c))
  /\ Counts(Id(c), count[Id(c)] = 0, Tally(pass), 0)
  /\ Conclude(c, pass)

\* The command at hand is executed, but its reply is lost.
Executed(c) ==
  \/ At(c, "set") /\ Set(Id(c))
  \/ At(c, "incr") /\ Hit(Id(c))

\* The client library sends it again.
Repeat(c) ==
  /\ Executed(c)
  /\ Counts(Id(c), count[Id(c)] = 0, 0, 0)
  /\ UNCHANGED call

\* Redis fails, with or without having executed the command: the check of this
\* identity passes.
FailOpen(c) ==
  /\ call[c].pc \in {"set", "incr"} /\ opened[Id(c)] < MaxOpened
  /\ \/ /\ Executed(c)
        /\ Counts(Id(c), count[Id(c)] = 0, 1, 1)
     \/ /\ Counts(Id(c), FALSE, 1, 1)
        /\ UNCHANGED key
  /\ Conclude(c, TRUE)

\* A tick of the clock expires keys.
Tick ==
  LET gone == {i \in Identities : ttl[i] = 1} IN
  /\ ttl' = [i \in Identities |-> IF ttl[i] \in {0, Forever} THEN ttl[i] ELSE ttl[i] - 1]
  /\ count' = [i \in Identities |-> IF i \in gone THEN 0 ELSE count[i]]
  /\ passed' = [i \in Identities |-> IF i \in gone THEN 0 ELSE passed[i]]
  /\ opened' = [i \in Identities |-> IF i \in gone THEN 0 ELSE opened[i]]
  /\ UNCHANGED call

Next ==
  \/ \E c \in Calls :
       \/ \E u \in Users, g \in Chats \cup {NoChat} : Arrive(c, u, g)
       \/ SetNx(c) \/ Incr(c) \/ Repeat(c) \/ FailOpen(c)
  \/ Tick

Spec == Init /\ [][Next]_vars

----------------------------------------------------------------------------
\* However checks of one identity overlap, and whatever expires between their
\* commands, no more than Limit of them pass in the life of its counter, not
\* counting those that pass because Redis failed (check_and_increment).
BudgetPerCounter == \A i \in Identities : passed[i] <= Limit + opened[i]

\* ratelimit.py:31-34: "the counter can never be left without an expiry".
CounterExpires == \A i \in Identities : count[i] > 0 => ttl[i] # Forever
=============================================================================
