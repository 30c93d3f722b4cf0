--------------------------- MODULE RateLimitProofs ---------------------------
(***************************************************************************)
(* No more checks of an identity pass in the life of its counter than the  *)
(* limit allows, for any number of overlapping checks, users and chats,    *)
(* whatever expires between their commands and whichever commands are      *)
(* executed twice.  Checks that pass because Redis failed are not counted. *)
(*                                                                         *)
(* The argument (BudgetInv): any other check that passes has counted       *)
(* itself, so the count is never behind the checks that passed, and the    *)
(* last one to pass saw a count within the limit.                          *)
(***************************************************************************)
EXTENDS RateLimit, TLAPS

BudgetInv ==
  /\ TypeOK
  /\ \A i \in Identities : passed[i] <= count[i] + opened[i]
  /\ BudgetPerCounter

\* The next state of the checks in progress keeps its type.
LEMMA ConcludeType ==
  ASSUME TypeOK, NEW c \in Calls, NEW pass \in BOOLEAN, Conclude(c, pass)
  PROVE  call' \in [Calls -> [pc : {"idle", "set", "incr"}, id : Identities,
                              chat : Chats \cup {NoChat}]]
<1>1. CASE pass /\ call[c].chat # NoChat
  <2>1. call[c].chat \in Identities
    BY <1>1 DEF TypeOK, Identities
  <2>. QED
    BY <1>1, <2>1 DEF Conclude, TypeOK
<1>2. CASE ~(pass /\ call[c].chat # NoChat)
  BY <1>2 DEF Conclude, TypeOK
<1>. QED
  BY <1>1, <1>2

\* No check has passed at the start.
LEMMA BudgetInit == Init => BudgetInv
  BY RateLimitAssumption DEF Init, BudgetInv, TypeOK, BudgetPerCounter, Identities, Forever

\* A step that touches the counter and the history of one identity only keeps the
\* invariant if it keeps it there.
LEMMA KeptElsewhere ==
  ASSUME BudgetInv, TypeOK', NEW i \in Identities,
         \A j \in Identities \ {i} :
           count'[j] = count[j] /\ passed'[j] = passed[j] /\ opened'[j] = opened[j],
         passed'[i] <= count'[i] + opened'[i],
         passed'[i] <= Limit + opened'[i]
  PROVE  BudgetInv'
  BY DEF BudgetInv, BudgetPerCounter

\* What the history of a key becomes.
LEMMA CountsBegun ==
  ASSUME TypeOK, NEW i \in Identities, NEW p \in 0..1, NEW o \in 0..1,
         Counts(i, TRUE, p, o)
  PROVE  /\ passed' \in [Identities -> Nat] /\ opened' \in [Identities -> Nat]
         /\ \A j \in Identities \ {i} : passed'[j] = passed[j] /\ opened'[j] = opened[j]
         /\ passed'[i] = p /\ opened'[i] = o
  BY DEF Counts, TypeOK

LEMMA CountsOn ==
  ASSUME TypeOK, NEW i \in Identities, NEW p \in 0..1, NEW o \in 0..1,
         Counts(i, FALSE, p, o)
  PROVE  /\ passed' \in [Identities -> Nat] /\ opened' \in [Identities -> Nat]
         /\ \A j \in Identities \ {i} : passed'[j] = passed[j] /\ opened'[j] = opened[j]
         /\ passed'[i] = passed[i] + p /\ opened'[i] = opened[i] + o
  BY DEF Counts, TypeOK

\* A command that is executed, and the history of its key.
LEMMA CountedHit ==
  ASSUME BudgetInv, NEW i \in Identities, NEW p \in 0..1, NEW o \in 0..1,
         count' \in [Identities -> Nat], ttl' \in [Identities -> 0..Forever],
         call' \in [Calls -> [pc : {"idle", "set", "incr"}, id : Identities,
                              chat : Chats \cup {NoChat}]],
         \A j \in Identities \ {i} : count'[j] = count[j],
         count'[i] = count[i] + 1,
         Counts(i, count[i] = 0, p, o),
         p <= o \/ count'[i] <= Limit
  PROVE  BudgetInv'
<1>. USE RateLimitAssumption
<1>1. /\ TypeOK
      /\ count[i] \in Nat /\ passed[i] \in Nat /\ opened[i] \in Nat
      /\ passed[i] <= count[i] + opened[i]
      /\ passed[i] <= Limit + opened[i]
  BY DEF BudgetInv, BudgetPerCounter, TypeOK
<1>2. CASE count[i] = 0
  <2>1. Counts(i, TRUE, p, o)
    BY <1>2 DEF Counts
  <2>2. /\ passed' \in [Identities -> Nat] /\ opened' \in [Identities -> Nat]
        /\ \A j \in Identities \ {i} : passed'[j] = passed[j] /\ opened'[j] = opened[j]
        /\ passed'[i] = p /\ opened'[i] = o
    BY <1>1, <2>1, Zenon, CountsBegun
  <2>3. TypeOK'
    <3>1. passed' \in [Identities -> Nat] /\ opened' \in [Identities -> Nat]
      BY <2>2
    <3>. QED
      BY ONLY <3>1, ttl' \in [Identities -> 0..Forever], count' \in [Identities -> Nat],
              call' \in [Calls -> [pc : {"idle", "set", "incr"}, id : Identities,
                                   chat : Chats \cup {NoChat}]]
         DEF TypeOK
  <2>4. /\ passed'[i] <= count'[i] + opened'[i]
        /\ passed'[i] <= Limit + opened'[i]
    <3>1. /\ count'[i] = 1 /\ passed'[i] = p /\ opened'[i] = o
          /\ p \in {0, 1} /\ o \in {0, 1}
      BY <1>1, <1>2, <2>2
    <3>2. p <= o \/ 1 <= Limit
      BY <3>1
    <3>. QED
      BY <3>1, <3>2
  <2>. QED
    BY <2>2, <2>3, <2>4, KeptElsewhere
<1>3. CASE count[i] # 0
  <2>1. Counts(i, FALSE, p, o)
    BY <1>3 DEF Counts
  <2>2. /\ passed' \in [Identities -> Nat] /\ opened' \in [Identities -> Nat]
        /\ \A j \in Identities \ {i} : passed'[j] = passed[j] /\ opened'[j] = opened[j]
        /\ passed'[i] = passed[i] + p /\ opened'[i] = opened[i] + o
    BY <1>1, <2>1, CountsOn
  <2>3. TypeOK'
    <3>1. passed' \in [Identities -> Nat] /\ opened' \in [Identities -> Nat]
      BY <2>2
    <3>. QED
      BY ONLY <3>1, ttl' \in [Identities -> 0..Forever], count' \in [Identities -> Nat],
              call' \in [Calls -> [pc : {"idle", "set", "incr"}, id : Identities,
                                   chat : Chats \cup {NoChat}]]
         DEF TypeOK
  <2>4. /\ passed'[i] <= count'[i] + opened'[i]
        /\ passed'[i] <= Limit + opened'[i]
    BY <1>1, <2>2
  <2>. QED
    BY <2>2, <2>3, <2>4, KeptElsewhere
<1>. QED
  BY <1>2, <1>3

\* What the two commands do to the key.
LEMMA SetKeeps ==
  ASSUME TypeOK, NEW i \in Identities, Set(i)
  PROVE  /\ count' \in [Identities -> Nat] /\ ttl' \in [Identities -> 0..Forever]
         /\ \A j \in Identities \ {i} : count'[j] = count[j]
         /\ count[i] = 0 /\ count'[i] = 1
  BY RateLimitAssumption DEF Set, TypeOK, Forever

LEMMA HitKeeps ==
  ASSUME TypeOK, NEW i \in Identities, Hit(i)
  PROVE  /\ count' \in [Identities -> Nat] /\ ttl' \in [Identities -> 0..Forever]
         /\ \A j \in Identities \ {i} : count'[j] = count[j]
         /\ count'[i] = count[i] + 1
  BY RateLimitAssumption DEF Hit, TypeOK, Forever

LEMMA ExecutedKeeps ==
  ASSUME TypeOK, NEW c \in Calls, Executed(c)
  PROVE  /\ count' \in [Identities -> Nat] /\ ttl' \in [Identities -> 0..Forever]
         /\ \A j \in Identities \ {Id(c)} : count'[j] = count[j]
         /\ count'[Id(c)] = count[Id(c)] + 1
<1>1. Id(c) \in Identities
  BY DEF TypeOK, Id
<1>2. CASE Set(Id(c))
  BY <1>1, <1>2, SetKeeps
<1>3. CASE Hit(Id(c))
  BY <1>1, <1>3, HitKeeps
<1>. QED
  BY <1>2, <1>3 DEF Executed

\* Every step preserves it.
LEMMA BudgetNext == BudgetInv /\ [Next]_vars => BudgetInv'
<1>. SUFFICES ASSUME BudgetInv, [Next]_vars PROVE BudgetInv'
  OBVIOUS
<1>. USE RateLimitAssumption
<1>0. /\ TypeOK
      /\ \A c \in Calls : Id(c) \in Identities /\ count[Id(c)] \in Nat
  BY DEF BudgetInv, TypeOK, Id
<1>1. ASSUME NEW c \in Calls, NEW u \in Users, NEW g \in Chats \cup {NoChat}, Arrive(c, u, g)
      PROVE  BudgetInv'
  BY <1>1 DEF Arrive, key, history, BudgetInv, BudgetPerCounter, TypeOK, Identities, Forever
<1>2. ASSUME NEW c \in Calls, SetNx(c) PROVE BudgetInv'
  <2>1. CASE Set(Id(c)) /\ Counts(Id(c), TRUE, Tally(1 <= Limit), 0) /\ Conclude(c, 1 <= Limit)
    <3>1. call' \in [Calls -> [pc : {"idle", "set", "incr"}, id : Identities,
                               chat : Chats \cup {NoChat}]]
      <4>1. (1 <= Limit) \in BOOLEAN
        OBVIOUS
      <4>. QED
        BY <2>1, <4>1, <1>0, ConcludeType
    <3>2. /\ count' \in [Identities -> Nat] /\ ttl' \in [Identities -> 0..Forever]
          /\ \A j \in Identities \ {Id(c)} : count'[j] = count[j]
          /\ count[Id(c)] = 0 /\ count'[Id(c)] = 1
      BY <2>1, <1>0, SetKeeps
    <3>. DEFINE p == Tally(1 <= Limit)
    <3>3. p \in 0..1 /\ (p <= 0 \/ 1 <= Limit)
      BY DEF Tally
    <3>4. Counts(Id(c), count[Id(c)] = 0, p, 0)
      BY <2>1, <3>2 DEF Counts
    <3>. HIDE DEF p
    <3>. QED
      BY <3>1, <3>2, <3>3, <3>4, <1>0, CountedHit
  <2>2. CASE call' = [call EXCEPT ![c].pc = "incr"] /\ UNCHANGED <<key, history>>
    BY <2>2 DEF key, history, BudgetInv, BudgetPerCounter, TypeOK, Forever
  <2>. QED
    BY <1>2, <2>1, <2>2 DEF SetNx
<1>3. ASSUME NEW c \in Calls, Incr(c) PROVE BudgetInv'
  <2>. DEFINE pass == count[Id(c)] + 1 <= Limit
              p == Tally(pass)
  <2>1. Hit(Id(c)) /\ Counts(Id(c), count[Id(c)] = 0, p, 0) /\ Conclude(c, pass)
    BY <1>3 DEF Incr
  <2>2. p \in 0..1 /\ (p <= 0 \/ count[Id(c)] + 1 <= Limit) /\ pass \in BOOLEAN
    BY DEF Tally
  <2>. HIDE DEF pass, p
  <2>3. call' \in [Calls -> [pc : {"idle", "set", "incr"}, id : Identities,
                             chat : Chats \cup {NoChat}]]
    BY <2>1, <2>2, <1>0, ConcludeType
  <2>4. /\ count' \in [Identities -> Nat] /\ ttl' \in [Identities -> 0..Forever]
        /\ \A j \in Identities \ {Id(c)} : count'[j] = count[j]
        /\ count'[Id(c)] = count[Id(c)] + 1
    BY <2>1, <1>0, HitKeeps
  <2>. QED
    BY <2>1, <2>2, <2>3, <2>4, <1>0, CountedHit
<1>4. ASSUME NEW c \in Calls, Repeat(c) PROVE BudgetInv'
  <2>1. call' \in [Calls -> [pc : {"idle", "set", "incr"}, id : Identities,
                             chat : Chats \cup {NoChat}]]
    BY <1>4, <1>0 DEF Repeat, TypeOK
  <2>2. /\ count' \in [Identities -> Nat] /\ ttl' \in [Identities -> 0..Forever]
        /\ \A j \in Identities \ {Id(c)} : count'[j] = count[j]
        /\ count'[Id(c)] = count[Id(c)] + 1
    BY <1>4, <1>0, ExecutedKeeps DEF Repeat
  <2>3. Counts(Id(c), count[Id(c)] = 0, 0, 0)
    BY <1>4 DEF Repeat
  <2>. QED
    BY <2>1, <2>2, <2>3, <1>0, CountedHit
<1>5. ASSUME NEW c \in Calls, FailOpen(c) PROVE BudgetInv'
  <2>1. call' \in [Calls -> [pc : {"idle", "set", "incr"}, id : Identities,
                             chat : Chats \cup {NoChat}]]
    BY <1>5, <1>0, ConcludeType DEF FailOpen
  <2>2. CASE Executed(c) /\ Counts(Id(c), count[Id(c)] = 0, 1, 1)
    <3>1. /\ count' \in [Identities -> Nat] /\ ttl' \in [Identities -> 0..Forever]
          /\ \A j \in Identities \ {Id(c)} : count'[j] = count[j]
          /\ count'[Id(c)] = count[Id(c)] + 1
      BY <2>2, <1>0, ExecutedKeeps
    <3>2. Counts(Id(c), count[Id(c)] = 0, 1, 1)
      BY <2>2
    <3>. QED
      BY <2>1, <3>1, <3>2, <1>0, CountedHit
  <2>3. CASE UNCHANGED key /\ Counts(Id(c), FALSE, 1, 1)
    <3>1. count' = count /\ ttl' = ttl
      BY <2>3 DEF key
    <3>2. /\ passed' \in [Identities -> Nat] /\ opened' \in [Identities -> Nat]
          /\ \A j \in Identities \ {Id(c)} : passed'[j] = passed[j] /\ opened'[j] = opened[j]
          /\ passed'[Id(c)] = passed[Id(c)] + 1 /\ opened'[Id(c)] = opened[Id(c)] + 1
      BY <2>3, <1>0 DEF Counts, TypeOK
    <3>3. TypeOK'
      BY <2>1, <3>1, <3>2, <1>0 DEF TypeOK
    <3>4. /\ passed'[Id(c)] <= count'[Id(c)] + opened'[Id(c)]
          /\ passed'[Id(c)] <= Limit + opened'[Id(c)]
      BY <1>0, <3>1, <3>2 DEF BudgetInv, BudgetPerCounter, TypeOK
    <3>. QED
      BY <3>1, <3>2, <3>3, <3>4, <1>0, KeptElsewhere
  <2>. QED
    BY <1>5, <2>2, <2>3 DEF FailOpen
<1>6. CASE Tick
  BY <1>6 DEF Tick, BudgetInv, BudgetPerCounter, TypeOK, Forever
<1>7. CASE UNCHANGED vars
  BY <1>7 DEF vars, key, history, BudgetInv, BudgetPerCounter, TypeOK, Forever
<1>. QED
  BY <1>1, <1>2, <1>3, <1>4, <1>5, <1>6, <1>7 DEF Next

\* It always holds.
LEMMA BudgetAlways == Spec => []BudgetInv
  BY BudgetInit, BudgetNext, PTL DEF Spec

\* Every variable keeps its type (ratelimit.py).
THEOREM TypeCorrect == Spec => []TypeOK
<1>1. BudgetInv => TypeOK
  BY DEF BudgetInv
<1>. QED
  BY <1>1, BudgetAlways, PTL

\* However checks of one identity overlap, no more than Limit of them pass in the
\* life of its counter, not counting those that pass because Redis failed
\* (check_and_increment).
THEOREM BudgetHolds == Spec => []BudgetPerCounter
<1>1. BudgetInv => BudgetPerCounter
  BY DEF BudgetInv
<1>. QED
  BY <1>1, BudgetAlways, PTL
=============================================================================
