------------------------- MODULE AdminSessionsProofs -------------------------
(***************************************************************************)
(* A log-out that was answered has ended the tokens it presented, for any  *)
(* number of tabs, clients and overlapping calls, and for good.            *)
(*                                                                         *)
(* The argument (CallInv): while a log-out goes through its tokens, each   *)
(* one behind it is dead or among the rows its own transaction holds; its  *)
(* commit turns the rows it holds into dead tokens; and what is dead stays *)
(* dead (DeadGrows), since the purge takes only what has expired.          *)
(***************************************************************************)
EXTENDS AdminSessions, TLAPS

CallInv(c) ==
  /\ call[c].pc \in Revoking => call[c].kind # "data" /\ call[c].tokens.access \in Token
  /\ call[c].pc \in {"select_refresh", "insert_refresh"} => call[c].kind = "full_logout"
  /\ call[c].pc \in {"select_refresh", "insert_refresh", "commit"} =>
       call[c].tokens.access \in Dead \cup held[c]
  /\ call[c].pc = "commit" /\ call[c].kind = "full_logout" =>
       call[c].tokens.refresh \in Dead \cup held[c]
  /\ call[c].kind = "full_logout" /\ call[c].pc \in {"sent", "refused"} \cup Revoking =>
       call[c].retried /\ call[c].tokens.refresh \in Token
  /\ call[c].kind = "full_logout" => call[c].pc # "waiting"
  /\ call[c].pc \in {"ok", "served"} /\ call[c].kind # "data" =>
       call[c].tokens.access \in Dead
  /\ call[c].pc \in {"ok", "served"} /\ call[c].kind = "full_logout" =>
       call[c].tokens.refresh \in Dead

\* A pair that was granted exists: the types alone allow the number 0.
GrantedExists == \A t \in Tabs : promise[t].pc = "granted" => promise[t].pair \in 1..MaxPairs

SessionInv == TypeOK /\ GrantedExists /\ \A c \in Calls : CallInv(c)

CallType ==
  [pc : {"idle", "sent", "ok", "refused", "waiting"} \cup Revoking \cup Ended,
   tab : Tabs \cup {NoTab}, kind : Kinds, tokens : Store, retried : BOOLEAN]

\* Pairs are made of tokens.
LEMMA Tokens ==
  /\ NoToken \notin Token
  /\ \A n \in 1..MaxPairs : Access(n) \in Token /\ Refresh(n) \in Token /\ Pair(n) \in Store
  /\ Nothing \in Store
  BY SessionAssumption DEF Token, Access, Refresh, Pair, Nothing, Store

\* The invariant at the start.
LEMMA SessionInit == Init => SessionInv
<1>. SUFFICES ASSUME Init PROVE SessionInv
  OBVIOUS
<1>1. TypeOK
  BY Tokens, SessionAssumption DEF Init, TypeOK, Kinds, NoPromise, Ended, Revoking
<1>2. GrantedExists /\ \A c \in Calls : CallInv(c)
  BY DEF Init, GrantedExists, NoPromise, CallInv, Revoking
<1>. QED
  BY <1>1, <1>2 DEF SessionInv

----------------------------------------------------------------------------
(* What a step does to a call that it does not touch.                      *)

\* What is refused once is refused for ever: no step takes a token from the
\* blacklist before it has expired (purge_expired).
LEMMA DeadGrows == SessionInv /\ [Next]_vars => Dead \subseteq Dead'
<1>. SUFFICES ASSUME SessionInv, [Next]_vars PROVE Dead \subseteq Dead'
  OBVIOUS
<1>1. CASE Purge
  BY <1>1 DEF Purge, Server, Dead
<1>2. ASSUME NEW t \in Token, Expire(t) PROVE Dead \subseteq Dead'
  BY <1>2 DEF Expire, Dead
<1>3. ASSUME NEW c \in Calls, Serve(c) PROVE Dead \subseteq Dead'
  BY <1>3 DEF Serve, Authenticate, SelectRow, InsertRow, Commit, Server, Dead
<1>4. ASSUME NEW t \in Tabs, AnswerRefresh(t) PROVE Dead \subseteq Dead'
  BY <1>4 DEF AnswerRefresh, Grant, Dead
<1>5. CASE UNCHANGED <<expired, revoked>>
  BY <1>5 DEF Dead
<1>6. ASSUME NEW c \in Calls, Send(c) \/ SendBoth(c) \/ Handle(c) \/ CallLost(c)
      PROVE  UNCHANGED <<expired, revoked>>
  BY <1>6 DEF Send, SendBoth, Ask, Handle, Answered, AwaitRefresh, NothingToRefresh, RefusedAgain,
              CallLost, Fault, Database
<1>7. ASSUME NEW t \in Tabs, RefreshStored(t) \/ RefreshRefused(t) \/ RefreshLost(t)
      PROVE  UNCHANGED <<expired, revoked>>
  BY <1>7 DEF RefreshStored, RefreshRefused, RefreshLost, Fault, Database
<1>8. CASE Login \/ UNCHANGED vars
  BY <1>8, <1>5 DEF Login, Database, vars
<1>. QED
  BY <1>1, <1>2, <1>3, <1>4, <1>5, <1>6, <1>7, <1>8 DEF Next, RefreshPair

\* The rows of the other transactions are left alone, and so are the calls.
LEMMA UntouchedCall ==
  ASSUME SessionInv, NEW c \in Calls, call'[c] = call[c], held[c] \subseteq held'[c],
         Dead \subseteq Dead'
  PROVE  CallInv(c)'
  BY DEF SessionInv, CallInv

\* A step of one call.
LEMMA OneCall ==
  ASSUME SessionInv, NEW c \in Calls, NEW x \in CallType, call' = [call EXCEPT ![c] = x],
         Dead \subseteq Dead', \A d \in Calls \ {c} : held[d] \subseteq held'[d], CallInv(c)'
  PROVE  call' \in [Calls -> CallType] /\ \A d \in Calls : CallInv(d)'
<1>1. call' \in [Calls -> CallType]
  BY DEF SessionInv, TypeOK, CallType
<1>2. ASSUME NEW d \in Calls \ {c} PROVE CallInv(d)'
  <2>1. call'[d] = call[d]
    BY DEF SessionInv, TypeOK
  <2>. QED
    BY <2>1, UntouchedCall
<1>. QED
  BY <1>1, <1>2

----------------------------------------------------------------------------
(* The server.                                                             *)

\* A call that moves on keeps the rest of its record.
LEMMA GotoCall ==
  ASSUME SessionInv, NEW c \in Calls, NEW pc \in {"ok", "refused"} \cup Revoking, Goto(c, pc)
  PROVE  /\ [call[c] EXCEPT !.pc = pc] \in CallType
         /\ call' = [call EXCEPT ![c] = [call[c] EXCEPT !.pc = pc]]
         /\ call'[c].pc = pc /\ call'[c].kind = call[c].kind
         /\ call'[c].tokens = call[c].tokens /\ call'[c].retried = call[c].retried
  BY DEF SessionInv, TypeOK, CallType, Goto

\* The look at the blacklist.
LEMMA AuthenticateKeeps ==
  ASSUME SessionInv, NEW c \in Calls, Authenticate(c), Dead \subseteq Dead'
  PROVE  SessionInv'
<1>. DEFINE pc == CASE call[c].tokens.access \in Dead \cup {NoToken} -> "refused"
                    [] call[c].kind = "data" -> "ok"
                    [] OTHER -> "select_access"
<1>1. Goto(c, pc) /\ UNCHANGED <<minted, expired, store, promise, faults, revoked, held>>
  BY DEF Authenticate, Server
<1>2. \/ pc = "refused"
      \/ pc = "ok" /\ call[c].kind = "data"
      \/ pc = "select_access" /\ call[c].kind # "data" /\ call[c].tokens.access # NoToken
  OBVIOUS
<1>. HIDE DEF pc
<1>3. pc \in {"ok", "refused"} \cup Revoking
  BY <1>2 DEF Revoking
<1>4. call[c].tokens.access \in Token \cup {NoToken} /\ call[c].pc = "sent"
  BY DEF SessionInv, TypeOK, Store, Authenticate, At
<1>5. CallInv(c)'
  BY <1>1, <1>2, <1>3, <1>4, GotoCall DEF CallInv, SessionInv, Revoking
<1>6. call' \in [Calls -> CallType] /\ \A d \in Calls : CallInv(d)'
  BY <1>1, <1>3, <1>5, GotoCall, OneCall
<1>. QED
  BY <1>1, <1>6 DEF SessionInv, TypeOK, CallType, GrantedExists

\* The commit turns the rows held into dead tokens.
LEMMA CommitKeeps ==
  ASSUME SessionInv, NEW c \in Calls, Commit(c), Dead \subseteq Dead'
  PROVE  SessionInv'
<1>1. /\ Goto(c, "ok") /\ UNCHANGED <<minted, expired, store, promise, faults>>
      /\ revoked' = revoked \cup held[c] /\ held' = [held EXCEPT ![c] = {}]
      /\ call[c].pc = "commit"
  BY DEF Commit, Server, At
<1>2. Dead' = Dead \cup held[c]
  BY <1>1 DEF Dead
<1>3. CallInv(c)'
  <2>1. /\ call'[c].pc = "ok" /\ call'[c].kind = call[c].kind
        /\ call'[c].tokens = call[c].tokens
    BY <1>1, GotoCall
  <2>2. /\ call[c].kind # "data" /\ call[c].tokens.access \in Dead \cup held[c]
        /\ call[c].kind = "full_logout" => call[c].tokens.refresh \in Dead \cup held[c]
    BY <1>1 DEF CallInv, SessionInv, Revoking
  <2>. QED
    BY <1>2, <2>1, <2>2 DEF CallInv, Revoking
<1>4. call' \in [Calls -> CallType] /\ \A d \in Calls : CallInv(d)'
  BY <1>1, <1>3, GotoCall, OneCall DEF SessionInv, TypeOK
<1>. QED
  BY <1>1, <1>4 DEF SessionInv, TypeOK, CallType, GrantedExists

\* The rows of the access token: select, then insert.
LEMMA AccessKeeps ==
  ASSUME SessionInv, NEW c \in Calls, SelectRow(c, "access") \/ InsertRow(c, "access"),
         Dead \subseteq Dead'
  PROVE  SessionInv'
<1>. DEFINE rest == IF call[c].kind = "full_logout" THEN "select_refresh" ELSE "commit"
<1>1. /\ UNCHANGED <<minted, expired, store, promise, faults, revoked>>
      /\ call[c].pc \in {"select_access", "insert_access"}
  BY DEF SelectRow, InsertRow, Server, Selecting, Inserting, At
<1>2. call[c].tokens.access \in Token /\ call[c].kind # "data"
  BY <1>1 DEF SessionInv, CallInv, Revoking
<1>3. \/ Goto(c, "insert_access") /\ UNCHANGED held
      \/ Goto(c, rest) /\ UNCHANGED held /\ call[c].tokens.access \in Dead
      \/ Goto(c, rest) /\ held' = [held EXCEPT ![c] = @ \cup {call[c].tokens.access}]
  <2>1. CASE SelectRow(c, "access")
    BY <1>2, <2>1, Tokens DEF SelectRow, Inserting, Rest
  <2>2. CASE InsertRow(c, "access")
    <3>1. held \in [Calls -> SUBSET Token]
      BY DEF SessionInv, TypeOK
    <3>. QED
      BY <2>2, <3>1 DEF InsertRow, Rest, SavepointRollback, Dead
  <2>. QED
    BY <2>1, <2>2
<1>4. rest \in {"select_refresh", "commit"} /\ (rest = "select_refresh" <=> call[c].kind = "full_logout")
  OBVIOUS
<1>. HIDE DEF rest
<1>5. held' \in [Calls -> SUBSET Token] /\ \A d \in Calls \ {c} : held[d] \subseteq held'[d]
  BY <1>2, <1>3 DEF SessionInv, TypeOK
<1>6. PICK pc \in {"insert_access", rest} :
        /\ Goto(c, pc)
        /\ pc = rest => call[c].tokens.access \in Dead \cup held'[c]
  BY <1>3, <1>4 DEF SessionInv, TypeOK
<1>7. pc \in {"ok", "refused"} \cup Revoking
  BY <1>4, <1>6 DEF Revoking
<1>8. CallInv(c)'
  BY <1>1, <1>2, <1>4, <1>6, <1>7, GotoCall DEF CallInv, SessionInv, Revoking
<1>9. call' \in [Calls -> CallType] /\ \A d \in Calls : CallInv(d)'
  BY <1>5, <1>6, <1>7, <1>8, GotoCall, OneCall
<1>. QED
  BY <1>1, <1>5, <1>9 DEF SessionInv, TypeOK, CallType, GrantedExists

\* The rows of the refresh token, with those of the access token already held.
LEMMA RefreshKeeps ==
  ASSUME SessionInv, NEW c \in Calls, SelectRow(c, "refresh") \/ InsertRow(c, "refresh"),
         Dead \subseteq Dead'
  PROVE  SessionInv'
<1>1. /\ UNCHANGED <<minted, expired, store, promise, faults, revoked>>
      /\ call[c].pc \in {"select_refresh", "insert_refresh"}
  BY DEF SelectRow, InsertRow, Server, Selecting, Inserting, At
<1>2. /\ call[c].tokens.refresh \in Token /\ call[c].kind = "full_logout"
      /\ call[c].tokens.access \in Token /\ call[c].tokens.access \in Dead \cup held[c]
      /\ call[c].retried
  BY <1>1 DEF SessionInv, CallInv, Revoking
<1>3. \/ Goto(c, "insert_refresh") /\ UNCHANGED held
      \/ Goto(c, "commit") /\ UNCHANGED held /\ call[c].tokens.refresh \in Dead
      \/ Goto(c, "commit") /\ held' = [held EXCEPT ![c] = @ \cup {call[c].tokens.refresh}]
  <2>1. CASE SelectRow(c, "refresh")
    BY <1>2, <2>1, Tokens DEF SelectRow, Inserting, Rest
  <2>2. CASE InsertRow(c, "refresh")
    <3>1. held \in [Calls -> SUBSET Token]
      BY DEF SessionInv, TypeOK
    <3>. QED
      BY <2>2, <3>1 DEF InsertRow, Rest, SavepointRollback, Dead
  <2>. QED
    BY <2>1, <2>2
<1>4. /\ held' \in [Calls -> SUBSET Token] /\ \A d \in Calls \ {c} : held[d] \subseteq held'[d]
      /\ held[c] \subseteq held'[c]
  BY <1>2, <1>3 DEF SessionInv, TypeOK
<1>5. PICK pc \in {"insert_refresh", "commit"} :
        /\ Goto(c, pc)
        /\ pc = "commit" => call[c].tokens.refresh \in Dead \cup held'[c]
  BY <1>3 DEF SessionInv, TypeOK
<1>6. pc \in {"ok", "refused"} \cup Revoking
  BY <1>5 DEF Revoking
<1>7. CallInv(c)'
  BY <1>1, <1>2, <1>4, <1>5, <1>6, GotoCall DEF CallInv, SessionInv, Revoking
<1>8. call' \in [Calls -> CallType] /\ \A d \in Calls : CallInv(d)'
  BY <1>4, <1>5, <1>6, <1>7, GotoCall, OneCall
<1>. QED
  BY <1>1, <1>4, <1>8 DEF SessionInv, TypeOK, CallType, GrantedExists

\* The server's steps.
LEMMA ServeKeeps ==
  ASSUME SessionInv, NEW c \in Calls, Serve(c), Dead \subseteq Dead'
  PROVE  SessionInv'
<1>1. ASSUME NEW field \in {"access", "refresh"}, SelectRow(c, field) \/ InsertRow(c, field)
      PROVE  SessionInv'
  BY <1>1, AccessKeeps, RefreshKeeps
<1>. QED
  BY <1>1, AuthenticateKeeps, CommitKeeps DEF Serve

----------------------------------------------------------------------------
(* The panel.  None of its steps touches the database.                     *)

\* A step of the panel that changes one call.
LEMMA OneCallOfPanel ==
  ASSUME SessionInv, NEW c \in Calls, NEW x \in CallType, call' = [call EXCEPT ![c] = x],
         UNCHANGED Database, CallInv(c)'
  PROVE  call' \in [Calls -> CallType] /\ \A d \in Calls : CallInv(d)'
<1>1. Dead \subseteq Dead' /\ \A d \in Calls \ {c} : held[d] \subseteq held'[d]
  BY DEF Database, Dead
<1>. QED
  BY <1>1, OneCall

\* A call that has ended is a log-out that was answered, or presents nothing.
LEMMA ForgetCall ==
  ASSUME NEW r \in CallType, NEW pc \in Ended
  PROVE  /\ Forget(r, pc) \in CallType
         /\ Forget(r, pc).pc = pc /\ Forget(r, pc).kind = r.kind
         /\ pc = "served" /\ r.kind # "data" => Forget(r, pc).tokens = r.tokens
<1>. DEFINE kept == IF pc = "served" /\ r.kind # "data" THEN r.tokens ELSE Nothing
<1>1. kept \in Store
  BY Tokens DEF CallType
<1>2. Forget(r, pc) = [r EXCEPT !.pc = pc, !.retried = FALSE, !.tokens = kept]
  BY DEF Forget, CallType
<1>. HIDE DEF kept
<1>3. /\ Forget(r, pc) \in CallType
      /\ Forget(r, pc).pc = pc /\ Forget(r, pc).kind = r.kind /\ Forget(r, pc).tokens = kept
  BY <1>1, <1>2 DEF CallType
<1>. QED
  BY <1>3 DEF kept

\* A call is made with what localStorage holds, or with both tokens of a pair.
LEMMA AskKeeps ==
  ASSUME SessionInv, NEW c \in Calls, Send(c) \/ SendBoth(c)
  PROVE  SessionInv'
<1>1. PICK t \in Tabs \cup {NoTab}, k \in Kinds, tokens \in Store :
        /\ Ask(c, t, k, tokens)
        /\ k = "full_logout" => t = NoTab /\ tokens.refresh \in Token
  <2>1. CASE Send(c)
    <3>1. [Nothing EXCEPT !.access = store.access] \in Store
      BY DEF SessionInv, TypeOK, Store, Nothing
    <3>. QED
      BY <2>1, <3>1 DEF Send, Kinds
  <2>2. CASE SendBoth(c)
    <3>1. minted \in 1..MaxPairs /\ MaxPairs \in Nat
      BY SessionAssumption DEF SessionInv, TypeOK
    <3>2. \A a, r \in 1..minted :
            /\ [access |-> Access(a), refresh |-> Refresh(r)] \in Store
            /\ Refresh(r) \in Token
      BY <3>1, Tokens DEF Store
    <3>. QED
      BY <2>2, <3>2 DEF SendBoth, Kinds
  <2>. QED
    BY <2>1, <2>2
<1>. DEFINE x == [pc |-> "sent", tab |-> t, kind |-> k, tokens |-> tokens, retried |-> t = NoTab]
<1>2. call' = [call EXCEPT ![c] = x] /\ UNCHANGED <<minted, Database, store, promise, faults>>
  BY <1>1 DEF Ask
<1>3. x \in CallType
  BY DEF CallType
<1>4. x.pc = "sent" /\ x.kind = k /\ x.tokens = tokens /\ (t = NoTab => x.retried)
  OBVIOUS
<1>. HIDE DEF x
<1>5. call'[c] = x
  BY <1>2 DEF SessionInv, TypeOK
<1>6. CallInv(c)'
  BY <1>1, <1>4, <1>5 DEF CallInv, Revoking
<1>7. call' \in [Calls -> CallType] /\ \A d \in Calls : CallInv(d)'
  BY <1>2, <1>3, <1>6, OneCallOfPanel
<1>. QED
  BY <1>2, <1>7 DEF SessionInv, TypeOK, CallType, GrantedExists, Database

\* The end of a call.
LEMMA EndKeeps ==
  ASSUME SessionInv, NEW c \in Calls, NEW pc \in Ended,
         call' = [call EXCEPT ![c] = Forget(call[c], pc)],
         store' \in Store, faults' \in 0..MaxFaults, UNCHANGED <<minted, Database, promise>>,
         pc = "served" => call[c].pc = "ok"
  PROVE  SessionInv'
<1>1. call[c] \in CallType
  BY DEF SessionInv, TypeOK, CallType
<1>2. call'[c] = Forget(call[c], pc)
  BY DEF SessionInv, TypeOK
<1>3. /\ Forget(call[c], pc) \in CallType
      /\ call'[c].pc = pc /\ call'[c].kind = call[c].kind
      /\ pc = "served" /\ call[c].kind # "data" => call'[c].tokens = call[c].tokens
  BY <1>1, <1>2, ForgetCall
<1>4. CallInv(c)'
  BY <1>3 DEF CallInv, SessionInv, Ended, Revoking, Database, Dead
<1>5. call' \in [Calls -> CallType] /\ \A d \in Calls : CallInv(d)'
  BY <1>3, <1>4, OneCallOfPanel
<1>. QED
  BY <1>5 DEF SessionInv, TypeOK, CallType, GrantedExists, Database

\* A refused call waits for the refresh of its tab.
LEMMA AwaitKeeps ==
  ASSUME SessionInv, NEW c \in Calls, AwaitRefresh(c)
  PROVE  SessionInv'
<1>. DEFINE x == [call[c] EXCEPT !.pc = "waiting", !.tokens = Nothing, !.retried = TRUE]
            asked == [pc |-> "sent", token |-> store.refresh, pair |-> 0]
<1>1. /\ call' = [call EXCEPT ![c] = x]
      /\ promise' = promise \/ promise' = [promise EXCEPT ![call[c].tab] = asked]
      /\ UNCHANGED <<minted, Database, store, faults>>
      /\ call[c].pc = "refused" /\ ~call[c].retried
  <2>1. call[c] \in CallType
    BY DEF SessionInv, TypeOK, CallType
  <2>2. [call EXCEPT ![c].pc = "waiting", ![c].tokens = Nothing, ![c].retried = TRUE]
        = [call EXCEPT ![c] = x]
    BY <2>1 DEF SessionInv, TypeOK, CallType
  <2>. QED
    BY <2>2 DEF AwaitRefresh, At
<1>2. x \in CallType /\ x.pc = "waiting" /\ x.kind = call[c].kind
  BY Tokens DEF SessionInv, TypeOK, CallType
<1>3. asked.pc = "sent" /\ asked \in [pc : {"none", "sent", "granted", "refused"},
                                     token : Token \cup {NoToken}, pair : 0..MaxPairs]
  BY SessionAssumption DEF SessionInv, TypeOK, Store
<1>. HIDE DEF x, asked
<1>4. call'[c] = x
  BY <1>1 DEF SessionInv, TypeOK
<1>5. CallInv(c)'
  BY <1>1, <1>2, <1>4 DEF CallInv, SessionInv, Revoking
<1>6. call' \in [Calls -> CallType] /\ \A d \in Calls : CallInv(d)'
  BY <1>1, <1>2, <1>5, OneCallOfPanel
<1>7. GrantedExists' /\ promise' \in [Tabs -> [pc : {"none", "sent", "granted", "refused"},
                                             token : Token \cup {NoToken}, pair : 0..MaxPairs]]
  <2>1. CASE promise' = promise
    BY <2>1 DEF SessionInv, TypeOK, GrantedExists
  <2>2. CASE promise' = [promise EXCEPT ![call[c].tab] = asked]
    <3>1. promise' \in [Tabs -> [pc : {"none", "sent", "granted", "refused"},
                                 token : Token \cup {NoToken}, pair : 0..MaxPairs]]
      BY <1>3, <2>2 DEF SessionInv, TypeOK
    <3>2. \A t \in Tabs : promise'[t] = promise[t] \/ promise'[t] = asked
      BY <2>2 DEF SessionInv, TypeOK
    <3>. QED
      BY <1>3, <3>1, <3>2 DEF SessionInv, GrantedExists
  <2>. QED
    BY <1>1, <2>1, <2>2
<1>. QED
  BY <1>1, <1>6, <1>7 DEF SessionInv, TypeOK, CallType, Database

\* The tab's handling of an answer.
LEMMA HandleKeeps ==
  ASSUME SessionInv, NEW c \in Calls, Handle(c) \/ CallLost(c)
  PROVE  SessionInv'
<1>. USE DEF Ended
<1>0. store \in Store /\ faults \in 0..MaxFaults /\ MaxFaults \in Nat /\ Nothing \in Store
  BY Tokens, SessionAssumption DEF SessionInv, TypeOK
<1>1. CASE Answered(c)
  BY <1>0, <1>1, EndKeeps DEF Answered, End, At
<1>2. CASE NothingToRefresh(c)
  BY <1>0, <1>2, EndKeeps DEF NothingToRefresh
<1>3. CASE RefusedAgain(c)
  BY <1>0, <1>3, EndKeeps DEF RefusedAgain, End
<1>4. CASE CallLost(c)
  <2>1. faults' \in 0..MaxFaults /\ UNCHANGED <<minted, Database, promise>>
    BY <1>0, <1>4 DEF CallLost, Fault
  <2>2. store' \in Store
    BY <1>0, <1>4 DEF CallLost, End
  <2>. QED
    BY <1>4, <2>1, <2>2, EndKeeps DEF CallLost, End
<1>. QED
  BY <1>1, <1>2, <1>3, <1>4, AwaitKeeps DEF Handle

----------------------------------------------------------------------------
(* The refresh.                                                            *)

\* The answer of a refresh.
LEMMA AnswerKeeps ==
  ASSUME SessionInv, NEW t \in Tabs, AnswerRefresh(t), Dead \subseteq Dead'
  PROVE  SessionInv'
<1>1. /\ UNCHANGED <<expired, held, store, call, faults, revoked>>
      /\ minted' \in 1..MaxPairs
      /\ \/ promise' = [promise EXCEPT ![t].pc = "refused"]
         \/ /\ promise' = [promise EXCEPT ![t].pc = "granted", ![t].pair = minted + 1]
            /\ minted + 1 \in 1..MaxPairs
  BY SessionAssumption DEF AnswerRefresh, Grant, SessionInv, TypeOK
<1>2. /\ promise' \in [Tabs -> [pc : {"none", "sent", "granted", "refused"},
                               token : Token \cup {NoToken}, pair : 0..MaxPairs]]
      /\ GrantedExists'
  <2>1. CASE promise' = [promise EXCEPT ![t].pc = "refused"]
    BY <2>1 DEF SessionInv, TypeOK, GrantedExists
  <2>. DEFINE n == minted + 1
  <2>2. CASE n \in 1..MaxPairs /\ promise' = [promise EXCEPT ![t].pc = "granted", ![t].pair = n]
    <3>. DEFINE y == [promise[t] EXCEPT !.pc = "granted", !.pair = n]
                Promise == [pc : {"none", "sent", "granted", "refused"},
                            token : Token \cup {NoToken}, pair : 0..MaxPairs]
    <3>1. n \in 1..MaxPairs /\ n \in 0..MaxPairs
      BY <2>2, SessionAssumption
    <3>. HIDE DEF n
    <3>2. promise \in [Tabs -> Promise]
      BY DEF SessionInv, TypeOK
    <3>3. y \in Promise /\ y.pair = n
      BY <3>1, <3>2
    <3>4. promise' = [promise EXCEPT ![t] = y]
      BY <2>2, <3>2
    <3>. HIDE DEF y, Promise
    <3>5. promise' \in [Tabs -> Promise]
      BY <3>2, <3>3, <3>4
    <3>6. promise'[t].pair = n /\ \A u \in Tabs \ {t} : promise'[u] = promise[u]
      BY <3>2, <3>3, <3>4
    <3>7. GrantedExists'
      BY <3>1, <3>6 DEF SessionInv, GrantedExists
    <3>. QED
      BY <3>5, <3>7 DEF Promise
  <2>. QED
    BY <1>1, <2>1, <2>2
<1>3. \A c \in Calls : CallInv(c)'
  BY <1>1, UntouchedCall
<1>. QED
  BY <1>1, <1>2, <1>3 DEF SessionInv, TypeOK

\* The end of a refresh moves the calls that waited for it, and no others.
LEMMA ReleaseKeeps ==
  ASSUME SessionInv, NEW t \in Tabs,
         call' = [c \in Calls |-> IF c \in Waiting(t) THEN call'[c] ELSE call[c]],
         \A c \in Waiting(t) :
           /\ call'[c] \in CallType /\ call'[c].kind = call[c].kind
           /\ call'[c].pc \in {"sent", "failed"},
         promise' = [promise EXCEPT ![t] = NoPromise],
         store' \in Store, faults' \in 0..MaxFaults, UNCHANGED <<minted, Database>>
  PROVE  SessionInv'
<1>1. call' \in [Calls -> CallType]
  BY DEF SessionInv, TypeOK, CallType
<1>2. Dead' = Dead /\ held' = held
  BY DEF Database, Dead
<1>3. ASSUME NEW c \in Calls PROVE CallInv(c)'
  <2>1. CASE c \in Waiting(t)
    <3>1. call[c].kind # "full_logout" /\ call'[c].pc \in {"sent", "failed"}
          /\ call'[c].kind = call[c].kind
      BY <2>1 DEF Waiting, At, SessionInv, CallInv
    <3>. QED
      BY <3>1 DEF CallInv, Revoking
  <2>2. CASE c \notin Waiting(t)
    <3>1. call'[c] = call[c]
      BY <2>2
    <3>. QED
      BY <1>2, <3>1, UntouchedCall
  <2>. QED
    BY <2>1, <2>2
<1>4. GrantedExists' /\ promise' \in [Tabs -> [pc : {"none", "sent", "granted", "refused"},
                                             token : Token \cup {NoToken}, pair : 0..MaxPairs]]
  BY SessionAssumption DEF NoPromise, SessionInv, TypeOK, GrantedExists
<1>. QED
  BY <1>1, <1>3, <1>4 DEF SessionInv, TypeOK, CallType, Database

\* A refresh that was refused ends the session of the tab.
LEMMA RejectedKeeps ==
  ASSUME SessionInv, NEW t \in Tabs, RefreshRefused(t) \/ RefreshLost(t)
  PROVE  SessionInv'
<1>1. Reject(t) /\ faults' \in 0..MaxFaults /\ UNCHANGED <<minted, Database>>
  BY SessionAssumption DEF RefreshRefused, RefreshLost, Fault, SessionInv, TypeOK
<1>2. /\ store' = Nothing /\ promise' = [promise EXCEPT ![t] = NoPromise]
      /\ call' = [c \in Calls |->
           IF c \in Waiting(t) THEN Forget(call[c], "failed") ELSE call[c]]
  BY <1>1 DEF Reject
<1>3. ASSUME NEW c \in Waiting(t)
      PROVE  /\ call'[c] \in CallType /\ call'[c].kind = call[c].kind
             /\ call'[c].pc \in {"sent", "failed"}
  <2>1. c \in Calls /\ call[c] \in CallType
    BY DEF Waiting, SessionInv, TypeOK, CallType
  <2>2. call'[c] = Forget(call[c], "failed")
    BY <1>2, <2>1
  <2>. QED
    BY <2>1, <2>2, ForgetCall DEF Ended
<1>4. call' = [c \in Calls |-> IF c \in Waiting(t) THEN call'[c] ELSE call[c]]
  BY <1>2
<1>. QED
  BY <1>1, <1>2, <1>3, <1>4, Tokens, ReleaseKeeps

\* A refresh that was granted is stored, and the calls are sent again.
LEMMA StoredKeeps ==
  ASSUME SessionInv, NEW t \in Tabs, RefreshStored(t)
  PROVE  SessionInv'
<1>. DEFINE pair == Pair(promise[t].pair)
            again(c) == [call[c] EXCEPT !.pc = "sent", !.tokens.access = pair.access]
<1>1. /\ store' = pair /\ promise' = [promise EXCEPT ![t] = NoPromise]
      /\ call' = [c \in Calls |-> IF c \in Waiting(t) THEN again(c) ELSE call[c]]
      /\ UNCHANGED <<minted, Database, faults>>
  BY DEF RefreshStored
<1>2. pair \in Store /\ pair.access \in Token \cup {NoToken}
  <2>1. promise[t].pair \in 1..MaxPairs
    BY DEF RefreshStored, RefreshAt, SessionInv, GrantedExists
  <2>. QED
    BY <2>1, Tokens DEF Store
<1>. HIDE DEF pair
<1>3. ASSUME NEW c \in Waiting(t)
      PROVE  /\ call'[c] \in CallType /\ call'[c].kind = call[c].kind
             /\ call'[c].pc \in {"sent", "failed"}
  <2>1. c \in Calls /\ call[c] \in CallType
    BY DEF Waiting, SessionInv, TypeOK, CallType
  <2>2. call'[c] = again(c)
    BY <1>1, <2>1
  <2>3. again(c) \in CallType /\ again(c).kind = call[c].kind /\ again(c).pc = "sent"
    BY <1>2, <2>1 DEF CallType, Store
  <2>. QED
    BY <2>2, <2>3
<1>4. call' = [c \in Calls |-> IF c \in Waiting(t) THEN call'[c] ELSE call[c]]
  BY <1>1
<1>5. faults' \in 0..MaxFaults
  BY <1>1 DEF SessionInv, TypeOK
<1>. QED
  BY <1>1, <1>2, <1>3, <1>4, <1>5, ReleaseKeeps

----------------------------------------------------------------------------
\* Time, the worker's purge and the log-in page.
LEMMA OthersKeep ==
  ASSUME SessionInv, Login \/ Purge \/ (\E t \in Token : Expire(t)) \/ UNCHANGED vars,
         Dead \subseteq Dead'
  PROVE  SessionInv'
<1>1. /\ UNCHANGED <<held, call, promise, faults>>
      /\ minted' \in 1..MaxPairs /\ store' \in Store
      /\ expired' \subseteq Token /\ revoked' \subseteq Token
  <2>1. CASE Login
    <3>1. minted + 1 \in 1..MaxPairs
      BY <2>1, SessionAssumption DEF Login, SessionInv, TypeOK
    <3>. QED
      BY <2>1, <3>1, Tokens DEF Login, Database, SessionInv, TypeOK
  <2>2. CASE Purge
    BY <2>2 DEF Purge, Server, SessionInv, TypeOK
  <2>3. ASSUME NEW t \in Token, Expire(t)
        PROVE  /\ UNCHANGED <<held, call, promise, faults, minted, store, revoked>>
               /\ expired' = expired \cup {t}
    BY <2>3 DEF Expire
  <2>4. CASE UNCHANGED vars
    BY <2>4 DEF vars, SessionInv, TypeOK
  <2>. QED
    BY <2>1, <2>2, <2>3, <2>4 DEF SessionInv, TypeOK
<1>2. \A c \in Calls : CallInv(c)'
  BY <1>1, UntouchedCall
<1>. QED
  BY <1>1, <1>2 DEF SessionInv, TypeOK, GrantedExists

\* So every step preserves the invariant.
LEMMA SessionNext == SessionInv /\ [Next]_vars => SessionInv'
<1>. SUFFICES ASSUME SessionInv, [Next]_vars PROVE SessionInv'
  OBVIOUS
<1>1. Dead \subseteq Dead'
  BY DeadGrows
<1>2. ASSUME NEW c \in Calls, Send(c) \/ SendBoth(c) \/ Serve(c) \/ Handle(c) \/ CallLost(c)
      PROVE  SessionInv'
  BY <1>1, <1>2, AskKeeps, ServeKeeps, HandleKeeps
<1>3. ASSUME NEW t \in Tabs, RefreshPair(t) \/ RefreshLost(t) PROVE SessionInv'
  BY <1>1, <1>3, AnswerKeeps, StoredKeeps, RejectedKeeps DEF RefreshPair
<1>. QED
  BY <1>1, <1>2, <1>3, OthersKeep DEF Next

\* It always holds.
LEMMA SessionAlways == Spec => []SessionInv
  BY SessionInit, SessionNext, PTL DEF Spec

\* Every variable keeps its type (api.js, auth.py).
THEOREM TypeCorrect == Spec => []TypeOK
<1>1. SessionInv => TypeOK
  BY DEF SessionInv
<1>. QED
  BY <1>1, SessionAlways, PTL

\* Once a log-out has been answered, every token it presented is refused from
\* then on, for any number of overlapping log-outs of the same tokens, whatever
\* expires, is purged or lost meanwhile (logout, revoke_token, purge_expired).
THEOREM LogoutRevokesForGood == Spec => []LogoutRevokes
<1>1. SessionInv => LogoutRevokes
  BY DEF SessionInv, CallInv, LogoutRevokes
<1>. QED
  BY <1>1, SessionAlways, PTL
----------------------------------------------------------------------------
(* The session that nobody ends.                                           *)

Calm ==
  /\ \A c \in Calls : call[c].kind = "data"
  /\ faults = 0
  /\ \A t \in expired : t.kind = "access"

RefreshTokens == {t \in Token : t.kind = "refresh"}

\* In a calm session nothing is revoked, so the token that the panel keeps, and
\* every one it presents, is good; a call that was not made yet is no log-out.
SurvivalInv ==
  /\ \A c \in Calls : call[c].pc = "idle" => call[c].kind = "data"
  /\ Calm =>
       /\ revoked = {}
       /\ store.refresh \in RefreshTokens
       /\ \A t \in Tabs :
            /\ promise[t].pc # "refused"
            /\ promise[t].pc = "sent" => promise[t].token \in RefreshTokens

\* A session starts with a pair.
LEMMA SurvivalInit == Init => SurvivalInv
<1>. SUFFICES ASSUME Init PROVE SurvivalInv
  OBVIOUS
<1>1. \A n \in 1..MaxPairs : Refresh(n) \in RefreshTokens
  BY DEF Refresh, Token, RefreshTokens
<1>. QED
  BY <1>1 DEF Init, SurvivalInv, Pair, NoPromise

\* A session that was not calm never becomes it.
LEMMA CalmBefore ==
  ASSUME SurvivalInv, SessionInv, faults \in Nat,
         \A c \in Calls : call[c].kind = call'[c].kind \/ call[c].pc = "idle",
         faults' = faults \/ faults' = faults + 1, expired \subseteq expired', Calm'
  PROVE  Calm
  BY DEF SurvivalInv, Calm

\* A call under way stays what it is.
LEMMA KindKept ==
  ASSUME SessionInv, NEW c \in Calls, NEW pc, Goto(c, pc)
  PROVE  \A d \in Calls : call'[d].kind = call[d].kind /\ (d # c => call'[d] = call[d])
                          /\ (d = c => call'[d].pc = pc)
  BY DEF SessionInv, TypeOK, Goto

\* The server's steps revoke nothing while nobody logs out.
LEMMA ServeSurvives ==
  ASSUME SessionInv, SurvivalInv, NEW c \in Calls, Serve(c)
  PROVE  SurvivalInv'
<1>1. /\ UNCHANGED <<minted, expired, store, promise, faults>>
      /\ call[c].pc \in {"sent"} \cup Revoking
      /\ \E pc \in {"ok", "refused"} \cup Revoking : Goto(c, pc)
      /\ call[c].pc = "sent" => UNCHANGED revoked
  BY DEF Serve, Authenticate, SelectRow, InsertRow, Commit, Server, At, Selecting, Inserting,
         Rest, Revoking
<1>2. \A d \in Calls : /\ call'[d].kind = call[d].kind
                       /\ call'[d].pc = "idle" => call[d].pc = "idle"
  BY <1>1, KindKept DEF Revoking
<1>3. Calm => call[c].pc = "sent"
  BY <1>1 DEF SessionInv, CallInv, Calm
<1>4. Calm' => Calm
  BY <1>1, <1>2 DEF Calm
<1>. QED
  BY <1>1, <1>2, <1>3, <1>4 DEF SurvivalInv

\* In a calm session what is sent is no log-out.
LEMMA AskSurvives ==
  ASSUME SessionInv, SurvivalInv, NEW c \in Calls, Send(c) \/ SendBoth(c)
  PROVE  SurvivalInv'
<1>1. PICK x : /\ call' = [call EXCEPT ![c] = x] /\ x.pc = "sent"
               /\ UNCHANGED <<minted, expired, revoked, store, promise, faults>>
               /\ call[c].pc = "idle"
  <2>1. PICK t, k, tokens : Ask(c, t, k, tokens)
    BY DEF Send, SendBoth
  <2>. DEFINE asked ==
         [pc |-> "sent", tab |-> t, kind |-> k, tokens |-> tokens, retried |-> t = NoTab]
  <2>2. asked.pc = "sent"
    OBVIOUS
  <2>3. /\ call' = [call EXCEPT ![c] = asked]
        /\ UNCHANGED <<minted, expired, revoked, store, promise, faults>>
        /\ call[c].pc = "idle"
    BY <2>1 DEF Ask, Database, At
  <2>. HIDE DEF asked
  <2>. QED
    BY <2>2, <2>3
<1>2. call'[c].pc = "sent" /\ \A d \in Calls \ {c} : call'[d] = call[d]
  BY <1>1 DEF SessionInv, TypeOK
<1>3. \A d \in Calls : call'[d].pc = "idle" => call'[d].kind = "data"
  BY <1>2 DEF SurvivalInv
<1>4. Calm' => Calm
  BY <1>1, <1>2 DEF Calm, SurvivalInv
<1>. QED
  BY <1>1, <1>3, <1>4 DEF SurvivalInv

\* The calls that end, or wait, keep their kind.
LEMMA SameKinds ==
  ASSUME SessionInv, SurvivalInv,
         \A c \in Calls : call'[c].kind = call[c].kind /\ (call'[c] # call[c] => call'[c].pc # "idle")
  PROVE  \A c \in Calls : call'[c].pc = "idle" => call'[c].kind = "data"
  BY DEF SurvivalInv

\* Handling an answer clears nothing that is still good.
LEMMA HandleSurvives ==
  ASSUME SessionInv, SurvivalInv, NEW c \in Calls, Handle(c) \/ CallLost(c)
  PROVE  SurvivalInv'
<1>0. call[c] \in CallType /\ call \in [Calls -> CallType] /\ faults \in Nat
  BY SessionAssumption DEF SessionInv, TypeOK, CallType
<1>1. PICK x \in CallType : call' = [call EXCEPT ![c] = x] /\ x.kind = call[c].kind /\ x.pc # "idle"
  <2>1. ASSUME NEW pc \in Ended
        PROVE  Forget(call[c], pc) \in CallType /\ Forget(call[c], pc).kind = call[c].kind
               /\ Forget(call[c], pc).pc # "idle"
    BY <1>0, <2>1, ForgetCall DEF Ended
  <2>2. CASE Answered(c) \/ NothingToRefresh(c) \/ RefusedAgain(c) \/ CallLost(c)
    BY <2>1, <2>2 DEF Answered, NothingToRefresh, RefusedAgain, CallLost, End, Ended
  <2>3. CASE AwaitRefresh(c)
    <3>. DEFINE x == [call[c] EXCEPT !.pc = "waiting", !.tokens = Nothing, !.retried = TRUE]
    <3>1. [call EXCEPT ![c].pc = "waiting", ![c].tokens = Nothing, ![c].retried = TRUE]
          = [call EXCEPT ![c] = x]
      BY <1>0 DEF CallType
    <3>2. x \in CallType /\ x.kind = call[c].kind /\ x.pc = "waiting"
      BY <1>0, Tokens DEF CallType
    <3>. QED
      BY <2>3, <3>1, <3>2 DEF AwaitRefresh
  <2>. QED
    BY <2>2, <2>3 DEF Handle
<1>2. /\ \A d \in Calls : call'[d].kind = call[d].kind
      /\ \A d \in Calls : call'[d].pc = "idle" => call'[d].kind = "data"
  <2>1. call'[c] = x /\ \A d \in Calls \ {c} : call'[d] = call[d]
    BY <1>0, <1>1
  <2>. QED
    BY <1>1, <2>1 DEF SurvivalInv
<1>3. /\ UNCHANGED <<minted, expired, revoked, held>>
      /\ faults' = faults \/ faults' = faults + 1
  BY DEF Handle, Answered, AwaitRefresh, NothingToRefresh, RefusedAgain, CallLost, Fault, Database
<1>4. Calm' => Calm
  BY <1>0, <1>2, <1>3 DEF Calm
<1>5. Calm' => ~CallLost(c)
  BY <1>0 DEF Calm, CallLost, Fault
<1>. SUFFICES ASSUME Calm', Calm,
                     revoked = {}, store.refresh \in RefreshTokens
              PROVE  /\ store'.refresh \in RefreshTokens
                     /\ \A t \in Tabs :
                          /\ promise'[t].pc # "refused"
                          /\ promise'[t].pc = "sent" => promise'[t].token \in RefreshTokens
  BY <1>2, <1>3, <1>4 DEF SurvivalInv
<1>6. call[c].kind = "data" /\ store.refresh # NoToken
  BY Tokens DEF Calm, RefreshTokens
<1>7. CASE Answered(c) \/ RefusedAgain(c)
  BY <1>6, <1>7 DEF Answered, RefusedAgain, End, SurvivalInv
<1>8. CASE AwaitRefresh(c)
  <2>. DEFINE asked == [pc |-> "sent", token |-> store.refresh, pair |-> 0]
  <2>1. /\ store' = store
        /\ promise' = promise \/ promise' = [promise EXCEPT ![call[c].tab] = asked]
    BY <1>8 DEF AwaitRefresh
  <2>2. asked.pc = "sent" /\ asked.token \in RefreshTokens
    OBVIOUS
  <2>. HIDE DEF asked
  <2>3. \A t \in Tabs : promise'[t] = promise[t] \/ promise'[t] = asked
    BY <2>1 DEF SessionInv, TypeOK
  <2>. QED
    BY <2>1, <2>2, <2>3 DEF SurvivalInv
<1>9. ~NothingToRefresh(c)
  BY <1>6 DEF NothingToRefresh
<1>. QED
  BY <1>5, <1>7, <1>8, <1>9 DEF Handle

\* A good token is granted a pair, however often it was used.
LEMMA RefreshSurvives ==
  ASSUME SessionInv, SurvivalInv, NEW t \in Tabs, RefreshPair(t) \/ RefreshLost(t)
  PROVE  SurvivalInv'
<1>0. faults \in Nat /\ promise \in [Tabs -> [pc : {"none", "sent", "granted", "refused"},
                                             token : Token \cup {NoToken}, pair : 0..MaxPairs]]
  BY SessionAssumption DEF SessionInv, TypeOK
<1>1. /\ expired' = expired
      /\ faults' = faults \/ faults' = faults + 1
  BY DEF RefreshPair, AnswerRefresh, RefreshStored, RefreshRefused, RefreshLost, Fault, Database
<1>2. \A c \in Calls : call'[c].kind = call[c].kind /\ (call'[c] # call[c] => call'[c].pc # "idle")
  <2>1. CASE AnswerRefresh(t)
    BY <2>1 DEF AnswerRefresh
  <2>2. CASE RefreshStored(t)
    <3>1. \A c \in Calls : call'[c] = call[c] \/
            call'[c] = [call[c] EXCEPT !.pc = "sent", !.tokens.access = Pair(promise[t].pair).access]
      BY <2>2 DEF RefreshStored
    <3>2. \A c \in Calls : call[c] \in CallType
      BY DEF SessionInv, TypeOK, CallType
    <3>. DEFINE again(r, a) == [r EXCEPT !.pc = "sent", !.tokens.access = a]
    <3>3. ASSUME NEW r \in CallType, NEW a
          PROVE  again(r, a).kind = r.kind /\ again(r, a).pc = "sent"
      BY DEF CallType
    <3>4. \A c \in Calls : call'[c] = call[c] \/
            call'[c] = again(call[c], Pair(promise[t].pair).access)
      BY <3>1
    <3>. HIDE DEF again
    <3>. QED
      BY <3>2, <3>3, <3>4
  <2>3. CASE RefreshRefused(t) \/ RefreshLost(t)
    <3>1. \A c \in Calls : call'[c] = call[c] \/ call'[c] = Forget(call[c], "failed")
      BY <2>3 DEF RefreshRefused, RefreshLost, Reject
    <3>2. \A c \in Calls : call[c] \in CallType
      BY DEF SessionInv, TypeOK, CallType
    <3>. QED
      BY <3>1, <3>2, ForgetCall DEF Ended
  <2>. QED
    BY <2>1, <2>2, <2>3 DEF RefreshPair
<1>3. Calm' => Calm
  BY <1>0, <1>1, <1>2 DEF Calm
<1>4. Calm' => ~RefreshLost(t)
  BY <1>0 DEF Calm, RefreshLost, Fault
<1>5. Calm => ~RefreshRefused(t)
  BY DEF RefreshRefused, RefreshAt, SurvivalInv
<1>. SUFFICES ASSUME Calm', Calm,
                     revoked = {}, store.refresh \in RefreshTokens
              PROVE  /\ revoked' = {} /\ store'.refresh \in RefreshTokens
                     /\ \A u \in Tabs :
                          /\ promise'[u].pc # "refused"
                          /\ promise'[u].pc = "sent" => promise'[u].token \in RefreshTokens
  BY <1>2, <1>3, SameKinds DEF SurvivalInv
<1>6. CASE AnswerRefresh(t)
  <2>1. promise[t].token \in RefreshTokens
    BY <1>6 DEF AnswerRefresh, RefreshAt, SurvivalInv
  <2>2. promise[t].token \notin Dead
    BY <2>1 DEF Dead, Calm, RefreshTokens
  <2>3. Grant(t) /\ store' = store
    BY <1>6, <2>2 DEF AnswerRefresh
  <2>4. revoked' = revoked /\ promise'[t].pc = "granted"
        /\ \A u \in Tabs \ {t} : promise'[u] = promise[u]
    BY <1>0, <2>3 DEF Grant
  <2>. QED
    BY <2>3, <2>4 DEF SurvivalInv
<1>7. CASE RefreshStored(t)
  <2>1. /\ revoked' = revoked /\ store' = Pair(promise[t].pair)
        /\ promise' = [promise EXCEPT ![t] = NoPromise]
    BY <1>7 DEF RefreshStored, Database
  <2>2. promise[t].pair \in 1..MaxPairs
    BY <1>7 DEF RefreshStored, RefreshAt, SessionInv, GrantedExists
  <2>3. store'.refresh \in RefreshTokens
    BY <2>1, <2>2 DEF Pair, Refresh, RefreshTokens, Token
  <2>4. promise'[t].pc = "none" /\ \A u \in Tabs \ {t} : promise'[u] = promise[u]
    BY <1>0, <2>1 DEF NoPromise
  <2>. QED
    BY <2>1, <2>3, <2>4 DEF SurvivalInv
<1>. QED
  BY <1>4, <1>5, <1>6, <1>7 DEF RefreshPair

\* A login stores a new pair; expiry of a refresh token ends the calm; the purge revokes nothing.
LEMMA OthersSurvive ==
  ASSUME SessionInv, SurvivalInv,
         Login \/ Purge \/ (\E t \in Token : Expire(t)) \/ UNCHANGED vars
  PROVE  SurvivalInv'
<1>1. CASE Login
  <2>1. /\ UNCHANGED <<expired, revoked, call, promise, faults>>
        /\ store' = Pair(minted + 1) /\ minted + 1 \in 1..MaxPairs
    BY <1>1, SessionAssumption DEF Login, Database, SessionInv, TypeOK
  <2>2. store'.refresh \in RefreshTokens
    BY <2>1 DEF Pair, Refresh, RefreshTokens, Token
  <2>. QED
    BY <2>1, <2>2 DEF SurvivalInv, Calm
<1>2. CASE Purge
  BY <1>2 DEF Purge, Server, SurvivalInv, Calm
<1>3. ASSUME NEW t \in Token, Expire(t) PROVE SurvivalInv'
  BY <1>3 DEF Expire, SurvivalInv, Calm
<1>4. CASE UNCHANGED vars
  BY <1>4 DEF vars, SurvivalInv, Calm
<1>. QED
  BY <1>1, <1>2, <1>3, <1>4

\* So every step preserves it.
LEMMA SurvivalNext == SessionInv /\ SurvivalInv /\ [Next]_vars => SurvivalInv'
<1>. SUFFICES ASSUME SessionInv, SurvivalInv, [Next]_vars PROVE SurvivalInv'
  OBVIOUS
<1>1. ASSUME NEW c \in Calls, Send(c) \/ SendBoth(c) \/ Serve(c) \/ Handle(c) \/ CallLost(c)
      PROVE  SurvivalInv'
  BY <1>1, AskSurvives, ServeSurvives, HandleSurvives
<1>2. ASSUME NEW t \in Tabs, RefreshPair(t) \/ RefreshLost(t) PROVE SurvivalInv'
  BY <1>2, RefreshSurvives
<1>. QED
  BY <1>1, <1>2, OthersSurvive DEF Next

\* However many tabs there are and however they race to refresh it, the panel
\* keeps a session that can be refreshed, as long as nobody logs out, no answer
\* is lost and no refresh token has expired: a pair is granted without using up
\* the token it is granted for (refreshAccessToken, refresh).
THEOREM SessionLasts == Spec => []SessionSurvives
<1>1. SurvivalInv => SessionSurvives
  BY DEF SurvivalInv, Calm, SessionSurvives, RefreshTokens, Dead
<1>. QED
  BY <1>1, SurvivalInit, SurvivalNext, SessionAlways, PTL DEF Spec
=============================================================================
