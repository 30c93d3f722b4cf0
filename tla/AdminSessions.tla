---------------------------- MODULE AdminSessions ----------------------------
(***************************************************************************)
(* The session of one administrator: the panel's API client                *)
(* (apps/admin/src/services/api.js and auth.js), in several tabs that      *)
(* share localStorage, against routes/auth.py, routes/deps.py and the      *)
(* blacklist of services/auth_service.py, which the worker purges.         *)
(*                                                                         *)
(* Tokens are signed and never stored; the only server state is the        *)
(* blacklist.  A log-out is one transaction that inserts up to two rows,   *)
(* each under a SAVEPOINT; jti is unique, so an insert waits for another   *)
(* uncommitted one of the same token.  Nothing in the code deactivates an  *)
(* administrator: that refusal is left out.                                *)
(***************************************************************************)
EXTENDS Integers, FiniteSets

CONSTANTS Tabs,
          NoTab,      \* where a call of another client comes from
          Calls,      \* calls of the API
          NoToken,
          MaxPairs,   \* bound: pairs of tokens handed out
          MaxFaults   \* bound: calls whose answer is lost

ASSUME SessionAssumption ==
  /\ NoTab \notin Tabs
  /\ MaxPairs \in Nat \ {0} /\ MaxFaults \in Nat
  /\ NoToken \notin [kind : {"access", "refresh"}, n : Nat]

\* The panel asks for data and logs out, with its access token alone; any other
\* client of the API may send a refresh token with the log-out.
Kinds == {"data", "logout", "full_logout"}

Token == [kind : {"access", "refresh"}, n : 1..MaxPairs]
Access(n) == [kind |-> "access", n |-> n]
Refresh(n) == [kind |-> "refresh", n |-> n]
Nothing == [access |-> NoToken, refresh |-> NoToken]
Pair(n) == [access |-> Access(n), refresh |-> Refresh(n)]
Store == [access : Token \cup {NoToken}, refresh : Token \cup {NoToken}]

VARIABLES
  minted,   \* pairs handed out so far
  expired,  \* tokens past their exp
  revoked,  \* revoked_tokens, committed
  held,     \* rows a call has inserted and not committed yet
  store,    \* localStorage
  call,     \* each API call, at the server and in its tab
  promise,  \* refreshPromise of each tab, and its request at the server
  faults

vars == <<minted, expired, revoked, held, store, call, promise, faults>>

\* What is left of an expired or revoked token: nothing.
Dead == expired \cup revoked

Revoking == {"select_access", "insert_access", "select_refresh", "insert_refresh", "commit"}
Ended == {"served", "failed"}

TypeOK ==
  /\ minted \in 1..MaxPairs
  /\ expired \subseteq Token /\ revoked \subseteq Token
  /\ held \in [Calls -> SUBSET Token]
  /\ store \in Store
  /\ call \in [Calls ->
       [pc : {"idle", "sent", "ok", "refused", "waiting"} \cup Revoking \cup Ended,
        tab : Tabs \cup {NoTab}, kind : Kinds, tokens : Store, retried : BOOLEAN]]
  /\ promise \in [Tabs ->
       [pc : {"none", "sent", "granted", "refused"},
        token : Token \cup {NoToken}, pair : 0..MaxPairs]]
  /\ faults \in 0..MaxFaults

NoPromise == [pc |-> "none", token |-> NoToken, pair |-> 0]

\* Whoever logged in last may have logged in before.
Init ==
  /\ minted \in 1..MaxPairs
  /\ expired = {} /\ revoked = {}
  /\ held = [c \in Calls |-> {}]
  /\ store = Pair(minted)
  /\ call = [c \in Calls |->
       [pc |-> "idle", tab |-> NoTab, kind |-> "data", tokens |-> Nothing, retried |-> FALSE]]
  /\ promise = [t \in Tabs |-> NoPromise]
  /\ faults = 0

----------------------------------------------------------------------------
(* The server: what every call goes through (get_current_admin).           *)

At(c, pc) == call[c].pc = pc
Goto(c, pc) == call' = [call EXCEPT ![c].pc = pc]
Server == <<minted, expired, store, promise, faults>>

\* Missing, expired or revoked: 401.  Otherwise on to the handler.
Authenticate(c) ==
  /\ At(c, "sent")
  /\ Goto(c, CASE call[c].tokens.access \in Dead \cup {NoToken} -> "refused"
               [] call[c].kind = "data" -> "ok"
               [] OTHER -> "select_access")
  /\ UNCHANGED <<Server, revoked, held>>

----------------------------------------------------------------------------
(* The server: the log-out (logout, revoke_token).                         *)

\* The rest of the handler once the access token has been dealt with, or all.
Rest(c, field) ==
  IF field = "access" /\ call[c].kind = "full_logout" THEN "select_refresh" ELSE "commit"

Selecting(field) == IF field = "access" THEN "select_access" ELSE "select_refresh"
Inserting(field) == IF field = "access" THEN "insert_access" ELSE "insert_refresh"

\* decode_token once more, then the look at the committed rows.
SelectRow(c, field) ==
  /\ At(c, Selecting(field))
  /\ Goto(c, IF call[c].tokens[field] \in Dead \cup {NoToken}
             THEN Rest(c, field) ELSE Inserting(field))
  /\ UNCHANGED <<Server, revoked, held>>

\* Mutant of SavepointRollback: session.rollback() instead of the SAVEPOINT.
FullRollback(c) == held' = [held EXCEPT ![c] = {}]

\* IntegrityError: only this insert is undone.
SavepointRollback(c) == held' = [held EXCEPT ![c] = held[c]]

\* The insert waits for another transaction that has inserted the same token.
InsertRow(c, field) ==
  LET t == call[c].tokens[field] IN
  /\ At(c, Inserting(field))
  /\ \A d \in Calls \ {c} : t \notin held[d]
  /\ \/ t \in revoked /\ SavepointRollback(c)
     \/ t \notin revoked /\ held' = [held EXCEPT ![c] = @ \cup {t}]
  /\ Goto(c, Rest(c, field))
  /\ UNCHANGED <<Server, revoked>>

Commit(c) ==
  /\ At(c, "commit")
  /\ revoked' = revoked \cup held[c]
  /\ held' = [held EXCEPT ![c] = {}]
  /\ Goto(c, "ok")
  /\ UNCHANGED Server

\* purge_expired, from the worker's housekeeping.
Purge ==
  /\ revoked' = revoked \ expired
  /\ revoked' # revoked
  /\ UNCHANGED <<Server, held, call>>

\* Tokens of a kind expire in the order they were made; a refresh token lives longer.
Expire(t) ==
  /\ t.n <= minted /\ t \notin expired
  /\ \A n \in 1..(t.n - 1) : [t EXCEPT !.n = n] \in expired
  /\ t.kind = "refresh" => Access(t.n) \in expired
  /\ expired' = expired \cup {t}
  /\ UNCHANGED <<minted, revoked, held, store, call, promise, faults>>

----------------------------------------------------------------------------
(* The server: refresh.                                                    *)

RefreshAt(t, pc) == promise[t].pc = pc

\* Mutant of Grant: a refresh token is used up (rotation).
GrantOnce(t) ==
  /\ minted' = minted + 1
  /\ promise' = [promise EXCEPT ![t].pc = "granted", ![t].pair = minted + 1]
  /\ revoked' = revoked \cup {promise[t].token}

\* A new pair; the refresh token that was presented stays good.
Grant(t) ==
  /\ minted' = minted + 1
  /\ promise' = [promise EXCEPT ![t].pc = "granted", ![t].pair = minted + 1]
  /\ UNCHANGED revoked

AnswerRefresh(t) ==
  /\ RefreshAt(t, "sent")
  /\ \/ /\ promise[t].token \in Dead
        /\ promise' = [promise EXCEPT ![t].pc = "refused"]
        /\ UNCHANGED <<minted, revoked>>
     \/ /\ promise[t].token \notin Dead
        /\ minted < MaxPairs
        /\ Grant(t)
  /\ UNCHANGED <<expired, held, store, call, faults>>

----------------------------------------------------------------------------
(* The panel.                                                              *)

Database == <<expired, revoked, held>>

\* A page's first token: the log-in page stores what the server answers.
Login ==
  /\ store.access = NoToken
  /\ minted < MaxPairs
  /\ minted' = minted + 1
  /\ store' = Pair(minted + 1)
  /\ UNCHANGED <<Database, call, promise, faults>>

Ask(c, t, k, tokens) ==
  /\ At(c, "idle")
  /\ call' = [call EXCEPT ![c] =
       [pc |-> "sent", tab |-> t, kind |-> k, tokens |-> tokens, retried |-> t = NoTab]]
  /\ UNCHANGED <<minted, Database, store, promise, faults>>

\* The request interceptor attaches the access token in localStorage.
Send(c) ==
  \E t \in Tabs, k \in {"data", "logout"} : Ask(c, t, k, [Nothing EXCEPT !.access = store.access])

\* Another client has kept some of the tokens it was given.
SendBoth(c) ==
  \E a, r \in 1..minted : Ask(c, NoTab, "full_logout",
    [access |-> Access(a), refresh |-> Refresh(r)])

\* A call ends, and keeps for history the tokens of a log-out that was answered;
\* the panel's logout() clears the tokens in localStorage however it ends.
Forget(r, pc) ==
  [r EXCEPT !.pc = pc, !.retried = FALSE,
            !.tokens = IF pc = "served" /\ r.kind # "data" THEN @ ELSE Nothing]
End(c, pc) ==
  /\ call' = [call EXCEPT ![c] = Forget(call[c], pc)]
  /\ store' = IF call[c].kind = "logout" THEN Nothing ELSE store

Answered(c) ==
  /\ At(c, "ok")
  /\ End(c, "served")
  /\ UNCHANGED <<minted, Database, promise, faults>>

\* 401: wait for the refresh under way in this tab, or start one.
AwaitRefresh(c) ==
  LET t == call[c].tab IN
  /\ At(c, "refused") /\ ~call[c].retried
  /\ RefreshAt(t, "none") => store.refresh # NoToken
  /\ call' = [call EXCEPT ![c].pc = "waiting", ![c].tokens = Nothing, ![c].retried = TRUE]
  /\ promise' = IF RefreshAt(t, "none")
                THEN [promise EXCEPT ![t] = [pc |-> "sent", token |-> store.refresh, pair |-> 0]]
                ELSE promise
  /\ UNCHANGED <<minted, Database, store, faults>>

\* 401 without a refresh token: back to the log-in page.
NothingToRefresh(c) ==
  /\ At(c, "refused") /\ ~call[c].retried
  /\ RefreshAt(call[c].tab, "none") /\ store.refresh = NoToken
  /\ call' = [call EXCEPT ![c] = Forget(call[c], "failed")]
  /\ store' = Nothing
  /\ UNCHANGED <<minted, Database, promise, faults>>

\* 401 again: once is enough.
RefusedAgain(c) ==
  /\ At(c, "refused") /\ call[c].retried
  /\ End(c, "failed")
  /\ UNCHANGED <<minted, Database, promise, faults>>

Waiting(t) == {c \in Calls : call[c].tab = t /\ At(c, "waiting")}

\* The pair is stored, and every call that waited is made again, once.
RefreshStored(t) ==
  LET pair == Pair(promise[t].pair) IN
  /\ RefreshAt(t, "granted")
  /\ store' = pair
  /\ promise' = [promise EXCEPT ![t] = NoPromise]
  /\ call' = [c \in Calls |-> IF c \in Waiting(t)
       THEN [call[c] EXCEPT !.pc = "sent", !.tokens.access = pair.access] ELSE call[c]]
  /\ UNCHANGED <<minted, Database, faults>>

\* Mutant of Reject: the promise is kept when it fails (then for finally).
RejectKeeps(t) ==
  /\ store' = Nothing
  /\ UNCHANGED <<promise, call>>

\* Every call that waited fails, and each clears the tokens.
Reject(t) ==
  /\ store' = Nothing
  /\ promise' = [promise EXCEPT ![t] = NoPromise]
  /\ call' = [c \in Calls |-> IF c \in Waiting(t) THEN Forget(call[c], "failed") ELSE call[c]]

RefreshRefused(t) ==
  /\ RefreshAt(t, "refused")
  /\ Reject(t)
  /\ UNCHANGED <<minted, Database, faults>>

----------------------------------------------------------------------------
(* The network: a request or an answer gets lost.                          *)

Fault ==
  /\ faults < MaxFaults
  /\ faults' = faults + 1
  /\ UNCHANGED <<minted, Database>>

CallLost(c) ==
  /\ call[c].pc \in {"sent", "ok", "refused"}
  /\ Fault
  /\ End(c, "failed")
  /\ UNCHANGED promise

RefreshLost(t) ==
  /\ promise[t].pc \in {"sent", "granted", "refused"}
  /\ Fault
  /\ Reject(t)

----------------------------------------------------------------------------
Serve(c) ==
  \/ Authenticate(c) \/ Commit(c)
  \/ \E field \in {"access", "refresh"} : SelectRow(c, field) \/ InsertRow(c, field)

Handle(c) == Answered(c) \/ AwaitRefresh(c) \/ NothingToRefresh(c) \/ RefusedAgain(c)

RefreshPair(t) == AnswerRefresh(t) \/ RefreshStored(t) \/ RefreshRefused(t)

Next ==
  \/ Login \/ Purge
  \/ \E t \in Token : Expire(t)
  \/ \E c \in Calls : Send(c) \/ SendBoth(c) \/ Serve(c) \/ Handle(c) \/ CallLost(c)
  \/ \E t \in Tabs : RefreshPair(t) \/ RefreshLost(t)

Spec == Init /\ [][Next]_vars

\* The server answers what it is asked and the tabs handle the answers.
Fairness ==
  /\ \A c \in Calls : WF_vars(Serve(c)) /\ WF_vars(Handle(c))
  /\ \A t \in Tabs : WF_vars(RefreshPair(t))

FairSpec == Spec /\ Fairness

----------------------------------------------------------------------------
\* Once a log-out has been answered, every token it presented is refused from
\* then on: it is on the blacklist, and stays there until it has expired, also
\* when several log-outs present the same token (logout, revoke_token,
\* purge_expired).
LogoutRevokes ==
  \A c \in Calls :
    /\ call[c].pc \in {"ok", "served"} /\ call[c].kind # "data" =>
         call[c].tokens.access \in Dead
    /\ call[c].pc \in {"ok", "served"} /\ call[c].kind = "full_logout" =>
         call[c].tokens.refresh \in Dead

\* As long as nobody logs out, no answer is lost and no refresh token has
\* expired, the panel keeps a session that can be refreshed, however its tabs
\* race to refresh it (refreshAccessToken, refresh).
SessionSurvives ==
  /\ \A c \in Calls : call[c].kind = "data"
  /\ faults = 0
  /\ \A t \in expired : t.kind = "access"
  => store.refresh \in Token \ Dead

\* Every call of the panel ends: the shared refresh never keeps one waiting, and
\* no two log-outs wait for each other.  (A refresh for which MaxPairs leaves no
\* pair is not answered: that is the bound, not the code.)
CallsSettle ==
  \A c \in Calls :
    call[c].pc = "sent" ~> call[c].pc \in Ended \/ minted = MaxPairs
=============================================================================
