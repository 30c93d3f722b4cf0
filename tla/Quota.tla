-------------------------------- MODULE Quota --------------------------------
(***************************************************************************)
(* Admission and accounting, apps/api/app/services/subscription_service.py *)
(* as the intake handlers of the API (check_access) and the workers        *)
(* (consume_download) use it: users and one group chat with their          *)
(* subscriptions, the group's daily quota and the users' free tier.        *)
(*                                                                         *)
(* The database runs at READ COMMITTED: each query is a step of its own;   *)
(* counters are read, changed in memory and written back, only the columns *)
(* that changed.  An UPDATE locks its row until the commit, and nobody     *)
(* else sees it before.  Two row locks matter: the intake saves            *)
(* last_seen_at before it looks at any quota, so it holds its user's row   *)
(* to the end; the first admission of a day updates the group's row.  The  *)
(* flush of consume_download writes the group's row, then the user's.      *)
(***************************************************************************)
EXTENDS Integers, FiniteSets, FiniteSetsExt

CONSTANTS Requests,    \* admission requests, one row each
          NoRequest,
          GroupMade,   \* those that come from the group chat
          Users,
          Sender,      \* of each request
          Chat,        \* the group, as owner of subscriptions
          Handlers,    \* concurrent admissions: the API concurrency
          Workers,
          Subs,        \* subscriptions, numbered by expires_at
          Owner,       \* of each subscription
          SubLimit,    \* download_limit of their plan, 0 = unlimited
          DailyLimit,  \* of the group on each day, NoLimit if it has none
          NoLimit,
          FreeLimit,   \* free downloads per user and day
          Earlier,     \* what the group may have downloaded on its last day
          LastDay,     \* bound: days in a behaviour
          MaxMarked    \* bound: requests marked failed although they ran or had run

ASSUME QuotaAssumption ==
  /\ GroupMade \subseteq Requests /\ NoRequest \notin Requests
  /\ Sender \in [Requests -> Users]
  /\ Users # {} /\ Chat \notin Users
  /\ IsFiniteSet(Requests) /\ IsFiniteSet(Handlers) /\ Handlers # {}
  /\ Subs \subseteq Nat \ {0}
  /\ Owner \in [Subs -> Users \cup {Chat}] /\ SubLimit \in [Subs -> Nat]
  /\ NoLimit \notin Nat /\ DailyLimit \in [0..LastDay -> Nat \cup {NoLimit}]
  /\ FreeLimit \in Nat /\ LastDay \in Nat /\ MaxMarked \in Nat
  /\ Earlier \subseteq Nat /\ Earlier # {}

VARIABLES
  day,      \* today (UTC)
  live,     \* subscriptions active and not expired
  used,     \* subscriptions.downloads_used
  group,    \* groups.quota_date and groups.downloads_today
  row,      \* download_requests
  handler,  \* admissions in progress
  worker,   \* jobs in the hands of the workers
  skewed,   \* history: debits that fell between the two reads of an admission,
            \* by subscription; NoSub stands for the group's daily quota, of today
  booked,   \* history: group quota debits of today
  erased,   \* history: those taken back by a copy of the group from another day
  late,     \* history: requests that went on after they were marked failed
  undone    \* history: requests marked failed after they were completed

blind == <<late, undone>>
ledger == <<used, group, skewed, booked, erased>>
vars == <<day, live, ledger, row, handler, worker, blind>>

NoSub == 0
InFlight == {"queued", "processing"}
Counted == InFlight \cup {"completed"}
Tags == {"free", "user_sub", "group_sub", "group_quota"}
SubTags == {"user_sub", "group_sub"}

Row == [status : {"absent", "denied", "failed"} \cup Counted, user : Users,
        via : Tags, sub : Subs \cup {NoSub}, made : 0..LastDay]
GroupRow == [date : -1..LastDay, today : Nat]
Handler == [pc : {"idle", "begin", "find", "reset", "count", "passed", "denied"},
            req : Requests \cup {NoRequest}, user : Users, made : 0..LastDay,
            grp : GroupRow, reset : {"no", "date", "both"}, via : Tags,
            sub : Subs \cup {NoSub}, used : Nat]
Worker == [pc : {"idle", "starting", "working", "booking", "flushing"},
           req : Requests \cup {NoRequest},
           today : 0..LastDay, used : Nat, grp : GroupRow]

TypeOK ==
  /\ day \in 0..LastDay
  /\ live \subseteq Subs
  /\ used \in [Subs -> Nat]
  /\ group \in GroupRow
  /\ row \in [Requests -> Row]
  /\ handler \in [Handlers -> Handler]
  /\ worker \in [Workers -> Worker]
  /\ skewed \in [Subs \cup {NoSub} -> Nat]
  /\ booked \in Nat /\ erased \in Nat
  /\ late \subseteq Requests /\ undone \subseteq Requests

NoRow(u) == [status |-> "absent", user |-> u, via |-> "free", sub |-> NoSub, made |-> 0]
NoGroup == [date |-> -1, today |-> 0]
IdleHandler(u) == [pc |-> "idle", req |-> NoRequest, user |-> u, made |-> 0,
                   grp |-> NoGroup, reset |-> "no", via |-> "free",
                   sub |-> NoSub, used |-> 0]
IdleWorker == [pc |-> "idle", req |-> NoRequest, today |-> 0, used |-> 0, grp |-> NoGroup]
SomeUser == CHOOSE u \in Users : TRUE

Init ==
  /\ day = 0
  /\ live = {}
  /\ used = [s \in Subs |-> 0]
  /\ group \in [date : {-1}, today : Earlier]
  /\ row = [r \in Requests |-> NoRow(SomeUser)]
  /\ handler = [h \in Handlers |-> IdleHandler(SomeUser)]
  /\ worker = [w \in Workers |-> IdleWorker]
  /\ skewed = [s \in Subs \cup {NoSub} |-> 0]
  /\ booked = 0 /\ erased = 0
  /\ late = {} /\ undone = {}

----------------------------------------------------------------------------
(* What the queries of check_access count, and the row locks.              *)

RowsFor(s) == {r \in Requests : row[r].sub = s /\ row[r].status \in InFlight}

FreeRows(u, d) == {r \in Requests :
  /\ row[r].user = u /\ row[r].via = "free"
  /\ row[r].made = d /\ row[r].status \in Counted}

GroupRows(d) == {r \in Requests :
  row[r].via = "group_quota" /\ row[r].made >= d /\ row[r].status \in InFlight}

\* active_subscription: the newest-expiring one of the owner.
LiveSubs(owner) == {s \in live : Owner[s] = owner}

UserLocked(u) ==
  \E h \in Handlers : handler[h].pc \notin {"idle", "begin"} /\ handler[h].user = u

GroupLocked ==
  \/ \E h \in Handlers : handler[h].reset # "no" /\ handler[h].pc # "reset"
  \/ \E w \in Workers : worker[w].pc = "flushing"

\* What the group has downloaded today, as far as its row says.
Counter(g) == IF g.date = day THEN g.today ELSE 0

Excess(a, b) == IF a > b THEN a - b ELSE 0

\* A transaction that reset the day is committed: quota_date changed in any
\* case, downloads_today only if it was not 0 when the group was loaded.
SaveReset(h) ==
  /\ group' = CASE handler[h].reset = "no" -> group
                [] handler[h].reset = "date" -> [group EXCEPT !.date = handler[h].grp.date]
                [] handler[h].reset = "both" -> handler[h].grp
  /\ erased' = erased + Excess(Counter(group), Counter(group'))
  /\ UNCHANGED <<used, skewed, booked>>

----------------------------------------------------------------------------
(* The world: midnight, payments, expiry.                                  *)

Midnight ==
  /\ day < LastDay
  /\ day' = day + 1
  /\ booked' = 0 /\ erased' = 0 /\ skewed' = [skewed EXCEPT ![NoSub] = 0]
  /\ UNCHANGED <<live, used, group, row, handler, worker, blind>>

Activate(s) ==
  /\ s \notin live /\ used[s] = 0
  /\ live' = live \cup {s}
  /\ UNCHANGED <<day, ledger, row, handler, worker, blind>>

Expire(s) ==
  /\ s \in live /\ \A t \in live : s <= t
  /\ live' = live \ {s}
  /\ UNCHANGED <<day, ledger, row, handler, worker, blind>>

----------------------------------------------------------------------------
(* Admission: download_request.                                            *)

\* The first query begins the transaction, whose now() is the row's created_at.
Arrive(h, r) ==
  /\ handler[h].pc = "idle" /\ row[r].status = "absent"
  /\ \A k \in Handlers : handler[k].req # r
  /\ handler' = [handler EXCEPT
       ![h] = [IdleHandler(Sender[r]) EXCEPT !.pc = "begin", !.req = r, !.made = day]]
  /\ UNCHANGED <<day, live, ledger, row, worker, blind>>

\* Mutant of LockUser: last_seen_at is not saved with the request.
LockUserNever(h) ==
  /\ handler[h].pc = "begin"
  /\ handler' = [handler EXCEPT
       ![h].pc = "find",
       ![h].grp = IF handler[h].req \in GroupMade THEN group ELSE NoGroup]
  /\ UNCHANGED <<day, live, ledger, row, worker, blind>>

\* last_seen_at is flushed by the next query, and _upsert_group loads the group.
LockUser(h) ==
  /\ handler[h].pc = "begin"
  /\ ~UserLocked(handler[h].user)
  /\ handler' = [handler EXCEPT
       ![h].pc = "find",
       ![h].grp = IF handler[h].req \in GroupMade THEN group ELSE NoGroup]
  /\ UNCHANGED <<day, live, ledger, row, worker, blind>>

\* Maintenance, a blocked user, a disabled group: denied whatever the quota.
Refuse(h) ==
  /\ handler[h].pc = "find"
  /\ handler' = [handler EXCEPT ![h].pc = "denied"]
  /\ UNCHANGED <<day, live, ledger, row, worker, blind>>

\* Which entitlement is asked: the group's subscription, its daily quota, the
\* user's subscription, the free tier, in this order.
Entitlement(h) ==
  LET byGroup == handler[h].req \in GroupMade IN
  IF byGroup /\ LiveSubs(Chat) # {} THEN "group_sub"
  ELSE IF byGroup /\ DailyLimit[day] # NoLimit THEN "group_quota"
  ELSE IF LiveSubs(handler[h].user) # {} THEN "user_sub"
  ELSE "free"

\* The subscription found is loaded with its downloads_used.
FindSub(h) ==
  /\ handler[h].pc = "find" /\ Entitlement(h) \in SubTags
  /\ LET s == Max(LiveSubs(IF Entitlement(h) = "group_sub" THEN Chat ELSE handler[h].user)) IN
     handler' = [handler EXCEPT ![h].pc = "count", ![h].via = Entitlement(h),
                                ![h].sub = s, ![h].used = used[s]]
  /\ UNCHANGED <<day, live, ledger, row, worker, blind>>

\* _reset_group_day_if_needed, on the handler's copy of the group.
FindGroupQuota(h) ==
  /\ handler[h].pc = "find" /\ Entitlement(h) = "group_quota"
  /\ LET loaded == handler[h].grp IN
     handler' = [handler EXCEPT
       ![h] = IF loaded.date = day THEN [@ EXCEPT !.pc = "count", !.via = "group_quota"]
              ELSE [@ EXCEPT !.pc = "reset", !.via = "group_quota",
                             !.grp = [date |-> day, today |-> 0],
                             !.reset = IF loaded.today = 0 THEN "date" ELSE "both"]]
  /\ UNCHANGED <<day, live, ledger, row, worker, blind>>

\* The next query flushes the reset.
FlushReset(h) ==
  /\ handler[h].pc = "reset"
  /\ ~GroupLocked
  /\ handler' = [handler EXCEPT ![h].pc = "count"]
  /\ UNCHANGED <<day, live, ledger, row, worker, blind>>

FindFree(h) ==
  /\ handler[h].pc = "find" /\ Entitlement(h) = "free"
  /\ handler' = [handler EXCEPT ![h].pc = "count"]
  /\ UNCHANGED <<day, live, ledger, row, worker, blind>>

\* Mutants of HasCapacity: one too many is let in; in-flight rows are forgotten.
HasCapacityOffByOne(h) ==
  \/ handler[h].via \notin SubTags
  \/ SubLimit[handler[h].sub] = 0
  \/ SubLimit[handler[h].sub] - handler[h].used - Cardinality(RowsFor(handler[h].sub)) >= 0

HasCapacityDebitedOnly(h) ==
  CASE handler[h].via \in SubTags ->
         SubLimit[handler[h].sub] = 0 \/ SubLimit[handler[h].sub] > handler[h].used
    [] handler[h].via = "group_quota" -> DailyLimit[handler[h].grp.date] > handler[h].grp.today
    [] handler[h].via = "free" ->
         Cardinality({r \in FreeRows(handler[h].user, day) :
                        row[r].status = "completed"}) < FreeLimit

\* The capacity left, with what was read before and the rows counted now.
HasCapacity(h) ==
  CASE handler[h].via \in SubTags ->
         \/ SubLimit[handler[h].sub] = 0
         \/ SubLimit[handler[h].sub] - handler[h].used - Cardinality(RowsFor(handler[h].sub)) > 0
    [] handler[h].via = "group_quota" ->
         DailyLimit[handler[h].grp.date] - handler[h].grp.today - Cardinality(GroupRows(day)) > 0
    [] handler[h].via = "free" -> Cardinality(FreeRows(handler[h].user, day)) < FreeLimit

CountCapacity(h) ==
  /\ handler[h].pc = "count"
  /\ handler' = [handler EXCEPT ![h].pc = IF HasCapacity(h) THEN "passed" ELSE "denied"]
  /\ UNCHANGED <<day, live, ledger, row, worker, blind>>

\* The row is committed, tagged with the entitlement that admitted it.
CommitRow(h) ==
  /\ handler[h].pc \in {"passed", "denied"}
  /\ row' = [row EXCEPT ![handler[h].req] =
       IF handler[h].pc = "passed"
       THEN [status |-> "queued", user |-> handler[h].user, via |-> handler[h].via,
             sub |-> handler[h].sub, made |-> handler[h].made]
       ELSE [NoRow(handler[h].user) EXCEPT !.status = "denied"]]
  /\ SaveReset(h)
  /\ handler' = [handler EXCEPT ![h] = IdleHandler(SomeUser)]
  /\ UNCHANGED <<day, live, worker, blind>>

\* Over the rate limit or no platform: nothing but the upserts is committed.  An
\* error of a query, a deadlock that the database resolves against the admission,
\* the end of the process: nothing at all.
Leave(h) ==
  /\ handler[h].pc # "idle"
  /\ handler' = [handler EXCEPT ![h] = IdleHandler(SomeUser)]
  /\ UNCHANGED <<day, live, ledger, row, worker, blind>>

----------------------------------------------------------------------------
(* The worker: process_job in short, and consume_download in full.  A job    *)
(* may be delivered to several workers, or again after it was interrupted.  *)

Fail(r) ==
  /\ row' = [row EXCEPT ![r].status = "failed"]
  /\ undone' = IF row[r].status = "completed" THEN undone \cup {r} ELSE undone

\* A write of the worker over whatever the row says by now.
Put(r, status) ==
  /\ row' = [row EXCEPT ![r].status = status]
  /\ late' = IF row[r].status = "failed" THEN late \cup {r} ELSE late

\* Mutant of FailJob: a status the accounting does not know.
FailJobCancelled(r) ==
  /\ row[r].status \in Counted
  /\ row' = [row EXCEPT ![r].status = "cancelled"]
  /\ UNCHANGED <<day, live, ledger, handler, worker, blind>>

\* The handler whose XADD seems to have failed, and the sweep, which read the row
\* earlier, write without looking: the job may be under way, or completed.
FailJob(r) ==
  /\ row[r].status \in Counted /\ Cardinality(late \cup undone) < MaxMarked
  /\ Fail(r)
  /\ UNCHANGED <<day, live, ledger, handler, worker, late>>

\* process_job reads the row; one that is processing already is not written.
TakeJob(w, r) ==
  /\ worker[w].pc = "idle" /\ row[r].status \in InFlight
  /\ worker' = [worker EXCEPT ![w] = [IdleWorker EXCEPT
       !.req = r, !.pc = IF row[r].status = "queued" THEN "starting" ELSE "working"]]
  /\ UNCHANGED <<day, live, ledger, row, handler, blind>>

StartJob(w) ==
  /\ worker[w].pc = "starting"
  /\ worker' = [worker EXCEPT ![w].pc = "working"]
  /\ Put(worker[w].req, "processing")
  /\ UNCHANGED <<day, live, ledger, handler, undone>>

\* The download or the upload fails: marked failed without looking.  So does the
\* booking, a deadlock resolved against it included: the row is read again.
JobFails(w) ==
  /\ \/ worker[w].pc = "working"
     \/ worker[w].pc \in {"booking", "flushing"} /\ row[worker[w].req].status = "processing"
  /\ Fail(worker[w].req)
  /\ worker' = [worker EXCEPT ![w] = IdleWorker]
  /\ UNCHANGED <<day, live, ledger, handler, late>>

\* The worker stops, or the failure cannot be recorded: the row stays as it is.
JobStops(w) ==
  /\ worker[w].pc # "idle"
  /\ worker' = [worker EXCEPT ![w] = IdleWorker]
  /\ UNCHANGED <<day, live, ledger, row, handler, blind>>

\* After the upload, consume_download loads the rows it is going to debit,
\* whatever has become of the request since.
LoadLedger(w) ==
  /\ worker[w].pc = "working"
  /\ LET r == worker[w].req IN
     worker' = [worker EXCEPT
       ![w] = [pc |-> "booking", req |-> r, today |-> day,
               grp |-> IF r \in GroupMade THEN group ELSE NoGroup,
               used |-> IF row[r].sub = NoSub THEN 0 ELSE used[row[r].sub]]]
  /\ UNCHANGED <<day, live, ledger, row, handler, blind>>

\* total_downloads of the group is written for each of its requests.
FlushGroup(w) ==
  /\ worker[w].pc = "booking" /\ worker[w].req \in GroupMade
  /\ ~GroupLocked
  /\ worker' = [worker EXCEPT ![w].pc = "flushing"]
  /\ UNCHANGED <<day, live, ledger, row, handler, blind>>

\* Mutant of DebitSub: the entitlement is resolved again at completion.
DebitLiveSub(w, s) ==
  LET owner == row[worker[w].req].user IN
  /\ used' = IF LiveSubs(owner) = {} THEN used
             ELSE [used EXCEPT ![Max(LiveSubs(owner))] = @ + 1]
  /\ UNCHANGED <<group, skewed, booked, erased>>

DebitSub(w, s) ==
  /\ used' = [used EXCEPT ![s] = worker[w].used + 1]
  /\ skewed' = [skewed EXCEPT ![s] = @ +
       Cardinality({h \in Handlers : handler[h].pc = "count" /\ handler[h].sub = s})]
  /\ UNCHANGED <<group, booked, erased>>

\* Mutant of DebitGroup: the day is reset whatever the date says.
DebitGroupResets(w) ==
  /\ group' = [date |-> worker[w].today, today |-> 1]
  /\ booked' = IF worker[w].today = day THEN booked + 1 ELSE booked
  /\ UNCHANGED <<used, skewed, erased>>

\* The day is reset if needed and the download counted, as of the time the group
\* was loaded.  What a copy of another day takes back is noted.
DebitGroup(w) ==
  LET loaded == worker[w].grp
      today == worker[w].today
  IN
  /\ group' = IF loaded.date = today
              THEN [group EXCEPT !.today = loaded.today + 1]
              ELSE [date |-> today, today |-> IF loaded.today = 1 THEN group.today ELSE 1]
  /\ booked' = IF today = day THEN booked + 1 ELSE booked
  /\ erased' = IF loaded.date = day /\ group.date = day THEN erased
               ELSE erased + Excess(booked' - booked + Counter(group), Counter(group'))
  /\ skewed' = [skewed EXCEPT ![NoSub] = @ +
       Cardinality({h \in Handlers : handler[h].req \in GroupMade
                                       /\ handler[h].pc \in {"find", "reset", "count"}})]
  /\ UNCHANGED used

\* The user's total_downloads, the debit and the completed row: one commit.
SaveLedger(w) ==
  LET r == worker[w].req IN
  /\ worker[w].pc = IF r \in GroupMade THEN "flushing" ELSE "booking"
  /\ r # NoRequest
  /\ ~UserLocked(row[r].user)
  /\ \/ row[r].via \in SubTags /\ DebitSub(w, row[r].sub)
     \/ row[r].via = "group_quota" /\ DebitGroup(w)
     \/ row[r].via = "free" /\ UNCHANGED ledger
  /\ Put(r, "completed")
  /\ worker' = [worker EXCEPT ![w] = IdleWorker]
  /\ UNCHANGED <<day, live, handler, undone>>

----------------------------------------------------------------------------
Admission(h) ==
  \/ \E r \in Requests : Arrive(h, r)
  \/ LockUser(h) \/ Refuse(h) \/ FindSub(h) \/ FindGroupQuota(h) \/ FlushReset(h)
  \/ FindFree(h) \/ CountCapacity(h) \/ CommitRow(h)
  \/ Leave(h)

Job(w) ==
  \/ \E r \in Requests : TakeJob(w, r)
  \/ StartJob(w) \/ JobFails(w) \/ JobStops(w)
  \/ LoadLedger(w) \/ FlushGroup(w) \/ SaveLedger(w)

Next ==
  \/ Midnight
  \/ \E s \in Subs : Activate(s) \/ Expire(s)
  \/ \E h \in Handlers : Admission(h)
  \/ \E w \in Workers : Job(w)
  \/ \E r \in Requests : FailJob(r)

Spec == Init /\ [][Next]_vars

----------------------------------------------------------------------------
Debited(s) == {r \in Requests : row[r].sub = s /\ (row[r].status = "completed" \/ r \in undone)}

Passing(s) == {h \in Handlers : handler[h].pc = "passed" /\ handler[h].sub = s}

\* What is taken of a subscription, or will be.
Taken(s) == used[s] + Cardinality(RowsFor(s)) + Cardinality(Passing(s))

LateFor(s) == {r \in late : row[r].sub = s}

\* With one worker the counter of a subscription is exactly the number of requests
\* it admitted that were completed, even when another subscription became the
\* active one meanwhile (consume_download debits the recorded entitlement), when
\* the job was interrupted and tried again, and when its row was marked failed
\* while it ran or afterwards.
SubLedgerExact == \A s \in Subs : used[s] = Cardinality(Debited(s))

\* A personal subscription is overrun by no more than the requests that went on
\* after they were marked failed: however many requests of the user are admitted at
\* once and whatever is booked meanwhile, the row lock that saving last_seen_at
\* takes serializes them (download_request, _upsert_user).
UserSubNeverOverrun ==
  \A s \in Subs : Owner[s] \in Users /\ SubLimit[s] # 0 =>
    Taken(s) <= SubLimit[s] + Cardinality(LateFor(s))

\* Nor is the free tier: of what a user has in flight or completed on a day, only
\* requests that went on after they were marked failed come on top of the limit; a
\* completed one that is marked failed counts no more (_free_tier_used_today).
FreeNeverOverrun ==
  \A u \in Users : Cardinality(FreeRows(u, day) \ late) <= FreeLimit

\* The overrun of the group's subscription is bounded by the admissions under way
\* at once, the debits that came between the two reads of an admission, and the
\* requests that went on after they were marked failed (check_access,
\* _subscription_remaining).
GroupSubOverrunBounded ==
  \A s \in Subs : Owner[s] = Chat /\ SubLimit[s] # 0 =>
    Taken(s) <= SubLimit[s] + Cardinality(Handlers) - 1 + skewed[s]
                  + Cardinality(LateFor(s))

\* On every day, whichever transactions reset the day, are aborted or run late, the
\* group's counter misses no debit of the day but those that a copy of the group
\* loaded before another transaction's reset took back (_reset_group_day_if_needed).
GroupLedgerKept == booked <= Counter(group) + erased

GroupTaken == {r \in Requests : /\ row[r].via = "group_quota" /\ row[r].made = day
                                /\ row[r].status \in Counted \/ r \in undone}

\* Of the requests of one day no more are in flight or delivered on the group's
\* daily quota than it allows, but for the admissions under way at once, the debits
\* that one of them missed, those a stale copy took back, and the requests that
\* went on after they were marked failed (_group_quota_in_flight_today).
GroupQuotaOverrunBounded ==
  DailyLimit[day] # NoLimit =>
    Cardinality(GroupTaken \ late)
        + Cardinality({h \in Handlers : /\ handler[h].pc = "passed" /\ handler[h].made = day
                                         /\ handler[h].via = "group_quota"})
      <= DailyLimit[day] + Cardinality(Handlers) - 1 + skewed[NoSub] + erased
=============================================================================
