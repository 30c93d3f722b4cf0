----------------------------- MODULE QuotaProofs -----------------------------
(***************************************************************************)
(* What admission and accounting guarantee for any number of requests,     *)
(* users, subscriptions, days and admissions at once.                      *)
(*                                                                         *)
(* QuotaInv holds the types (with LiveBounded, so that there is a newest   *)
(* subscription), who is busy with which request, the row lock of the      *)
(* user, and which entitlement a request may be booked on.  A lemma per    *)
(* action says what it does; NextKinds reduces the actions to the few      *)
(* kinds of steps that the counts tell apart.                              *)
(*                                                                         *)
(* The free tier needs no more.  The counters are read and written back in *)
(* steps of their own, so that two bookings at once would lose a debit:    *)
(* what is said of them is said of a single worker process, the deployed   *)
(* configuration.  Then what it loaded is still what is in the row when it *)
(* saves.  The limits are shown of the requests that never went on after   *)
(* they were marked failed: of those only the commit of an admission makes *)
(* more.                                                                   *)
(***************************************************************************)
EXTENDS Quota, FiniteSetTheorems, WellFoundedInduction, TLAPS

----------------------------------------------------------------------------
(* The newest-expiring subscription.                                       *)

\* Only finitely many of them are live, though any number may be made.
LiveBounded == \E b \in Nat : \A s \in live : s <= b

TypeInv == TypeOK /\ LiveBounded

\* A set of naturals has a least member.
LEMMA LeastNumber ==
  ASSUME NEW M, M \subseteq Nat, M # {}
  PROVE  \E m \in M : \A k \in M : m <= k
<1>1. PICK m \in M : \A k \in M : <<k, m>> \notin OpToRel(<, Nat)
  BY WFMin, NatLessThanWellFounded, Zenon
<1>2. \A k \in M : ~(k < m)
  BY <1>1, Zenon DEF OpToRel
<1>. QED
  BY <1>2

\* active_subscription returns a live subscription of the owner, if there is one.
LEMMA NewestIsLive ==
  ASSUME TypeInv, NEW owner, LiveSubs(owner) # {}
  PROVE  Max(LiveSubs(owner)) \in LiveSubs(owner)
<1>. DEFINE S == LiveSubs(owner)
            M == {b \in Nat : \A s \in S : s <= b}
<1>1. S \subseteq Nat \ {0} /\ S \subseteq live
  BY QuotaAssumption DEF LiveSubs, TypeInv, TypeOK
<1>2. PICK m \in M : \A k \in M : m <= k
  <2>1. M # {}
    BY <1>1 DEF TypeInv, LiveBounded
  <2>. QED
    BY <2>1, LeastNumber
<1>3. m \in S
  <2>. SUFFICES ASSUME m \notin S PROVE FALSE
    OBVIOUS
  <2>1. m - 1 \in Nat
    BY <1>1
  <2>2. \A s \in S : s <= m - 1
    BY <1>1
  <2>. QED
    BY <1>2, <2>1, <2>2
<1>4. \E x \in S : \A y \in S : x >= y
  BY <1>1, <1>3
<1>. QED
  BY <1>4 DEF Max

\* CHOOSE finds a user, since there is one.
LEMMA SomeUserIsOne == SomeUser \in Users
  BY QuotaAssumption DEF SomeUser

----------------------------------------------------------------------------
(* What each step does.                                                    *)

\* Only one admission moves, and nothing else changes.
Only(h) ==
  /\ handler' \in [Handlers -> Handler]
  /\ \A k \in Handlers \ {h} : handler'[k] = handler[k]
Rest == <<day, live, ledger, row, worker, blind>>

\* What was read of the request does not change.
SameRequest(h) ==
  /\ handler'[h].req = handler[h].req /\ handler'[h].user = handler[h].user
  /\ handler'[h].made = handler[h].made

SameFind(h) ==
  /\ handler'[h].via = handler[h].via /\ handler'[h].sub = handler[h].sub
  /\ handler'[h].used = handler[h].used

\* The fields of an idle admission.
LEMMA IdleIsHandler ==
  ASSUME NEW u \in Users
  PROVE  /\ IdleHandler(u) \in Handler
         /\ IdleHandler(u).pc = "idle" /\ IdleHandler(u).req = NoRequest
         /\ IdleHandler(u).via = "free" /\ IdleHandler(u).sub = NoSub
         /\ IdleHandler(u).made = 0 /\ IdleHandler(u).reset = "no"
         /\ IdleHandler(u).grp = NoGroup
  BY QuotaAssumption DEF IdleHandler, Handler, NoGroup, GroupRow, Tags, NoSub

\* Replacing the record of one admission changes that admission only.
LEMMA Becomes ==
  ASSUME TypeOK, NEW h \in Handlers, NEW x \in Handler, handler' = [handler EXCEPT ![h] = x]
  PROVE  Only(h) /\ handler'[h] = x
  BY DEF TypeOK, Only

\* A request reaches the handler: everything of its admission starts anew.
LEMMA ArriveDoes ==
  ASSUME TypeOK, NEW h \in Handlers, NEW r \in Requests, Arrive(h, r)
  PROVE  /\ Only(h) /\ UNCHANGED Rest
         /\ handler[h].pc = "idle" /\ row[r].status = "absent"
         /\ \A k \in Handlers : handler[k].req # r
         /\ handler'[h].pc = "begin" /\ handler'[h].req = r /\ handler'[h].made = day
         /\ handler'[h].via = "free" /\ handler'[h].sub = NoSub
         /\ handler'[h].reset = "no" /\ handler'[h].grp = NoGroup
<1>. DEFINE u == Sender[r]
            x == [IdleHandler(u) EXCEPT !.pc = "begin", !.req = r, !.made = day]
<1>a. u \in Users
  BY QuotaAssumption
<1>0. IdleHandler(u) \in Handler /\ day \in 0..LastDay
  BY <1>a, IdleIsHandler DEF TypeOK
<1>1. x \in Handler
  BY <1>0 DEF Handler
<1>2. /\ x.pc = "begin" /\ x.req = r /\ x.made = day /\ x.via = "free" /\ x.sub = NoSub
      /\ x.reset = "no" /\ x.grp = NoGroup
  BY <1>a, IdleIsHandler DEF IdleHandler
<1>3. handler' = [handler EXCEPT ![h] = x]
  BY DEF Arrive
<1>. HIDE DEF x
<1>. QED
  BY <1>1, <1>2, <1>3, Becomes DEF Arrive, Rest

\* Saving last_seen_at takes the lock of the user's row.
LEMMA LockUserDoes ==
  ASSUME TypeOK, NEW h \in Handlers, LockUser(h)
  PROVE  /\ Only(h) /\ UNCHANGED Rest
         /\ handler[h].pc = "begin" /\ ~UserLocked(handler[h].user)
         /\ handler'[h].pc = "find" /\ SameRequest(h) /\ SameFind(h)
         /\ handler'[h].reset = handler[h].reset
         /\ handler'[h].grp = IF handler[h].req \in GroupMade THEN group ELSE NoGroup
<1>. DEFINE g == IF handler[h].req \in GroupMade THEN group ELSE NoGroup
            x == [handler[h] EXCEPT !.pc = "find", !.grp = g]
<1>1. g \in GroupRow /\ handler[h] \in Handler
  BY QuotaAssumption DEF TypeOK, NoGroup, GroupRow
<1>2. handler' = [handler EXCEPT ![h].pc = "find", ![h].grp = g]
  BY DEF LockUser
<1>. HIDE DEF g
<1>3. x \in Handler /\ handler' = [handler EXCEPT ![h] = x]
  BY <1>1, <1>2 DEF TypeOK, Handler
<1>4. Only(h) /\ handler'[h] = x
  BY <1>3, Becomes
<1>5. handler'[h].pc = "find" /\ handler'[h].grp = g /\ handler'[h].reset = handler[h].reset
      /\ SameRequest(h) /\ SameFind(h)
  BY <1>1, <1>4 DEF SameRequest, SameFind, Handler
<1>. QED
  BY <1>4, <1>5 DEF LockUser, Rest, g

\* The steps that only go on.
GoesOn(h, pc) ==
  /\ Only(h) /\ UNCHANGED Rest
  /\ handler'[h].pc = pc /\ SameRequest(h) /\ SameFind(h)
  /\ handler'[h].reset = handler[h].reset /\ handler'[h].grp = handler[h].grp

\* A step that only moves the program counter.
LEMMA GotoDoes ==
  ASSUME TypeOK, NEW h \in Handlers,
         NEW pc \in {"idle", "begin", "find", "reset", "count", "passed", "denied"},
         handler' = [handler EXCEPT ![h].pc = pc], UNCHANGED Rest
  PROVE  GoesOn(h, pc)
<1>. DEFINE x == [handler[h] EXCEPT !.pc = pc]
<1>1. handler[h] \in Handler
  BY DEF TypeOK
<1>2. x \in Handler /\ handler' = [handler EXCEPT ![h] = x]
  BY <1>1 DEF TypeOK, Handler
<1>3. Only(h) /\ handler'[h] = x
  BY <1>2, Becomes
<1>. QED
  BY <1>1, <1>3 DEF GoesOn, SameRequest, SameFind, Handler

\* A transaction ends.
Ends(h) == Only(h) /\ handler'[h] = IdleHandler(SomeUser)

\* A refusal goes on to record a denied row.
LEMMA RefuseDoes ==
  ASSUME TypeOK, NEW h \in Handlers, Refuse(h)
  PROVE  handler[h].pc = "find" /\ GoesOn(h, "denied")
  BY GotoDoes DEF Refuse, Rest

\* An admission that is given up leaves nothing behind.
LEMMA LeaveDoes ==
  ASSUME TypeOK, NEW h \in Handlers, Leave(h)
  PROVE  handler[h].pc # "idle" /\ UNCHANGED Rest /\ Ends(h)
  BY SomeUserIsOne, IdleIsHandler, Becomes DEF Leave, Ends, Rest

\* The subscription that is found belongs to whom it is looked for.
LEMMA FindSubDoes ==
  ASSUME TypeInv, NEW h \in Handlers, FindSub(h)
  PROVE  /\ Only(h) /\ UNCHANGED Rest
         /\ handler[h].pc = "find" /\ handler'[h].pc = "count" /\ SameRequest(h)
         /\ handler'[h].sub \in Subs /\ handler'[h].used = used[handler'[h].sub]
         /\ handler'[h].via \in SubTags
         /\ Owner[handler'[h].sub] = IF handler'[h].via = "group_sub" THEN Chat ELSE handler[h].user
         /\ handler'[h].reset = handler[h].reset /\ handler'[h].grp = handler[h].grp
<1>. DEFINE e == Entitlement(h)
            owner == IF e = "group_sub" THEN Chat ELSE handler[h].user
            s == Max(LiveSubs(owner))
            x == [handler[h] EXCEPT !.pc = "count", !.via = e, !.sub = s, !.used = used[s]]
<1>1. e \in SubTags /\ handler[h].pc = "find"
  BY DEF FindSub
<1>2. LiveSubs(owner) # {}
  BY <1>1 DEF Entitlement, SubTags
<1>3. s \in live /\ Owner[s] = owner
  BY <1>2, NewestIsLive DEF LiveSubs
<1>4. s \in Subs /\ used[s] \in Nat /\ handler[h] \in Handler /\ e \in Tags
  BY <1>1, <1>3 DEF TypeInv, TypeOK, SubTags, Tags
<1>5. /\ handler' = [handler EXCEPT ![h].pc = "count", ![h].via = e, ![h].sub = s, ![h].used = used[s]]
      /\ UNCHANGED Rest
  BY DEF FindSub, Rest
<1>. HIDE DEF s, e
<1>6. x \in Handler /\ handler' = [handler EXCEPT ![h] = x]
  BY <1>4, <1>5 DEF TypeInv, TypeOK, Handler
<1>7. Only(h) /\ handler'[h] = x
  BY <1>6, Becomes DEF TypeInv
<1>8. /\ handler'[h].pc = "count" /\ SameRequest(h) /\ handler'[h].via = e
      /\ handler'[h].sub = s /\ handler'[h].used = used[s]
      /\ handler'[h].reset = handler[h].reset /\ handler'[h].grp = handler[h].grp
  BY <1>4, <1>7 DEF SameRequest, Handler
<1>. QED
  BY <1>1, <1>3, <1>4, <1>5, <1>7, <1>8

\* The daily quota of the group admits, from the copy of the group loaded.
LEMMA FindGroupQuotaDoes ==
  ASSUME TypeOK, NEW h \in Handlers, FindGroupQuota(h)
  PROVE  /\ Only(h) /\ UNCHANGED Rest /\ SameRequest(h)
         /\ handler[h].pc = "find" /\ handler'[h].via = "group_quota"
         /\ handler[h].req \in GroupMade /\ DailyLimit[day] # NoLimit
         /\ handler'[h].sub = handler[h].sub /\ handler'[h].used = handler[h].used
         /\ \/ /\ handler[h].grp.date = day /\ handler'[h].pc = "count"
               /\ handler'[h].grp = handler[h].grp /\ handler'[h].reset = handler[h].reset
            \/ /\ handler[h].grp.date # day /\ handler'[h].pc = "reset"
               /\ handler'[h].grp = [date |-> day, today |-> 0]
               /\ handler'[h].reset = IF handler[h].grp.today = 0 THEN "date" ELSE "both"
<1>. DEFINE zero == [date |-> day, today |-> 0]
            kind == IF handler[h].grp.today = 0 THEN "date" ELSE "both"
            x == [handler[h] EXCEPT !.pc = "count", !.via = "group_quota"]
            y == [handler[h] EXCEPT !.pc = "reset", !.via = "group_quota",
                                    !.grp = zero, !.reset = kind]
<1>1. /\ handler[h].pc = "find" /\ Entitlement(h) = "group_quota" /\ UNCHANGED Rest
      /\ handler' = [handler EXCEPT ![h] = IF handler[h].grp.date = day THEN x ELSE y]
  BY DEF FindGroupQuota, Rest, TypeOK
<1>2. handler[h].req \in GroupMade /\ DailyLimit[day] # NoLimit
  BY <1>1 DEF Entitlement
<1>3. handler[h] \in Handler /\ zero \in GroupRow /\ kind \in {"no", "date", "both"}
  BY QuotaAssumption DEF TypeOK, GroupRow
<1>. HIDE DEF zero, kind
<1>4. x \in Handler /\ y \in Handler
  BY <1>3 DEF Handler, Tags
<1>5. CASE handler[h].grp.date = day
  <2>1. Only(h) /\ handler'[h] = x
    BY <1>1, <1>4, <1>5, Becomes
  <2>2. /\ x.pc = "count" /\ x.via = "group_quota" /\ x.grp = handler[h].grp
        /\ x.reset = handler[h].reset /\ x.sub = handler[h].sub /\ x.used = handler[h].used
        /\ x.req = handler[h].req /\ x.user = handler[h].user /\ x.made = handler[h].made
    BY <1>3 DEF Handler
  <2>. HIDE DEF x
  <2>. QED
    BY <1>1, <1>2, <1>5, <2>1, <2>2 DEF SameRequest
<1>6. CASE handler[h].grp.date # day
  <2>1. Only(h) /\ handler'[h] = y
    BY <1>1, <1>4, <1>6, Becomes
  <2>2. handler'[h].grp = zero /\ handler'[h].reset = kind
    BY <1>3, <2>1 DEF Handler
  <2>. QED
    BY <1>1, <1>2, <1>3, <1>6, <2>1, <2>2 DEF SameRequest, Handler, zero, kind
<1>. QED
  BY <1>5, <1>6

\* The autoflush of the day reset.
LEMMA FlushResetDoes ==
  ASSUME TypeOK, NEW h \in Handlers, FlushReset(h)
  PROVE  handler[h].pc = "reset" /\ GoesOn(h, "count")
  BY GotoDoes DEF FlushReset, Rest

\* The free tier is tried when nothing else admits.
LEMMA FindFreeDoes ==
  ASSUME TypeOK, NEW h \in Handlers, FindFree(h)
  PROVE  handler[h].pc = "find" /\ GoesOn(h, "count")
  BY GotoDoes DEF FindFree, Rest

\* The count of the rows in flight decides.
LEMMA CountCapacityDoes ==
  ASSUME TypeOK, NEW h \in Handlers, CountCapacity(h)
  PROVE  /\ handler[h].pc = "count"
         /\ \/ HasCapacity(h) /\ GoesOn(h, "passed")
            \/ ~HasCapacity(h) /\ GoesOn(h, "denied")
<1>1. UNCHANGED Rest
  BY DEF CountCapacity, Rest
<1>2. CASE HasCapacity(h)
  BY <1>1, <1>2, GotoDoes DEF CountCapacity
<1>3. CASE ~HasCapacity(h)
  BY <1>1, <1>3, GotoDoes DEF CountCapacity
<1>. QED
  BY <1>2, <1>3 DEF CountCapacity

\* Only one row changes.
RowOnly(r) ==
  /\ row' \in [Requests -> Row]
  /\ \A q \in Requests \ {r} : row'[q] = row[q]
StatusOnly(r, status) ==
  /\ RowOnly(r)
  /\ row'[r].status = status /\ row'[r].user = row[r].user /\ row'[r].via = row[r].via
  /\ row'[r].sub = row[r].sub /\ row'[r].made = row[r].made

\* A step that only sets the status of a row.
LEMMA StatusDoes ==
  ASSUME TypeOK, NEW r \in Requests,
         NEW status \in {"absent", "denied", "failed"} \cup Counted,
         row' = [row EXCEPT ![r].status = status]
  PROVE  StatusOnly(r, status)
<1>. DEFINE x == [row[r] EXCEPT !.status = status]
<1>1. row[r] \in Row
  BY DEF TypeOK
<1>2. x \in Row /\ row' = [row EXCEPT ![r] = x]
  BY <1>1 DEF TypeOK, Row
<1>3. /\ x.status = status /\ x.user = row[r].user /\ x.via = row[r].via
      /\ x.sub = row[r].sub /\ x.made = row[r].made
  BY <1>1 DEF Row
<1>. HIDE DEF x
<1>. QED  BY <1>1, <1>2, <1>3 DEF TypeOK, StatusOnly, RowOnly

\* The commit of an admission inserts its row, and saves the reset it owes.
LEMMA CommitRowDoes ==
  ASSUME TypeOK, NEW h \in Handlers, CommitRow(h), handler[h].req \in Requests
  PROVE  LET r == handler[h].req IN
         /\ handler[h].pc \in {"passed", "denied"}
         /\ Ends(h) /\ SaveReset(h) /\ RowOnly(r)
         /\ UNCHANGED <<day, live, worker, blind>>
         /\ row'[r].user = handler[h].user /\ row'[r].made \in {0, handler[h].made}
         /\ handler[h].pc = "passed" =>
              /\ row'[r].status = "queued" /\ row'[r].made = handler[h].made
              /\ row'[r].via = handler[h].via /\ row'[r].sub = handler[h].sub
         /\ handler[h].pc = "denied" =>
              row'[r].status = "denied" /\ row'[r].via = "free" /\ row'[r].sub = NoSub
<1>. DEFINE r == handler[h].req
            x == [status |-> "queued", user |-> handler[h].user, via |-> handler[h].via,
                  sub |-> handler[h].sub, made |-> handler[h].made]
            y == [status |-> "denied", user |-> handler[h].user, via |-> "free",
                  sub |-> NoSub, made |-> 0]
<1>0. [NoRow(handler[h].user) EXCEPT !.status = "denied"] = y
  BY DEF NoRow
<1>1. /\ handler[h].pc \in {"passed", "denied"} /\ SaveReset(h)
      /\ row' = [row EXCEPT ![r] = IF handler[h].pc = "passed" THEN x ELSE y]
      /\ handler' = [handler EXCEPT ![h] = IdleHandler(SomeUser)]
      /\ UNCHANGED <<day, live, worker, blind>>
  BY <1>0 DEF CommitRow
<1>2. handler[h].user \in Users /\ handler[h].made \in 0..LastDay
      /\ handler[h].via \in Tags /\ handler[h].sub \in Subs \cup {NoSub}
  BY DEF TypeOK, Handler
<1>3. x \in Row /\ y \in Row
  <2>1. 0 \in 0..LastDay
    BY QuotaAssumption
  <2>. QED
    BY <1>2, <2>1 DEF Row, Counted, InFlight, Tags
<1>4. /\ x.status = "queued" /\ x.user = handler[h].user /\ x.made = handler[h].made
      /\ x.via = handler[h].via /\ x.sub = handler[h].sub
      /\ y.status = "denied" /\ y.user = handler[h].user /\ y.made = 0
      /\ y.via = "free" /\ y.sub = NoSub
  OBVIOUS
<1>. HIDE DEF x, y
<1>5. RowOnly(r) /\ row'[r] = IF handler[h].pc = "passed" THEN x ELSE y
  BY <1>1, <1>3 DEF TypeOK, RowOnly
<1>6. Ends(h)
  BY <1>1, SomeUserIsOne, IdleIsHandler, Becomes DEF Ends
<1>. QED
  BY <1>1, <1>4, <1>5, <1>6

\* What is counted of the group's row.
LEMMA CounterType ==
  ASSUME NEW g \in GroupRow
  PROVE  Counter(g) \in Nat
  BY DEF Counter, GroupRow

\* A number exceeds another by what has to be added to it, or by nothing.
LEMMA ExcessFills ==
  ASSUME NEW a \in Nat, NEW b \in Nat
  PROVE  Excess(a, b) \in Nat /\ a <= b + Excess(a, b)
  BY DEF Excess

\* An admission commits its group's day only if it reset it, and what this takes
\* back of the counter is noted.
LEMMA SaveResetType ==
  ASSUME TypeOK, NEW h \in Handlers, SaveReset(h), day' = day
  PROVE  /\ group' \in GroupRow /\ UNCHANGED <<used, skewed, booked>>
         /\ \/ handler[h].reset = "no" /\ group' = group
            \/ /\ handler[h].reset = "date"
               /\ group'.date = handler[h].grp.date /\ group'.today = group.today
            \/ handler[h].reset = "both" /\ group' = handler[h].grp
         /\ erased' \in Nat /\ erased' >= erased
         /\ Counter(group) + erased <= Counter(group)' + erased'
<1>1. handler[h].reset \in {"no", "date", "both"} /\ handler[h].grp \in GroupRow /\ group \in GroupRow
      /\ erased \in Nat
  BY DEF TypeOK, Handler
<1>2. [group EXCEPT !.date = handler[h].grp.date] \in GroupRow
      /\ [group EXCEPT !.date = handler[h].grp.date].date = handler[h].grp.date
      /\ [group EXCEPT !.date = handler[h].grp.date].today = group.today
  BY <1>1 DEF GroupRow
<1>3. /\ group' \in GroupRow
      /\ \/ handler[h].reset = "no" /\ group' = group
         \/ /\ handler[h].reset = "date"
            /\ group'.date = handler[h].grp.date /\ group'.today = group.today
         \/ handler[h].reset = "both" /\ group' = handler[h].grp
  BY <1>1, <1>2 DEF SaveReset
<1>4. Counter(group) \in Nat /\ Counter(group') \in Nat /\ Counter(group)' = Counter(group')
  BY <1>1, <1>3, CounterType DEF Counter
<1>5. erased' = erased + Excess(Counter(group), Counter(group'))
  BY DEF SaveReset
<1>6. erased' \in Nat /\ erased' >= erased /\ Counter(group) + erased <= Counter(group') + erased'
  BY <1>1, <1>4, <1>5, ExcessFills
<1>. QED
  BY <1>3, <1>4, <1>6 DEF SaveReset

\* Only one worker moves.
WorkerOnly(w) ==
  /\ worker' \in [Workers -> Worker]
  /\ \A v \in Workers \ {w} : worker'[v] = worker[v]

\* Replacing the record of one worker changes that worker only.
LEMMA WorkerBecomes ==
  ASSUME TypeOK, NEW w \in Workers, NEW x \in Worker, worker' = [worker EXCEPT ![w] = x]
  PROVE  WorkerOnly(w) /\ worker'[w] = x
  BY DEF TypeOK, WorkerOnly

\* The fields of an idle worker.
LEMMA IdleIsWorker ==
  /\ IdleWorker \in Worker
  /\ IdleWorker.pc = "idle" /\ IdleWorker.req = NoRequest
  BY QuotaAssumption DEF IdleWorker, Worker, NoGroup, GroupRow

\* A row marked failed, and one that a worker writes over.
Marked(r) ==
  /\ StatusOnly(r, "failed") /\ UNCHANGED late
  /\ undone' = IF row[r].status = "completed" THEN undone \cup {r} ELSE undone
Written(r, status) ==
  /\ StatusOnly(r, status) /\ UNCHANGED undone
  /\ late' = IF row[r].status = "failed" THEN late \cup {r} ELSE late

\* Every other variable but the row, the histories of the marks and the workers.
Besides == <<day, live, ledger, handler>>

\* The intake and the sweep mark a row that is in flight or completed.
LEMMA FailJobDoes ==
  ASSUME TypeOK, NEW r \in Requests, FailJob(r)
  PROVE  row[r].status \in Counted /\ Marked(r) /\ UNCHANGED <<Besides, worker>>
<1>1. StatusOnly(r, "failed")
  BY StatusDoes DEF FailJob, Fail
<1>. QED
  BY <1>1 DEF FailJob, Fail, Marked, Besides

\* A worker takes a job in flight.
LEMMA TakeJobDoes ==
  ASSUME TypeOK, NEW w \in Workers, NEW r \in Requests, TakeJob(w, r)
  PROVE  /\ WorkerOnly(w) /\ UNCHANGED <<Besides, row, blind>>
         /\ row[r].status \in InFlight /\ worker'[w].req = r
         /\ worker'[w].pc \in {"starting", "working"}
<1>. DEFINE pc == IF row[r].status = "queued" THEN "starting" ELSE "working"
            x == [IdleWorker EXCEPT !.req = r, !.pc = pc]
<1>1. pc \in {"starting", "working"}
  OBVIOUS
<1>2. worker' = [worker EXCEPT ![w] = x]
  BY DEF TakeJob
<1>. HIDE DEF pc
<1>3. x \in Worker /\ x.req = r /\ x.pc = pc
  BY <1>1, IdleIsWorker DEF Worker
<1>. HIDE DEF x
<1>4. WorkerOnly(w) /\ worker'[w] = x
  BY <1>2, <1>3, WorkerBecomes
<1>. QED
  BY <1>1, <1>3, <1>4 DEF TakeJob, Besides

\* It says that it is processing it.
LEMMA StartJobDoes ==
  ASSUME TypeOK, NEW w \in Workers, StartJob(w), worker[w].req \in Requests
  PROVE  /\ WorkerOnly(w) /\ UNCHANGED Besides /\ Written(worker[w].req, "processing")
         /\ worker[w].pc = "starting" /\ worker'[w].pc = "working"
         /\ worker'[w].req = worker[w].req
<1>. DEFINE x == [worker[w] EXCEPT !.pc = "working"]
<1>1. worker[w] \in Worker
  BY DEF TypeOK
<1>2. x \in Worker /\ worker' = [worker EXCEPT ![w] = x]
  BY <1>1 DEF StartJob, TypeOK, Worker
<1>3. WorkerOnly(w) /\ worker'[w] = x
  BY <1>2, WorkerBecomes
<1>4. x.pc = "working" /\ x.req = worker[w].req
  BY <1>1 DEF Worker
<1>. HIDE DEF x
<1>5. StatusOnly(worker[w].req, "processing")
  BY StatusDoes DEF StartJob, Put, Counted, InFlight
<1>. QED
  BY <1>3, <1>4, <1>5 DEF StartJob, Put, Written, Besides

\* It gives the job up and marks it failed.
LEMMA JobFailsDoes ==
  ASSUME TypeOK, NEW w \in Workers, JobFails(w), worker[w].req \in Requests
  PROVE  /\ WorkerOnly(w) /\ worker'[w] = IdleWorker /\ worker[w].pc # "idle"
         /\ UNCHANGED Besides /\ Marked(worker[w].req)
<1>1. WorkerOnly(w) /\ worker'[w] = IdleWorker
  BY IdleIsWorker, WorkerBecomes DEF JobFails
<1>2. StatusOnly(worker[w].req, "failed")
  BY StatusDoes DEF JobFails, Fail
<1>. QED
  BY <1>1, <1>2 DEF JobFails, Fail, Marked, Besides

\* It stops and leaves the row as it is.
LEMMA JobStopsDoes ==
  ASSUME TypeOK, NEW w \in Workers, JobStops(w)
  PROVE  WorkerOnly(w) /\ worker'[w] = IdleWorker /\ UNCHANGED <<Besides, row, blind>>
<1>1. WorkerOnly(w) /\ worker'[w] = IdleWorker
  BY IdleIsWorker, WorkerBecomes DEF JobStops
<1>. QED
  BY <1>1 DEF JobStops, Besides

\* A booking begins by loading what it will write back.
LEMMA LoadLedgerDoes ==
  ASSUME TypeOK, NEW w \in Workers, LoadLedger(w), worker[w].req \in Requests
  PROVE  LET r == worker[w].req IN
         /\ WorkerOnly(w) /\ UNCHANGED <<Besides, row, blind>>
         /\ worker[w].pc = "working"
         /\ worker'[w].pc = "booking" /\ worker'[w].req = r /\ worker'[w].today = day
         /\ worker'[w].grp = IF r \in GroupMade THEN group ELSE NoGroup
         /\ row[r].sub # NoSub => worker'[w].used = used[row[r].sub]
<1>. DEFINE r == worker[w].req
            g == IF r \in GroupMade THEN group ELSE NoGroup
            u == IF row[r].sub = NoSub THEN 0 ELSE used[row[r].sub]
            x == [pc |-> "booking", req |-> r, today |-> day, grp |-> g, used |-> u]
<1>1. g \in GroupRow /\ u \in Nat
  <2>1. NoGroup \in GroupRow /\ group \in GroupRow
    BY QuotaAssumption DEF TypeOK, NoGroup, GroupRow
  <2>2. row[r].sub \in Subs \cup {NoSub} /\ used \in [Subs -> Nat]
    BY DEF TypeOK, Row
  <2>. QED
    BY <2>1, <2>2
<1>2. worker' = [worker EXCEPT ![w] = x]
  BY DEF LoadLedger
<1>3. row[r].sub # NoSub => u = used[row[r].sub]
  OBVIOUS
<1>. HIDE DEF u
<1>4. x \in Worker
  BY <1>1 DEF Worker, TypeOK
<1>5. WorkerOnly(w) /\ worker'[w] = x
  BY <1>2, <1>4, WorkerBecomes
<1>6. x.pc = "booking" /\ x.req = r /\ x.today = day /\ x.grp = g /\ x.used = u
  OBVIOUS
<1>. HIDE DEF x
<1>. QED
  BY <1>3, <1>5, <1>6 DEF LoadLedger, Besides

\* It then takes the lock of the group's row.
LEMMA FlushGroupDoes ==
  ASSUME TypeOK, NEW w \in Workers, FlushGroup(w)
  PROVE  /\ WorkerOnly(w) /\ UNCHANGED <<Besides, row, blind>>
         /\ worker[w].pc = "booking" /\ worker'[w].pc = "flushing"
         /\ worker'[w].req = worker[w].req /\ worker'[w].today = worker[w].today
         /\ worker'[w].used = worker[w].used /\ worker'[w].grp = worker[w].grp
<1>. DEFINE x == [worker[w] EXCEPT !.pc = "flushing"]
<1>1. worker[w] \in Worker
  BY DEF TypeOK
<1>2. x \in Worker /\ worker' = [worker EXCEPT ![w] = x]
  BY <1>1 DEF FlushGroup, TypeOK, Worker
<1>3. WorkerOnly(w) /\ worker'[w] = x
  BY <1>2, WorkerBecomes
<1>4. UNCHANGED <<Besides, row, blind>>
  BY DEF FlushGroup, Besides
<1>. QED
  BY <1>1, <1>3, <1>4 DEF FlushGroup, Worker

\* There are finitely many admissions at once.
LEMMA HandlersFinite ==
  ASSUME NEW S \in SUBSET Handlers
  PROVE  IsFiniteSet(S) /\ Cardinality(S) \in Nat
         /\ Cardinality(S) <= Cardinality(Handlers) /\ Cardinality(Handlers) \in Nat
  BY QuotaAssumption, FS_Subset, FS_CardinalityType

\* The debit of a subscription, that of the daily quota, and none.
LEMMA SaveLedgerDoes ==
  ASSUME TypeOK, NEW w \in Workers, SaveLedger(w), worker[w].req \in Requests
  PROVE  LET r == worker[w].req IN
         /\ WorkerOnly(w) /\ worker'[w] = IdleWorker /\ Written(r, "completed")
         /\ UNCHANGED <<day, live, handler>>
         /\ worker[w].pc \in {"booking", "flushing"} /\ ~UserLocked(row[r].user)
         /\ \/ row[r].via \in SubTags /\ DebitSub(w, row[r].sub)
            \/ row[r].via = "group_quota" /\ DebitGroup(w)
            \/ row[r].via = "free" /\ UNCHANGED ledger
<1>1. worker' = [worker EXCEPT ![w] = IdleWorker] /\ Put(worker[w].req, "completed")
  BY DEF SaveLedger
<1>2. WorkerOnly(w) /\ worker'[w] = IdleWorker
  BY <1>1, IdleIsWorker, WorkerBecomes
<1>3. StatusOnly(worker[w].req, "completed")
  BY <1>1, StatusDoes DEF Counted, Put
<1>. QED
  BY <1>1, <1>2, <1>3 DEF SaveLedger, Put, Written

\* A debit of a subscription keeps the types.
LEMMA DebitType ==
  ASSUME TypeOK, NEW w \in Workers, NEW s \in Subs, DebitSub(w, s)
  PROVE  /\ used' \in [Subs -> Nat] /\ skewed' \in [Subs \cup {NoSub} -> Nat]
         /\ UNCHANGED <<group, booked, erased>>
<1>1. Cardinality({h \in Handlers : handler[h].pc = "count" /\ handler[h].sub = s}) \in Nat
  BY HandlersFinite
<1>2. worker[w].used \in Nat
  BY DEF TypeOK, Worker
<1>. QED
  BY <1>1, <1>2 DEF DebitSub, TypeOK

\* The group's requests that are between loading the group and counting.
Reading == {"find", "reset", "count"}
Readers == {h \in Handlers : handler[h].req \in GroupMade /\ handler[h].pc \in Reading}

\* A debit of the daily quota writes the copy loaded, one higher, or starts a day.
\* What it takes back is noted, unless the copy and the row are of today.
LEMMA DebitGroupType ==
  ASSUME TypeOK, NEW w \in Workers, DebitGroup(w), day' = day
  PROVE  /\ group' \in GroupRow /\ booked' \in Nat /\ skewed' \in [Subs \cup {NoSub} -> Nat]
         /\ erased' \in Nat /\ erased' >= erased /\ UNCHANGED used
         /\ group'.date \in {group.date, worker[w].today}
         /\ booked' = IF worker[w].today = day THEN booked + 1 ELSE booked
         /\ skewed'[NoSub] = skewed[NoSub] + Cardinality(Readers)
         /\ \A s \in Subs : skewed'[s] = skewed[s]
         /\ \/ booked' - booked + Counter(group) + erased <= Counter(group)' + erased'
            \/ /\ worker[w].grp.date = day /\ group.date = day /\ erased' = erased
               /\ worker[w].today = day =>
                    group'.date = day /\ group'.today = worker[w].grp.today + 1
<1>. DEFINE grp == worker[w].grp
            today == worker[w].today
            n == IF grp.today = 1 THEN group.today ELSE 1
            g == IF grp.date = today THEN [date |-> group.date, today |-> grp.today + 1]
                 ELSE [date |-> today, today |-> n]
            lost == Excess(booked' - booked + Counter(group), Counter(g))
<1>1. Readers \subseteq Handlers
  BY DEF Readers
<1>2. Cardinality(Readers) \in Nat
  BY <1>1, HandlersFinite
<1>3. skewed' = [skewed EXCEPT ![NoSub] = @ + Cardinality(Readers)]
  BY DEF DebitGroup, Readers, Reading
<1>4. NoSub \notin Subs
  BY QuotaAssumption DEF NoSub
<1>5. /\ skewed' \in [Subs \cup {NoSub} -> Nat] /\ skewed'[NoSub] = skewed[NoSub] + Cardinality(Readers)
      /\ \A s \in Subs : skewed'[s] = skewed[s]
  BY <1>2, <1>3, <1>4 DEF TypeOK
<1>6. grp \in GroupRow /\ today \in 0..LastDay /\ group \in GroupRow /\ day \in 0..LastDay
      /\ booked \in Nat /\ erased \in Nat
  BY DEF TypeOK, Worker
<1>7. n \in Nat /\ grp.today \in Nat /\ group.date \in -1..LastDay
  BY <1>6 DEF GroupRow
<1>8. [group EXCEPT !.today = grp.today + 1] = [date |-> group.date, today |-> grp.today + 1]
  BY <1>6 DEF GroupRow
<1>9. group' = g
  BY <1>8 DEF DebitGroup
<1>10. booked' = IF today = day THEN booked + 1 ELSE booked
  BY DEF DebitGroup
<1>11. erased' = IF grp.date = day /\ group.date = day THEN erased ELSE erased + lost
  BY <1>9 DEF DebitGroup
<1>. HIDE DEF grp, today, n, lost
<1>12. g \in GroupRow /\ g.date \in {group.date, today}
  BY <1>6, <1>7, QuotaAssumption DEF GroupRow
<1>13. grp.date = day /\ group.date = day /\ today = day => g.date = day /\ g.today = grp.today + 1
  OBVIOUS
<1>. HIDE DEF g
<1>14. Counter(group) \in Nat /\ Counter(g) \in Nat /\ Counter(group)' = Counter(g)
  BY <1>6, <1>9, <1>12, CounterType DEF Counter
<1>15. booked' - booked + Counter(group) \in Nat /\ booked' \in Nat
  BY <1>6, <1>10, <1>14
<1>16. lost \in Nat /\ booked' - booked + Counter(group) <= Counter(g) + lost
  BY <1>14, <1>15, ExcessFills DEF lost
<1>17. erased' \in Nat /\ erased' >= erased
  BY <1>6, <1>11, <1>16
<1>18. \/ booked' - booked + Counter(group) + erased <= Counter(g) + erased'
       \/ grp.date = day /\ group.date = day /\ erased' = erased
  BY <1>6, <1>11, <1>14, <1>15, <1>16
<1>19. UNCHANGED used
  BY DEF DebitGroup
<1>. QED
  BY <1>5, <1>9, <1>10, <1>12, <1>13, <1>14, <1>15, <1>17, <1>18, <1>19 DEF grp, today

----------------------------------------------------------------------------
(* Requests under way.                                                     *)

Locked(h) == handler[h].pc \notin {"idle", "begin"}

\* What a request is once it was admitted.
Seen == Counted \cup {"failed"}

\* A request is with one admission, until its row is there; those of the workers,
\* and those that were marked, were admitted; and what was made was made by today.
BusyInv ==
  /\ \A h \in Handlers : handler[h].pc # "idle" =>
       handler[h].req \in Requests /\ row[handler[h].req].status = "absent"
  /\ \A h, k \in Handlers : handler[h].req = handler[k].req /\ handler[h].req # NoRequest => h = k
  /\ \A w \in Workers : worker[w].pc # "idle" =>
       worker[w].req \in Requests /\ row[worker[w].req].status \in Seen
  /\ \A r \in late \cup undone : row[r].status \in Seen
  /\ \A r \in Requests : row[r].made <= day
  /\ \A h \in Handlers : handler[h].made <= day

\* The row lock of last_seen_at: one admission of a user at a time.
OnePerUser ==
  \A h, k \in Handlers : Locked(h) /\ Locked(k) /\ handler[h].user = handler[k].user => h = k

\* What an entitlement is booked on: a subscription of the user or of the group,
\* or none; and only requests of the group are booked on its daily quota.
Tagged(x) ==
  IF x.via \in SubTags
  THEN x.sub \in Subs /\ Owner[x.sub] = IF x.via = "group_sub" THEN Chat ELSE x.user
  ELSE x.sub = NoSub

TagInv ==
  /\ \A h \in Handlers :
       /\ Tagged(handler[h])
       /\ handler[h].via = "group_quota" => handler[h].req \in GroupMade
       /\ handler[h].pc \in {"idle", "begin", "find"} => handler[h].via = "free"
       /\ handler[h].pc = "reset" => handler[h].via = "group_quota"
  /\ \A r \in Requests :
       /\ Tagged(row[r])
       /\ row[r].via = "group_quota" => r \in GroupMade

Flow == TypeInv /\ BusyInv /\ OnePerUser

QuotaInv == Flow /\ TagInv

\* The invariant at the start.
\* The invariant at the start.
LEMMA QuotaInit == Init => QuotaInv
<1>. SUFFICES ASSUME Init PROVE QuotaInv
  OBVIOUS
<1>1. NoRow(SomeUser) \in Row /\ NoRow(SomeUser).made = 0 /\ NoRow(SomeUser).status = "absent"
  BY SomeUserIsOne, QuotaAssumption DEF NoRow, Row, Tags
<1>2. TypeOK
  <2>1. group \in GroupRow
    <3>1. group \in [date : {-1}, today : Nat]
      BY QuotaAssumption DEF Init
    <3>2. {-1} \subseteq -1..LastDay
      BY QuotaAssumption
    <3>. QED
      BY <3>1, <3>2 DEF GroupRow
  <2>2. /\ handler \in [Handlers -> Handler] /\ worker \in [Workers -> Worker]
        /\ row \in [Requests -> Row]
    BY <1>1, SomeUserIsOne, IdleIsHandler, IdleIsWorker DEF Init
  <2>. QED
    BY <2>1, <2>2, QuotaAssumption DEF Init, TypeOK
<1>3. LiveBounded
  BY DEF Init, LiveBounded
<1>4. /\ \A h \in Handlers : handler[h].pc = "idle" /\ handler[h].req = NoRequest /\ handler[h].made = 0
      /\ \A w \in Workers : worker[w].pc = "idle" /\ worker[w].req = NoRequest
      /\ \A r \in Requests : row[r].made = 0
      /\ day = 0 /\ late = {} /\ undone = {}
  BY <1>1, SomeUserIsOne, IdleIsHandler, IdleIsWorker DEF Init
<1>5. TagInv
  <2>1. NoRow(SomeUser).via = "free" /\ NoRow(SomeUser).sub = NoSub
    BY DEF NoRow
  <2>2. /\ \A h \in Handlers : /\ handler[h].via = "free" /\ handler[h].sub = NoSub
                                /\ handler[h].pc = "idle"
        /\ \A r \in Requests : row[r].via = "free" /\ row[r].sub = NoSub
    BY <2>1, SomeUserIsOne, IdleIsHandler DEF Init
  <2>. QED
    BY <2>2 DEF TagInv, Tagged, SubTags
<1>. QED
  BY <1>2, <1>3, <1>4, <1>5 DEF QuotaInv, Flow, TypeInv, BusyInv, OnePerUser, Locked

\* A step of an admission that leaves the rows alone.
LEMMA OnlyKeeps ==
  ASSUME QuotaInv, NEW h \in Handlers, Only(h), UNCHANGED Rest,
         \/ Ends(h)
         \/ SameRequest(h) /\ handler[h].pc # "idle" /\ (Locked(h) \/ ~UserLocked(handler[h].user))
         \/ /\ handler'[h].pc = "begin" /\ handler'[h].made = day
            /\ handler'[h].req \in Requests /\ row[handler'[h].req].status = "absent"
            /\ \A k \in Handlers : handler[k].req # handler'[h].req
  PROVE  Flow'
<1>1. TypeInv'
  BY DEF QuotaInv, Flow, TypeInv, TypeOK, LiveBounded, Only, Rest, ledger, blind
<1>. DEFINE absent(k) == handler'[k].pc # "idle" =>
              handler'[k].req \in Requests /\ row[handler'[k].req].status = "absent"
<1>2. /\ \A k \in Handlers : handler'[k].made <= day
      /\ \A k \in Handlers : absent(k)
      /\ \A k, l \in Handlers :
           handler'[k].req = handler'[l].req /\ handler'[k].req # NoRequest => k = l
      /\ OnePerUser'
  <2>1. CASE Ends(h)
    <3>1. handler'[h].pc = "idle" /\ handler'[h].made = 0 /\ handler'[h].req = NoRequest
      BY <2>1, SomeUserIsOne, IdleIsHandler DEF Ends
    <3>. QED
      BY <3>1 DEF Only, QuotaInv, Flow, BusyInv, TypeInv, TypeOK, OnePerUser, Locked
  <2>2. CASE SameRequest(h) /\ handler[h].pc # "idle" /\ (Locked(h) \/ ~UserLocked(handler[h].user))
    BY <2>2 DEF Only, SameRequest, QuotaInv, Flow, BusyInv, OnePerUser, Locked, UserLocked
  <2>3. CASE /\ handler'[h].pc = "begin" /\ handler'[h].made = day
             /\ handler'[h].req \in Requests /\ row[handler'[h].req].status = "absent"
             /\ \A k \in Handlers : handler[k].req # handler'[h].req
    BY <2>3 DEF Only, QuotaInv, Flow, BusyInv, TypeInv, TypeOK, OnePerUser, Locked
  <2>. QED
    BY <2>1, <2>2, <2>3
<1>3. BusyInv'
  BY <1>2 DEF QuotaInv, Flow, BusyInv, Rest, blind
<1>. QED
  BY <1>1, <1>2, <1>3 DEF QuotaInv, Flow


\* The steps of an admission keep types, locks and who is busy with what.
LEMMA AdmissionKeeps ==
  ASSUME QuotaInv, NEW h \in Handlers, Admission(h)
  PROVE  Flow'
<1>. USE DEF Locked
<1>0. TypeInv /\ TypeOK
  BY DEF QuotaInv, Flow, TypeInv
<1>1. ASSUME NEW r \in Requests, Arrive(h, r) PROVE Flow'
  BY <1>0, <1>1, ArriveDoes, OnlyKeeps
<1>2. CASE LockUser(h)
  BY <1>0, <1>2, LockUserDoes, OnlyKeeps
<1>3. CASE Refuse(h)
  BY <1>0, <1>3, RefuseDoes, OnlyKeeps DEF GoesOn
<1>4. CASE FindSub(h)
  BY <1>0, <1>4, FindSubDoes, OnlyKeeps
<1>5. CASE FindGroupQuota(h)
  BY <1>0, <1>5, FindGroupQuotaDoes, OnlyKeeps
<1>6. CASE FlushReset(h) \/ FindFree(h) \/ CountCapacity(h)
  BY <1>0, <1>6, FlushResetDoes, FindFreeDoes, CountCapacityDoes, OnlyKeeps DEF GoesOn
<1>7. CASE Leave(h)
  BY <1>0, <1>7, LeaveDoes, OnlyKeeps DEF Ends
<1>8. CASE CommitRow(h)
  <2>. DEFINE r == handler[h].req
  <2>1. r \in Requests /\ row[r].status = "absent" /\ handler[h].made \in 0..LastDay
    BY <1>8 DEF CommitRow, QuotaInv, Flow, BusyInv, TypeInv, TypeOK, Handler
  <2>2. /\ Ends(h) /\ RowOnly(r) /\ SaveReset(h)
        /\ UNCHANGED <<day, live, worker, blind>>
        /\ row'[r].made \in {0, handler[h].made}
    BY <1>0, <1>8, <2>1, CommitRowDoes
  <2>3. group' \in GroupRow /\ erased' \in Nat /\ UNCHANGED <<used, skewed, booked>>
    BY <1>0, <2>2, SaveResetType
  <2>4. handler'[h].pc = "idle" /\ handler'[h].made = 0 /\ handler'[h].req = NoRequest
        /\ Only(h)
    BY <2>2, SomeUserIsOne, IdleIsHandler DEF Ends
  <2>5. TypeInv'
    BY <2>2, <2>3, <2>4 DEF QuotaInv, Flow, TypeInv, TypeOK, LiveBounded, Only, RowOnly, blind
  <2>6. OnePerUser'
    BY <2>4 DEF QuotaInv, Flow, OnePerUser, Only
  <2>7. \A k \in Handlers : handler'[k].pc # "idle" =>
          handler'[k].req \in Requests /\ row'[handler'[k].req].status = "absent"
    BY <2>1, <2>2, <2>4, QuotaAssumption DEF QuotaInv, Flow, BusyInv, Only, RowOnly
  <2>8. \A w \in Workers : worker'[w].pc # "idle" =>
          worker'[w].req \in Requests /\ row'[worker'[w].req].status \in Seen
    BY <2>1, <2>2 DEF QuotaInv, Flow, BusyInv, RowOnly, Seen, Counted, InFlight
  <2>9. \A q \in late' \cup undone' : row'[q].status \in Seen
    <3>1. UNCHANGED <<late, undone>>
      BY <2>2 DEF blind
    <3>. QED
      BY <2>1, <2>2, <3>1 DEF QuotaInv, Flow, BusyInv, TypeInv, TypeOK, RowOnly, Seen, Counted, InFlight
  <2>10. /\ \A k, l \in Handlers :
             handler'[k].req = handler'[l].req /\ handler'[k].req # NoRequest => k = l
         /\ \A k \in Handlers : handler'[k].made <= day'
         /\ \A q \in Requests : row'[q].made <= day'
    BY <2>1, <2>2, <2>4 DEF QuotaInv, Flow, BusyInv, Only, RowOnly, TypeInv, TypeOK
  <2>11. BusyInv'
    BY <2>7, <2>8, <2>9, <2>10 DEF BusyInv
  <2>. QED
    BY <2>5, <2>6, <2>11 DEF Flow
<1>. QED
  BY <1>1, <1>2, <1>3, <1>4, <1>5, <1>6, <1>7, <1>8 DEF Admission

\* A step of a worker, or a mark, is about requests that were admitted.
LEMMA JobKeeps ==
  ASSUME QuotaInv, TypeInv', UNCHANGED <<day, handler>>,
         \A r \in Requests : /\ row'[r].made = row[r].made
                             /\ \/ row'[r].status = row[r].status
                                \/ row[r].status \in Seen /\ row'[r].status \in Seen,
         \A r \in late' \cup undone' : r \in late \cup undone \/ row[r].status \in Seen,
         \A w \in Workers : worker'[w].pc # "idle" =>
           worker'[w].req \in Requests /\ row[worker'[w].req].status \in Seen
  PROVE  Flow'
<1>1. \A h \in Handlers : handler[h].pc # "idle" => row'[handler[h].req].status = "absent"
  BY DEF QuotaInv, Flow, BusyInv, Seen, Counted, InFlight
<1>2. \A w \in Workers : worker'[w].pc # "idle" =>
        worker'[w].req \in Requests /\ row'[worker'[w].req].status \in Seen
  OBVIOUS
<1>3. \A r \in late' \cup undone' : row'[r].status \in Seen
  <2>1. late' \subseteq Requests /\ undone' \subseteq Requests
    BY DEF TypeInv, TypeOK
  <2>. QED
    BY <2>1 DEF QuotaInv, Flow, BusyInv
<1>. QED
  BY <1>1, <1>2, <1>3 DEF QuotaInv, Flow, BusyInv, OnePerUser, Locked

\* A row that is marked failed was admitted.
LEMMA MarkKeeps ==
  ASSUME QuotaInv, NEW r \in Requests, row[r].status \in Seen, Marked(r), UNCHANGED Besides,
         worker' \in [Workers -> Worker],
         \A w \in Workers : worker'[w] = worker[w] \/ worker'[w].pc = "idle"
  PROVE  Flow'
<1>1. TypeInv'
  BY DEF QuotaInv, Flow, TypeInv, TypeOK, LiveBounded, Marked, StatusOnly, RowOnly, Besides, ledger
<1>2. UNCHANGED <<day, handler>>
  BY DEF Besides
<1>3. \A q \in Requests : /\ row'[q].made = row[q].made
                          /\ \/ row'[q].status = row[q].status
                             \/ row[q].status \in Seen /\ row'[q].status \in Seen
  BY DEF Marked, StatusOnly, RowOnly, Seen
<1>4. \A q \in late' \cup undone' : q \in late \cup undone \/ row[q].status \in Seen
  BY DEF Marked
<1>5. \A w \in Workers : worker'[w].pc # "idle" =>
        worker'[w].req \in Requests /\ row[worker'[w].req].status \in Seen
  BY DEF QuotaInv, Flow, BusyInv
<1>. QED
  BY <1>1, <1>2, <1>3, <1>4, <1>5, JobKeeps

\* So was one that a worker writes.
LEMMA WriteKeeps ==
  ASSUME QuotaInv, NEW w \in Workers, worker[w].pc # "idle", WorkerOnly(w),
         NEW status \in {"processing", "completed"}, Written(worker[w].req, status),
         worker'[w].pc = "idle" \/ worker'[w].req = worker[w].req, TypeInv',
         UNCHANGED <<day, handler>>
  PROVE  Flow'
<1>. DEFINE r == worker[w].req
<1>1. r \in Requests /\ row[r].status \in Seen
  BY DEF QuotaInv, Flow, BusyInv
<1>2. \A q \in Requests : /\ row'[q].made = row[q].made
                          /\ \/ row'[q].status = row[q].status
                             \/ row[q].status \in Seen /\ row'[q].status \in Seen
  BY <1>1 DEF Written, StatusOnly, RowOnly, Seen, Counted, InFlight
<1>3. \A q \in late' \cup undone' : q \in late \cup undone \/ row[q].status \in Seen
  BY <1>1 DEF Written
<1>4. \A v \in Workers : worker'[v].pc # "idle" =>
        worker'[v].req \in Requests /\ row[worker'[v].req].status \in Seen
  BY <1>1 DEF QuotaInv, Flow, BusyInv, WorkerOnly
<1>. QED
  BY <1>2, <1>3, <1>4, JobKeeps

\* A step of a worker that only changes what it holds.
LEMMA HoldKeeps ==
  ASSUME QuotaInv, NEW w \in Workers, WorkerOnly(w), UNCHANGED <<Besides, row, blind>>,
         worker'[w].pc # "idle" =>
           worker'[w].req \in Requests /\ row[worker'[w].req].status \in Seen
  PROVE  Flow'
<1>1. TypeInv'
  BY DEF QuotaInv, Flow, TypeInv, TypeOK, LiveBounded, WorkerOnly, Besides, ledger, blind
<1>2. UNCHANGED <<day, handler, row, late, undone>>
  BY DEF Besides, blind
<1>3. \A v \in Workers : worker'[v].pc # "idle" =>
        worker'[v].req \in Requests /\ row[worker'[v].req].status \in Seen
  BY DEF QuotaInv, Flow, BusyInv, WorkerOnly
<1>. QED
  BY <1>1, <1>2, <1>3, JobKeeps

\* A debit keeps the types of the counters.
LEMMA LedgerType ==
  ASSUME QuotaInv, NEW w \in Workers, NEW r \in Requests, day' = day,
         \/ row[r].via \in SubTags /\ DebitSub(w, row[r].sub)
         \/ row[r].via = "group_quota" /\ DebitGroup(w)
         \/ row[r].via = "free" /\ UNCHANGED ledger
  PROVE  /\ used' \in [Subs -> Nat] /\ group' \in GroupRow
         /\ skewed' \in [Subs \cup {NoSub} -> Nat] /\ booked' \in Nat /\ erased' \in Nat
<1>0. TypeOK
  BY DEF QuotaInv, Flow, TypeInv
<1>1. CASE row[r].via \in SubTags /\ DebitSub(w, row[r].sub)
  <2>1. row[r].sub \in Subs
    BY <1>1 DEF QuotaInv, TagInv, Tagged
  <2>. QED
    BY <1>0, <1>1, <2>1, DebitType DEF TypeOK
<1>2. CASE row[r].via = "group_quota" /\ DebitGroup(w)
  BY <1>0, <1>2, DebitGroupType DEF TypeOK
<1>3. CASE UNCHANGED ledger
  BY <1>0, <1>3 DEF TypeOK, ledger
<1>. QED
  BY <1>1, <1>2, <1>3

\* So the steps of a worker keep them.
LEMMA WorkKeeps ==
  ASSUME QuotaInv, NEW w \in Workers, Job(w)
  PROVE  Flow'
<1>0. TypeInv /\ TypeOK
  BY DEF QuotaInv, Flow, TypeInv
<1>a. worker[w].pc # "idle" => worker[w].req \in Requests /\ row[worker[w].req].status \in Seen
  BY DEF QuotaInv, Flow, BusyInv
<1>1. ASSUME NEW r \in Requests, TakeJob(w, r) PROVE Flow'
  BY <1>0, <1>1, TakeJobDoes, HoldKeeps DEF Seen, Counted
<1>2. CASE StartJob(w)
  <2>1. worker[w].pc = "starting"
    BY <1>2 DEF StartJob
  <2>2. /\ WorkerOnly(w) /\ UNCHANGED Besides /\ Written(worker[w].req, "processing")
        /\ worker'[w].req = worker[w].req
    BY <1>0, <1>a, <1>2, <2>1, StartJobDoes
  <2>3. TypeInv'
    <3>1. worker[w].req \in Requests
      BY <1>a, <2>1
    <3>. QED
      BY <1>0, <2>2, <3>1 DEF TypeInv, TypeOK, LiveBounded, WorkerOnly, Written, StatusOnly, RowOnly,
                              Besides, ledger
  <2>4. UNCHANGED <<day, handler>>
    BY <2>2 DEF Besides
  <2>. QED
    BY <2>1, <2>2, <2>3, <2>4, WriteKeeps
<1>3. CASE JobFails(w)
  <2>1. worker[w].pc # "idle"
    BY <1>3 DEF JobFails
  <2>2. worker[w].req \in Requests /\ row[worker[w].req].status \in Seen
    BY <1>a, <2>1
  <2>3. /\ WorkerOnly(w) /\ worker'[w] = IdleWorker /\ UNCHANGED Besides /\ Marked(worker[w].req)
    BY <1>0, <1>3, <2>2, JobFailsDoes
  <2>4. worker' \in [Workers -> Worker]
        /\ \A v \in Workers : worker'[v] = worker[v] \/ worker'[v].pc = "idle"
    BY <2>3, IdleIsWorker DEF WorkerOnly
  <2>. QED
    BY <2>2, <2>3, <2>4, MarkKeeps
<1>4. CASE JobStops(w)
  BY <1>0, <1>4, JobStopsDoes, HoldKeeps, IdleIsWorker
<1>5. CASE LoadLedger(w)
  <2>1. worker[w].pc = "working"
    BY <1>5 DEF LoadLedger
  <2>. QED
    BY <1>0, <1>a, <1>5, <2>1, LoadLedgerDoes, HoldKeeps
<1>6. CASE FlushGroup(w)
  BY <1>0, <1>a, <1>6, FlushGroupDoes, HoldKeeps
<1>7. CASE SaveLedger(w)
  <2>. DEFINE r == worker[w].req
  <2>1. worker[w].pc # "idle" /\ r \in Requests
    BY <1>0, <1>7 DEF SaveLedger, TypeOK, Worker
  <2>2. /\ WorkerOnly(w) /\ worker'[w] = IdleWorker /\ Written(r, "completed")
        /\ UNCHANGED <<day, live, handler>>
        /\ \/ row[r].via \in SubTags /\ DebitSub(w, row[r].sub)
           \/ row[r].via = "group_quota" /\ DebitGroup(w)
           \/ row[r].via = "free" /\ UNCHANGED ledger
    BY <1>0, <1>7, <2>1, SaveLedgerDoes
  <2>3. /\ used' \in [Subs -> Nat] /\ group' \in GroupRow
        /\ skewed' \in [Subs \cup {NoSub} -> Nat] /\ booked' \in Nat /\ erased' \in Nat
    BY <2>1, <2>2, LedgerType
  <2>4. TypeInv'
    BY <1>0, <2>1, <2>2, <2>3
       DEF TypeInv, TypeOK, LiveBounded, WorkerOnly, Written, StatusOnly, RowOnly
  <2>. QED
    BY <2>1, <2>2, <2>4, WriteKeeps, IdleIsWorker
<1>. QED
  BY <1>1, <1>2, <1>3, <1>4, <1>5, <1>6, <1>7 DEF Job

\* The world, and the marks of the intake and the sweep.
LEMMA WorldKeeps ==
  ASSUME QuotaInv,
         \/ Midnight \/ UNCHANGED vars \/ \E r \in Requests : FailJob(r)
         \/ \E s \in Subs : Activate(s) \/ Expire(s)
  PROVE  Flow'
<1>0. TypeOK /\ LiveBounded
  BY DEF QuotaInv, Flow, TypeInv
<1>1. CASE Midnight
  <2>1. /\ day' \in 0..LastDay /\ day' = day + 1 /\ booked' = 0 /\ erased' = 0 /\ day \in Nat
        /\ skewed' \in [Subs \cup {NoSub} -> Nat]
        /\ UNCHANGED <<live, used, group, row, handler, worker, late, undone>>
    BY <1>0, <1>1, QuotaAssumption DEF Midnight, TypeOK, blind
  <2>2. TypeInv'
    BY <1>0, <2>1 DEF TypeInv, TypeOK, LiveBounded
  <2>3. /\ \A r \in Requests : row[r].made <= day + 1
        /\ \A h \in Handlers : handler[h].made <= day + 1
    BY <1>0, <2>1 DEF QuotaInv, Flow, BusyInv, TypeOK, Row, Handler
  <2>. QED
    BY <2>1, <2>2, <2>3 DEF QuotaInv, Flow, BusyInv, OnePerUser, Locked
<1>2. CASE UNCHANGED vars
  BY <1>2 DEF vars, ledger, blind, QuotaInv, Flow, TypeInv, TypeOK, LiveBounded, BusyInv,
              OnePerUser, Locked
<1>3. ASSUME NEW r \in Requests, FailJob(r) PROVE Flow'
  <2>1. row[r].status \in Seen /\ Marked(r) /\ UNCHANGED <<Besides, worker>>
    BY <1>0, <1>3, FailJobDoes DEF Seen
  <2>. QED
    BY <1>0, <2>1, MarkKeeps DEF TypeOK
<1>4. ASSUME NEW s \in Subs, Activate(s) \/ Expire(s) PROVE Flow'
  <2>1. /\ UNCHANGED <<day, used, group, skewed, booked, erased, row, handler, worker, late, undone>>
        /\ live' \subseteq live \cup {s}
    BY <1>4 DEF Activate, Expire, ledger, blind
  <2>2. LiveBounded'
    <3>1. PICK b \in Nat : \A t \in live : t <= b
      BY <1>0 DEF LiveBounded
    <3>. DEFINE c == IF s <= b THEN b ELSE s
    <3>2. s \in Nat /\ live \subseteq Nat
      BY <1>0, QuotaAssumption DEF TypeOK
    <3>3. c \in Nat /\ \A t \in live' : t <= c
      BY <2>1, <3>1, <3>2
    <3>. QED
      BY <3>3 DEF LiveBounded
  <2>. QED
    BY <1>0, <2>1, <2>2 DEF QuotaInv, Flow, TypeInv, TypeOK, BusyInv, OnePerUser, Locked
<1>. QED
  BY <1>1, <1>2, <1>3, <1>4

\* A request keeps the entitlement that admitted it.
LEMMA TagKeeps == QuotaInv /\ [Next]_vars => TagInv'
<1>. SUFFICES ASSUME QuotaInv, [Next]_vars PROVE TagInv'
  OBVIOUS
<1>0. TypeInv /\ TypeOK /\ TagInv
  BY DEF QuotaInv, Flow, TypeInv
<1>1. ASSUME UNCHANGED <<row, handler>> PROVE TagInv'
  BY <1>0, <1>1 DEF TagInv, Tagged
<1>2. ASSUME NEW r \in Requests, NEW status, StatusOnly(r, status), UNCHANGED handler
      PROVE  TagInv'
  BY <1>0, <1>2 DEF TagInv, Tagged, StatusOnly, RowOnly
<1>3. ASSUME NEW h \in Handlers, Only(h), UNCHANGED row,
             /\ Tagged(handler'[h])
             /\ handler'[h].via = "group_quota" => handler'[h].req \in GroupMade
             /\ handler'[h].pc \in {"idle", "begin", "find"} => handler'[h].via = "free"
             /\ handler'[h].pc = "reset" => handler'[h].via = "group_quota"
      PROVE  TagInv'
  BY <1>0, <1>3 DEF TagInv, Tagged, Only
<1>4. ASSUME NEW h \in Handlers, Ends(h)
      PROVE  /\ Only(h) /\ Tagged(handler'[h])
             /\ handler'[h].via = "free" /\ handler'[h].pc = "idle"
  BY <1>4, SomeUserIsOne, IdleIsHandler DEF Ends, Tagged, SubTags
<1>5. ASSUME NEW h \in Handlers, NEW pc \in {"find", "count", "passed", "denied"}, GoesOn(h, pc),
             handler[h].pc = "begin" \/ pc # "find"
      PROVE  TagInv'
  BY <1>0, <1>3, <1>5 DEF GoesOn, Rest, SameRequest, SameFind, TagInv, Tagged
<1>6. ASSUME NEW h \in Handlers, Admission(h) PROVE TagInv'
  <2>1. ASSUME NEW r \in Requests, Arrive(h, r) PROVE TagInv'
    BY <1>0, <1>3, <2>1, ArriveDoes DEF Rest, Tagged, SubTags
  <2>2. CASE LockUser(h)
    BY <1>0, <1>3, <2>2, LockUserDoes DEF Rest, SameRequest, SameFind, TagInv, Tagged
  <2>3. CASE Refuse(h)
    BY <1>0, <1>5, <2>3, RefuseDoes
  <2>4. CASE FindSub(h)
    <3>1. Tagged(handler'[h]) /\ handler'[h].via # "group_quota"
      BY <1>0, <2>4, FindSubDoes DEF Tagged, SubTags, SameRequest
    <3>. QED
      BY <1>0, <1>3, <2>4, <3>1, FindSubDoes DEF Rest
  <2>5. CASE FindGroupQuota(h)
    <3>1. handler[h].sub = NoSub
      BY <1>0, <2>5, FindGroupQuotaDoes DEF TagInv, Tagged, SubTags
    <3>. QED
      BY <1>0, <1>3, <2>5, <3>1, FindGroupQuotaDoes DEF Rest, Tagged, SubTags, SameRequest
  <2>6. CASE FlushReset(h) \/ FindFree(h) \/ CountCapacity(h)
    BY <1>0, <1>5, <2>6, FlushResetDoes, FindFreeDoes, CountCapacityDoes
  <2>7. CASE Leave(h)
    BY <1>0, <1>3, <1>4, <2>7, LeaveDoes DEF Rest
  <2>8. CASE CommitRow(h)
    <3>. DEFINE r == handler[h].req
    <3>1. r \in Requests
      BY <2>8 DEF CommitRow, QuotaInv, Flow, BusyInv
    <3>2. /\ Ends(h) /\ RowOnly(r) /\ row'[r].user = handler[h].user
          /\ \/ row'[r].via = handler[h].via /\ row'[r].sub = handler[h].sub
             \/ row'[r].via = "free" /\ row'[r].sub = NoSub
      BY <1>0, <2>8, <3>1, CommitRowDoes
    <3>3. Tagged(row'[r]) /\ (row'[r].via = "group_quota" => r \in GroupMade)
      BY <1>0, <3>2 DEF TagInv, Tagged, SubTags
    <3>. QED
      BY <1>0, <1>4, <3>2, <3>3 DEF TagInv, Tagged, Only, RowOnly
  <2>. QED
    BY <1>6, <2>1, <2>2, <2>3, <2>4, <2>5, <2>6, <2>7, <2>8 DEF Admission
<1>7. ASSUME NEW w \in Workers, Job(w) PROVE TagInv'
  <2>0. worker[w].pc # "idle" => worker[w].req \in Requests
    BY DEF QuotaInv, Flow, BusyInv
  <2>1. CASE (\E r \in Requests : TakeJob(w, r)) \/ JobStops(w) \/ LoadLedger(w) \/ FlushGroup(w)
    BY <1>1, <2>1 DEF TakeJob, JobStops, LoadLedger, FlushGroup
  <2>2. CASE StartJob(w)
    <3>1. worker[w].req \in Requests
      BY <2>0, <2>2 DEF StartJob
    <3>. QED
      BY <1>0, <1>2, <2>2, <3>1, StartJobDoes DEF Written, Besides
  <2>3. CASE JobFails(w)
    <3>1. worker[w].req \in Requests
      BY <2>0, <2>3 DEF JobFails
    <3>. QED
      BY <1>0, <1>2, <2>3, <3>1, JobFailsDoes DEF Marked, Besides
  <2>4. CASE SaveLedger(w)
    <3>1. worker[w].req \in Requests
      BY <1>0, <2>4 DEF SaveLedger, TypeOK, Worker
    <3>. QED
      BY <1>0, <1>2, <2>4, <3>1, SaveLedgerDoes DEF Written
  <2>. QED
    BY <1>7, <2>1, <2>2, <2>3, <2>4 DEF Job
<1>8. ASSUME NEW r \in Requests, FailJob(r) PROVE TagInv'
  BY <1>0, <1>2, <1>8, FailJobDoes DEF Marked, Besides
<1>9. CASE Midnight \/ UNCHANGED vars \/ \E s \in Subs : Activate(s) \/ Expire(s)
  BY <1>1, <1>9 DEF Midnight, Activate, Expire, vars
<1>. QED
  BY <1>6, <1>7, <1>8, <1>9 DEF Next

\* So every step preserves the invariant.
LEMMA QuotaNext == QuotaInv /\ [Next]_vars => QuotaInv'
<1>. SUFFICES ASSUME QuotaInv, [Next]_vars PROVE QuotaInv'
  OBVIOUS
<1>1. Flow'
  BY AdmissionKeeps, WorkKeeps, WorldKeeps DEF Next
<1>. QED
  BY <1>1, TagKeeps DEF QuotaInv

\* It always holds.
LEMMA QuotaAlways == Spec => []QuotaInv
  BY QuotaInit, QuotaNext, PTL DEF Spec

\* Every variable keeps its type (subscription_service.py).
THEOREM TypeCorrect == Spec => []TypeOK
<1>1. QuotaInv => TypeOK
  BY DEF QuotaInv, Flow, TypeInv
<1>. QED
  BY <1>1, QuotaAlways, PTL

----------------------------------------------------------------------------
(* The kinds of steps, for what is counted.                                *)

\* An admission goes on, or ends, and has not passed.
Waits(h) == Only(h) /\ UNCHANGED Rest /\ handler'[h].pc \notin {"count", "passed"}

\* It has found an entitlement, a subscription with its downloads_used.
Counts(h) ==
  /\ Only(h) /\ UNCHANGED Rest /\ SameRequest(h)
  /\ handler[h].pc \in {"find", "reset"} /\ handler'[h].pc = "count"
  /\ handler'[h].via \in SubTags => handler'[h].used = used[handler'[h].sub]

\* It passes.
Passes(h) == handler[h].pc = "count" /\ HasCapacity(h) /\ GoesOn(h, "passed")

\* Its row is committed.
Commits(h) ==
  LET r == handler[h].req IN
  /\ r \in Requests /\ row[r].status = "absent"
  /\ handler[h].pc \in {"passed", "denied"} /\ Ends(h) /\ RowOnly(r) /\ SaveReset(h)
  /\ UNCHANGED <<day, worker, blind>>
  /\ row'[r].user = handler[h].user
  /\ handler[h].pc = "passed" =>
       /\ row'[r].status = "queued" /\ row'[r].made = handler[h].made
       /\ row'[r].via = handler[h].via /\ row'[r].sub = handler[h].sub
  /\ handler[h].pc = "denied" => row'[r].status = "denied"

\* A worker takes a job in flight, or lets go of one.
Holds(w) ==
  /\ WorkerOnly(w) /\ UNCHANGED <<Besides, row, blind>>
  /\ \/ worker'[w].pc = "idle"
     \/ /\ worker'[w].pc \in {"starting", "working"}
        /\ worker'[w].req \in Requests /\ row[worker'[w].req].status \in InFlight

\* A booking starts.
Loads(w) ==
  LET r == worker[w].req IN
  /\ r \in Requests /\ worker[w].pc = "working"
  /\ WorkerOnly(w) /\ UNCHANGED <<Besides, row, blind>>
  /\ worker'[w].pc = "booking" /\ worker'[w].req = r /\ worker'[w].today = day
  /\ worker'[w].grp = IF r \in GroupMade THEN group ELSE NoGroup
  /\ row[r].sub # NoSub => worker'[w].used = used[row[r].sub]

\* It has the lock of the group's row.
Flushes(w) ==
  /\ worker[w].pc = "booking" /\ WorkerOnly(w) /\ UNCHANGED <<Besides, row, blind>>
  /\ worker'[w].pc = "flushing"
  /\ worker'[w].req = worker[w].req /\ worker'[w].today = worker[w].today
  /\ worker'[w].used = worker[w].used /\ worker'[w].grp = worker[w].grp

\* A job is marked as being processed.
Starts(w) ==
  /\ worker[w].req \in Requests /\ worker[w].pc = "starting" /\ row[worker[w].req].status \in Seen
  /\ WorkerOnly(w) /\ UNCHANGED Besides /\ Written(worker[w].req, "processing")
  /\ worker'[w].pc = "working" /\ worker'[w].req = worker[w].req

\* A booking is saved.
Settles(w) ==
  LET r == worker[w].req IN
  /\ r \in Requests /\ worker[w].pc \in {"booking", "flushing"} /\ row[r].status \in Seen
  /\ WorkerOnly(w) /\ worker'[w].pc = "idle" /\ Written(r, "completed")
  /\ UNCHANGED <<day, handler>> /\ ~UserLocked(row[r].user)
  /\ \/ row[r].via \in SubTags /\ DebitSub(w, row[r].sub)
     \/ row[r].via = "group_quota" /\ DebitGroup(w)
     \/ row[r].via = "free" /\ UNCHANGED ledger

\* A request is marked failed, by its worker or whatever its worker does.
Fails(r) ==
  /\ row[r].status \in Seen /\ Marked(r) /\ UNCHANGED Besides
  /\ \/ UNCHANGED worker /\ row[r].status \in Counted
     \/ \E w \in Workers : /\ worker[w].pc # "idle" /\ worker[w].req = r
                           /\ WorkerOnly(w) /\ worker'[w].pc = "idle"

\* Nothing that is counted changes.
Still == UNCHANGED <<day, ledger, row, handler, worker, blind>>

\* Every step is of one of these kinds.
LEMMA NextKinds ==
  ASSUME QuotaInv, [Next]_vars
  PROVE  \/ \E h \in Handlers : Waits(h) \/ Counts(h) \/ Passes(h) \/ Commits(h)
         \/ \E w \in Workers : Holds(w) \/ Loads(w) \/ Flushes(w) \/ Starts(w) \/ Settles(w)
         \/ \E r \in Requests : Fails(r)
         \/ Still \/ Midnight
<1>0. TypeInv /\ TypeOK /\ TagInv /\ BusyInv
  BY DEF QuotaInv, Flow, TypeInv
<1>1. ASSUME NEW h \in Handlers, Ends(h) PROVE Only(h) /\ handler'[h].pc = "idle"
  BY <1>1, SomeUserIsOne, IdleIsHandler DEF Ends
<1>2. ASSUME NEW h \in Handlers, Admission(h)
      PROVE  Waits(h) \/ Counts(h) \/ Passes(h) \/ Commits(h)
  <2>1. CASE \E r \in Requests : Arrive(h, r)
    BY <1>0, <2>1, ArriveDoes DEF Waits
  <2>2. CASE LockUser(h)
    BY <1>0, <2>2, LockUserDoes DEF Waits
  <2>3. CASE Refuse(h)
    BY <1>0, <2>3, RefuseDoes DEF Waits, GoesOn
  <2>4. CASE FindSub(h)
    BY <1>0, <2>4, FindSubDoes DEF Counts
  <2>5. CASE FindGroupQuota(h)
    BY <1>0, <2>5, FindGroupQuotaDoes DEF Waits, Counts, SubTags
  <2>6. CASE FlushReset(h)
    BY <1>0, <2>6, FlushResetDoes DEF Counts, GoesOn, SameFind, TagInv, SubTags
  <2>7. CASE FindFree(h)
    BY <1>0, <2>7, FindFreeDoes DEF Counts, GoesOn, SameFind, TagInv, SubTags
  <2>8. CASE CountCapacity(h)
    BY <1>0, <2>8, CountCapacityDoes DEF Passes, Waits, GoesOn
  <2>9. CASE Leave(h)
    BY <1>0, <1>1, <2>9, LeaveDoes DEF Waits
  <2>10. CASE CommitRow(h)
    <3>1. handler[h].req \in Requests /\ row[handler[h].req].status = "absent"
      BY <1>0, <2>10 DEF CommitRow, BusyInv
    <3>. QED
      BY <1>0, <2>10, <3>1, CommitRowDoes DEF Commits
  <2>. QED
    BY <1>2, <2>1, <2>2, <2>3, <2>4, <2>5, <2>6, <2>7, <2>8, <2>9, <2>10 DEF Admission
<1>3. ASSUME NEW w \in Workers, Job(w)
      PROVE  \/ Holds(w) \/ Loads(w) \/ Flushes(w) \/ Starts(w) \/ Settles(w)
             \/ \E r \in Requests : Fails(r)
  <2>0. worker[w].pc # "idle" => worker[w].req \in Requests /\ row[worker[w].req].status \in Seen
    BY <1>0 DEF BusyInv
  <2>1. ASSUME NEW r \in Requests, TakeJob(w, r) PROVE Holds(w)
    BY <1>0, <2>1, TakeJobDoes DEF Holds
  <2>2. CASE StartJob(w)
    <3>1. worker[w].req \in Requests /\ row[worker[w].req].status \in Seen
      BY <2>0, <2>2 DEF StartJob
    <3>. QED
      BY <1>0, <2>2, <3>1, StartJobDoes DEF Starts
  <2>3. CASE JobFails(w)
    <3>1. worker[w].req \in Requests /\ row[worker[w].req].status \in Seen
      BY <2>0, <2>3 DEF JobFails
    <3>. QED
      BY <1>0, <2>3, <3>1, JobFailsDoes, IdleIsWorker DEF Fails
  <2>4. CASE JobStops(w)
    BY <1>0, <2>4, JobStopsDoes, IdleIsWorker DEF Holds
  <2>5. CASE LoadLedger(w)
    <3>1. worker[w].req \in Requests
      BY <2>0, <2>5 DEF LoadLedger
    <3>. QED
      BY <1>0, <2>5, <3>1, LoadLedgerDoes DEF Loads
  <2>6. CASE FlushGroup(w)
    BY <1>0, <2>6, FlushGroupDoes DEF Flushes
  <2>7. CASE SaveLedger(w)
    <3>1. worker[w].req \in Requests
      BY <1>0, <2>7 DEF SaveLedger, TypeOK, Worker
    <3>2. worker[w].pc \in {"booking", "flushing"}
      BY <1>0, <2>7, <3>1, SaveLedgerDoes
    <3>3. row[worker[w].req].status \in Seen
      BY <2>0, <3>2
    <3>. QED
      BY <1>0, <2>7, <3>1, <3>2, <3>3, SaveLedgerDoes, IdleIsWorker DEF Settles
  <2>. QED
    BY <1>3, <2>1, <2>2, <2>3, <2>4, <2>5, <2>6, <2>7 DEF Job
<1>4. ASSUME NEW r \in Requests, FailJob(r) PROVE Fails(r)
  BY <1>0, <1>4, FailJobDoes DEF Fails, Seen
<1>5. CASE UNCHANGED vars \/ \E s \in Subs : Activate(s) \/ Expire(s)
  BY <1>5 DEF vars, Activate, Expire, Still
<1>. QED
  BY <1>2, <1>3, <1>4, <1>5 DEF Next

\* What no step but the commit of an admission does to a request that is not marked
\* failed and taken up again: it is in flight, completed, or marked after it was
\* completed, only if it was before.
Keeps(r) ==
  /\ row'[r].user = row[r].user /\ row'[r].via = row[r].via
  /\ row'[r].sub = row[r].sub /\ row'[r].made = row[r].made
  /\ r \notin late' => /\ r \notin late
                       /\ row'[r].status \in Counted => row[r].status \in Counted
                       /\ r \in undone' => row[r].status \in Counted \/ r \in undone

\* A step that admits nothing, on the same day.
Quiet ==
  /\ day' = day
  /\ \A r \in Requests : Keeps(r)
  /\ \A h \in Handlers : handler'[h].pc = "passed" => handler'[h] = handler[h]

\* The steps that matter to a limit: an admission that passes, its commit, midnight.
LEMMA Steps ==
  ASSUME QuotaInv, [Next]_vars
  PROVE  (\E h \in Handlers : Passes(h) \/ Commits(h)) \/ Midnight \/ Quiet
<1>0. TypeOK
  BY DEF QuotaInv, Flow, TypeInv
<1>1. ASSUME UNCHANGED <<row, late, undone>>, NEW r \in Requests PROVE Keeps(r)
  BY <1>1 DEF Keeps
<1>2. ASSUME NEW h \in Handlers, Waits(h) \/ Counts(h) PROVE Quiet
  <2>1. UNCHANGED <<day, row, late, undone>> /\ Only(h) /\ handler'[h].pc # "passed"
    BY <1>2 DEF Waits, Counts, Rest, blind
  <2>. QED
    BY <1>1, <2>1 DEF Only, Quiet
<1>3. ASSUME NEW w \in Workers, Holds(w) \/ Loads(w) \/ Flushes(w) PROVE Quiet
  <2>1. UNCHANGED <<day, row, late, undone, handler>>
    BY <1>3 DEF Holds, Loads, Flushes, Besides, blind
  <2>. QED
    BY <1>1, <2>1 DEF Quiet
<1>4. ASSUME NEW r \in Requests, NEW status, Written(r, status), row[r].status \in Seen,
             UNCHANGED <<day, handler>>
      PROVE  Quiet
  <2>1. ASSUME NEW q \in Requests PROVE Keeps(q)
    BY <1>4 DEF Written, StatusOnly, RowOnly, Keeps, Seen
  <2>. QED
    BY <1>4, <2>1 DEF Quiet
<1>5. ASSUME NEW w \in Workers, Starts(w) \/ Settles(w) PROVE Quiet
  <2>1. PICK r \in Requests : r = worker[w].req
    BY <1>5 DEF Starts, Settles
  <2>2. /\ row[r].status \in Seen /\ UNCHANGED <<day, handler>>
        /\ Written(r, "processing") \/ Written(r, "completed")
    BY <1>5, <2>1 DEF Starts, Settles, Besides
  <2>. QED
    BY <1>4, <2>2
<1>6. ASSUME NEW r \in Requests, Fails(r) PROVE Quiet
  <2>1. Marked(r) /\ UNCHANGED <<day, handler>>
    BY <1>6 DEF Fails, Besides
  <2>2. ASSUME NEW q \in Requests PROVE Keeps(q)
    BY <2>1 DEF Marked, StatusOnly, RowOnly, Keeps, Counted, InFlight
  <2>. QED
    BY <2>1, <2>2 DEF Quiet
<1>7. CASE Still
  BY <1>1, <1>7 DEF Still, blind, Quiet
<1>. QED
  BY <1>2, <1>3, <1>5, <1>6, <1>7, NextKinds

\* An admission that passes changes nothing else.
LEMMA PassesDoes ==
  ASSUME NEW h \in Handlers, Passes(h)
  PROVE  /\ UNCHANGED <<day, row, worker, used, group, skewed, booked, erased, late, undone>>
         /\ Only(h) /\ SameRequest(h) /\ SameFind(h) /\ handler'[h].grp = handler[h].grp
         /\ handler[h].pc = "count" /\ handler'[h].pc = "passed" /\ HasCapacity(h)
  BY DEF Passes, GoesOn, Rest, ledger, blind

\* The commit of an admission writes its row.
LEMMA CommitsDoes ==
  ASSUME QuotaInv, NEW h \in Handlers, Commits(h)
  PROVE  /\ UNCHANGED <<day, worker, used, skewed, booked, late, undone>>
         /\ Only(h) /\ handler'[h].pc = "idle"
         /\ \A k \in Handlers : handler'[k].pc = "passed" => k # h /\ handler'[k] = handler[k]
         /\ \A r \in Requests : row'[r] # row[r] =>
              /\ r = handler[h].req /\ r \notin undone
              /\ \/ row'[r].status = "denied"
                 \/ /\ handler[h].pc = "passed" /\ row'[r].status = "queued"
                    /\ row'[r].user = handler[h].user /\ row'[r].made = handler[h].made
                    /\ row'[r].via = handler[h].via /\ row'[r].sub = handler[h].sub
         /\ erased' >= erased /\ Counter(group) + erased <= Counter(group)' + erased'
<1>1. TypeOK /\ day' = day /\ SaveReset(h) /\ UNCHANGED <<worker, blind>>
  BY DEF QuotaInv, Flow, TypeInv, Commits
<1>2. /\ UNCHANGED <<used, skewed, booked>>
      /\ erased' >= erased /\ Counter(group) + erased <= Counter(group)' + erased'
  BY <1>1, SaveResetType
<1>3. Only(h) /\ handler'[h].pc = "idle"
  BY SomeUserIsOne, IdleIsHandler DEF Commits, Ends
<1>4. handler[h].req \notin undone
  BY DEF Commits, QuotaInv, Flow, BusyInv, Seen, Counted, InFlight
<1>5. \A r \in Requests : row'[r] # row[r] =>
        /\ r = handler[h].req /\ r \notin undone
        /\ \/ row'[r].status = "denied"
           \/ /\ handler[h].pc = "passed" /\ row'[r].status = "queued"
              /\ row'[r].user = handler[h].user /\ row'[r].made = handler[h].made
              /\ row'[r].via = handler[h].via /\ row'[r].sub = handler[h].sub
  BY <1>4 DEF Commits, RowOnly
<1>6. UNCHANGED <<late, undone>>
  BY <1>1 DEF blind
<1>. QED
  BY <1>1, <1>2, <1>3, <1>5, <1>6 DEF Only

----------------------------------------------------------------------------
(* The free tier.                                                          *)

\* There are finitely many requests.
LEMMA RequestsFinite ==
  ASSUME NEW S \in SUBSET Requests
  PROVE  IsFiniteSet(S) /\ Cardinality(S) \in Nat
  BY QuotaAssumption, FS_Subset, FS_CardinalityType

\* A set of requests that grows by at most one.
LEMMA OneMore ==
  ASSUME NEW S \in SUBSET Requests, NEW T \in SUBSET Requests
  PROVE  /\ T \subseteq S => Cardinality(T) <= Cardinality(S)
         /\ \A r \in Requests : T \subseteq S \cup {r} => Cardinality(T) <= Cardinality(S) + 1
<1>1. IsFiniteSet(S) /\ Cardinality(S) \in Nat /\ Cardinality(T) \in Nat
  BY RequestsFinite
<1>2. T \subseteq S => Cardinality(T) <= Cardinality(S)
  BY <1>1, FS_Subset
<1>3. ASSUME NEW r \in Requests, T \subseteq S \cup {r}
      PROVE  Cardinality(T) <= Cardinality(S) + 1
  <2>0. IsFiniteSet(S \cup {r})
        /\ Cardinality(S \cup {r}) = IF r \in S THEN Cardinality(S) ELSE Cardinality(S) + 1
    BY <1>1, FS_AddElement
  <2>1. IsFiniteSet(S \cup {r}) /\ Cardinality(S \cup {r}) <= Cardinality(S) + 1
        /\ Cardinality(S \cup {r}) \in Nat
    BY <1>1, <2>0
  <2>2. Cardinality(T) <= Cardinality(S \cup {r})
    BY <1>3, <2>1, FS_Subset
  <2>. QED
    BY <1>1, <2>1, <2>2
<1>. QED
  BY <1>2, <1>3

\* What is free today, without what went on after it was marked failed.
Free(u) == FreeRows(u, day) \ late

\* An admission that passed on the free tier has its place.
FreeInv ==
  /\ FreeNeverOverrun
  /\ \A h \in Handlers :
       handler[h].pc = "passed" /\ handler[h].via = "free" /\ handler[h].made = day =>
         Cardinality(Free(handler[h].user)) < FreeLimit

\* Nothing is used of the free tier at the start.
LEMMA FreeInit == Init => FreeInv
<1>. SUFFICES ASSUME Init PROVE FreeInv
  OBVIOUS
<1>1. \A r \in Requests : row[r].status = "absent"
  BY DEF Init, NoRow
<1>2. \A u : Free(u) = {} /\ FreeRows(u, day) \ late = {}
  BY <1>1 DEF Free, FreeRows, Counted, InFlight
<1>3. \A h \in Handlers : handler[h].pc = "idle"
  BY SomeUserIsOne, IdleIsHandler DEF Init
<1>4. \A u : Cardinality(Free(u)) = 0 /\ Cardinality(FreeRows(u, day) \ late) = 0
  BY <1>2, FS_EmptySet
<1>. QED
  BY <1>3, <1>4, QuotaAssumption DEF FreeInv, FreeNeverOverrun

\* Only a commit uses a free download, and its admission counted under the lock.
LEMMA FreeNext == QuotaInv /\ FreeInv /\ [Next]_vars => FreeInv'
<1>. SUFFICES ASSUME QuotaInv, FreeInv, [Next]_vars PROVE FreeInv'
  OBVIOUS
<1>0. FreeLimit \in Nat /\ \A u : Free(u) \in SUBSET Requests /\ Free(u)' \in SUBSET Requests
  BY QuotaAssumption DEF Free, FreeRows
<1>a. \A u : Cardinality(Free(u)) \in Nat /\ Cardinality(Free(u)') \in Nat
  BY <1>0, RequestsFinite
<1>b. /\ \A u \in Users : Cardinality(Free(u)) <= FreeLimit
      /\ (\A u \in Users : Cardinality(Free(u)') <= FreeLimit) => FreeNeverOverrun'
  BY DEF FreeInv, FreeNeverOverrun, Free
<1>c. ASSUME day' = day, \A u : Free(u)' \subseteq Free(u),
             \A h \in Handlers : handler'[h].pc = "passed" =>
               \/ handler'[h] = handler[h]
               \/ handler'[h].via = "free" => Cardinality(Free(handler'[h].user)) < FreeLimit
      PROVE  FreeInv'
  <2>1. \A u : Cardinality(Free(u)') <= Cardinality(Free(u))
    BY <1>0, <1>c, OneMore
  <2>2. FreeNeverOverrun'
    BY <1>0, <1>a, <1>b, <2>1
  <2>3. ASSUME NEW h \in Handlers, handler'[h].pc = "passed", handler'[h].via = "free",
               handler'[h].made = day, NEW u, u = handler'[h].user
        PROVE  Cardinality(Free(u)') < FreeLimit
    <3>1. Cardinality(Free(u)) < FreeLimit
      BY <1>c, <2>3 DEF FreeInv
    <3>. QED
      BY <1>0, <1>a, <2>1, <3>1
  <2>. QED
    BY <1>c, <2>2, <2>3 DEF FreeInv
<1>1. CASE Quiet
  <2>1. \A u : Free(u)' \subseteq Free(u)
    BY <1>1 DEF Quiet, Keeps, Free, FreeRows
  <2>. QED
    BY <1>1, <1>c, <2>1 DEF Quiet
<1>2. ASSUME NEW h \in Handlers, Passes(h) PROVE FreeInv'
  <2>1. /\ UNCHANGED <<day, row, late>> /\ Only(h) /\ handler'[h].user = handler[h].user
        /\ handler'[h].via = handler[h].via /\ HasCapacity(h)
    BY <1>2, PassesDoes DEF SameRequest, SameFind
  <2>2. \A u : Free(u)' = Free(u)
    BY <2>1 DEF Free, FreeRows
  <2>3. ASSUME handler'[h].via = "free" PROVE Cardinality(Free(handler'[h].user)) < FreeLimit
    <3>1. PICK u : u = handler[h].user
      OBVIOUS
    <3>2. Cardinality(FreeRows(u, day)) < FreeLimit
      BY <2>1, <2>3, <3>1 DEF HasCapacity, SubTags
    <3>3. FreeRows(u, day) \in SUBSET Requests /\ Free(u) \subseteq FreeRows(u, day)
      BY DEF Free, FreeRows
    <3>4. Cardinality(Free(u)) <= Cardinality(FreeRows(u, day)) /\ Cardinality(FreeRows(u, day)) \in Nat
      BY <1>0, <3>3, OneMore, RequestsFinite
    <3>. QED
      BY <1>0, <1>a, <2>1, <3>1, <3>2, <3>4
  <2>. QED
    BY <1>c, <2>1, <2>2, <2>3 DEF Only
<1>3. ASSUME NEW h \in Handlers, Commits(h) PROVE FreeInv'
  <2>0. PICK r, u : r = handler[h].req /\ u = handler[h].user
    OBVIOUS
  <2>. DEFINE free == handler[h].pc = "passed" /\ handler[h].via = "free" /\ handler[h].made = day
  <2>1. /\ UNCHANGED <<day, late>> /\ r \in Requests
        /\ \A k \in Handlers : handler'[k].pc = "passed" => k # h /\ handler'[k] = handler[k]
        /\ \A q \in Requests : row'[q] # row[q] =>
             /\ q = r
             /\ \/ row'[q].status = "denied"
                \/ /\ handler[h].pc = "passed" /\ row'[q].user = u
                   /\ row'[q].made = handler[h].made /\ row'[q].via = handler[h].via
    BY <1>3, <2>0, CommitsDoes DEF Commits
  <2>2. \A v : Free(v)' \subseteq Free(v) \cup {r}
    BY <2>1 DEF Free, FreeRows
  <2>3. \A v : ~free \/ v # u => Free(v)' \subseteq Free(v)
    BY <2>1 DEF Free, FreeRows, Counted, InFlight
  <2>4. CASE ~free
    BY <1>c, <2>1, <2>3, <2>4
  <2>5. CASE free
    <3>1. \A k \in Handlers : handler'[k].pc = "passed" => handler[k].user # u
      BY <2>0, <2>1, <2>5 DEF QuotaInv, Flow, OnePerUser, Locked
    <3>2. \A v : v # u => Cardinality(Free(v)') <= Cardinality(Free(v))
      BY <1>0, <2>3, OneMore
    <3>4. Cardinality(Free(u)') <= Cardinality(Free(u)) + 1
      BY <1>0, <2>1, <2>2, OneMore
    <3>5. Cardinality(Free(u)) < FreeLimit
      BY <2>0, <2>5 DEF FreeInv
    <3>6. \A v \in Users : Cardinality(Free(v)') <= FreeLimit
      BY <1>0, <1>a, <1>b, <3>2, <3>4, <3>5
    <3>7. ASSUME NEW k \in Handlers, handler'[k].pc = "passed", handler'[k].via = "free",
                 handler'[k].made = day, NEW v, v = handler'[k].user
          PROVE  Cardinality(Free(v)') < FreeLimit
      <4>1. handler'[k] = handler[k] /\ v # u
        BY <2>1, <3>1, <3>7
      <4>2. Cardinality(Free(v)) < FreeLimit
        BY <3>7, <4>1 DEF FreeInv
      <4>3. Cardinality(Free(v)') <= Cardinality(Free(v))
        BY <3>2, <4>1
      <4>. QED
        BY <1>0, <1>a, <4>1, <4>2, <4>3
    <3>. QED
      BY <1>b, <2>1, <3>6, <3>7 DEF FreeInv
  <2>. QED
    BY <2>4, <2>5
<1>4. CASE Midnight
  <2>1. day \in Nat /\ day' = day + 1 /\ UNCHANGED <<row, handler>>
    BY <1>4, QuotaAssumption DEF Midnight, QuotaInv, Flow, TypeInv, TypeOK
  <2>2. /\ \A r \in Requests : row[r].made # day + 1
        /\ \A h \in Handlers : handler[h].made # day + 1
    BY <2>1 DEF QuotaInv, Flow, BusyInv, TypeInv, TypeOK, Row, Handler
  <2>3. \A u : Free(u)' = {}
    BY <2>1, <2>2 DEF Free, FreeRows
  <2>4. \A u : Cardinality(Free(u)') = 0
    BY <2>3, FS_EmptySet
  <2>5. FreeNeverOverrun'
    BY <1>0, <1>b, <2>4
  <2>. QED
    BY <2>1, <2>2, <2>5 DEF FreeInv
<1>. QED
  BY <1>1, <1>2, <1>3, <1>4, Steps

\* Of the requests of a user that are in flight or completed on a day, no more than
\* the free downloads never were marked failed and taken up again, for any number of
\* users, requests, overlapping admissions and workers: the row lock that saving
\* last_seen_at takes serializes the admissions of a user, and the count of one
\* sees the row that the one before has committed (_free_tier_used_today).
THEOREM FreeTierHolds == Spec => []FreeNeverOverrun
<1>1. FreeInv => FreeNeverOverrun
  BY DEF FreeInv
<1>. QED
  BY <1>1, QuotaAlways, FreeInit, FreeNext, PTL DEF Spec

----------------------------------------------------------------------------
(* Subscriptions, with one worker.                                         *)

Limited(s) == SubLimit[s] # 0
Personal(s) == Owner[s] \in Users

\* A request marked failed after it was completed stays so; the worker is not with
\* one that is completed; and it still knows what it loaded.
HeldInv ==
  /\ \A r \in undone : row[r].status = "failed"
  /\ \A w \in Workers : worker[w].pc # "idle" =>
       worker[w].req \notin undone /\ row[worker[w].req].status # "completed"
  /\ \A w \in Workers :
       worker[w].pc \in {"booking", "flushing"} /\ row[worker[w].req].sub # NoSub =>
         worker[w].used = used[row[worker[w].req].sub]

\* Then the counter counts what was completed.
LedgerInv == SubLedgerExact /\ HeldInv

\* Between the two reads of an admission no debit reaches a personal subscription,
\* and what reaches another one is counted in skewed.
ReadInv ==
  \A h \in Handlers : handler[h].pc = "count" /\ handler[h].sub \in Subs =>
    /\ Personal(handler[h].sub) => handler[h].used = used[handler[h].sub]
    /\ used[handler[h].sub] <= handler[h].used + skewed[handler[h].sub]

\* What a subscription admitted and is in flight or was completed, without what
\* went on after it was marked failed.
Steady(s) == {r \in Requests \ late :
                row[r].sub = s /\ (row[r].status \in Counted \/ r \in undone)}

\* An admission that passed on a personal subscription has its place; each one that
\* passed on the group's may be one too many, but the first.
PlaceInv ==
  /\ \A s \in Subs : Personal(s) /\ Limited(s) => Cardinality(Steady(s)) <= SubLimit[s]
  /\ \A h \in Handlers :
       LET s == handler[h].sub IN
       handler[h].pc = "passed" /\ s \in Subs /\ Personal(s) /\ Limited(s) =>
         Cardinality(Steady(s)) < SubLimit[s]
GroupPlaceInv ==
  \A s \in Subs : Owner[s] = Chat /\ Limited(s) =>
    Cardinality(Steady(s)) + Cardinality(Passing(s))
      <= SubLimit[s] + Cardinality(Handlers) - 1 + skewed[s]

\* Subscriptions are positive numbers, and the chat is no user.
LEMMA SubsApart ==
  /\ NoSub \notin Subs /\ Subs \subseteq Nat
  /\ SubLimit \in [Subs -> Nat] /\ Owner \in [Subs -> Users \cup {Chat}] /\ Chat \notin Users
  BY QuotaAssumption DEF NoSub

\* The sets of rows that are counted are finite.
LEMMA SubsFinite ==
  \A s : /\ RowsFor(s) \in SUBSET Requests /\ Debited(s) \in SUBSET Requests
         /\ Steady(s) \in SUBSET Requests
         /\ IsFiniteSet(RowsFor(s)) /\ IsFiniteSet(Debited(s)) /\ IsFiniteSet(Steady(s))
         /\ Cardinality(RowsFor(s)) \in Nat /\ Cardinality(Debited(s)) \in Nat
         /\ Cardinality(Steady(s)) \in Nat
<1>1. \A s : /\ RowsFor(s) \in SUBSET Requests /\ Debited(s) \in SUBSET Requests
             /\ Steady(s) \in SUBSET Requests
  BY DEF RowsFor, Debited, Steady
<1>. QED
  BY <1>1, RequestsFinite

\* And stay so.
LEMMA SteadyNext ==
  \A s : Steady(s)' \in SUBSET Requests /\ Cardinality(Steady(s)') \in Nat
<1>1. \A s : Steady(s)' \in SUBSET Requests
  BY DEF Steady
<1>. QED
  BY <1>1, RequestsFinite

\* The debit of a subscription by the only worker: its counter goes up by one, one
\* row is completed, and no other subscription is touched.
LEMMA DebitCounts ==
  ASSUME NEW w, Workers = {w}, QuotaInv, LedgerInv, Settles(w)
  PROVE  \A s \in Subs :
           \/ /\ row[worker[w].req].sub = s /\ row[worker[w].req].via \in SubTags
              /\ used'[s] = used[s] + 1
              /\ Cardinality(Debited(s)') = Cardinality(Debited(s)) + 1
              /\ skewed'[s] = skewed[s] + Cardinality({h \in Handlers :
                                handler[h].pc = "count" /\ handler[h].sub = s})
           \/ /\ row[worker[w].req].sub # s /\ used'[s] = used[s]
              /\ Debited(s)' = Debited(s) /\ skewed'[s] = skewed[s]
<1>0. TypeOK /\ TagInv /\ w \in Workers
  BY DEF QuotaInv, Flow, TypeInv
<1>1. PICK r : r = worker[w].req
  OBVIOUS
<1>2. /\ r \in Requests /\ worker[w].pc \in {"booking", "flushing"} /\ day' = day
      /\ StatusOnly(r, "completed") /\ undone' = undone
      /\ \/ row[r].via \in SubTags /\ DebitSub(w, row[r].sub)
         \/ row[r].via = "group_quota" /\ DebitGroup(w)
         \/ row[r].via = "free" /\ UNCHANGED ledger
  BY <1>1 DEF Settles, Written
<1>a. r \notin undone /\ row[r].status # "completed"
  BY <1>0, <1>1, <1>2 DEF LedgerInv, HeldInv
<1>. SUFFICES ASSUME NEW s \in Subs
              PROVE  \/ /\ row[r].sub = s /\ row[r].via \in SubTags
                        /\ used'[s] = used[s] + 1
                        /\ Cardinality(Debited(s)') = Cardinality(Debited(s)) + 1
                        /\ skewed'[s] = skewed[s] + Cardinality({h \in Handlers :
                                          handler[h].pc = "count" /\ handler[h].sub = s})
                     \/ /\ row[r].sub # s /\ used'[s] = used[s]
                        /\ Debited(s)' = Debited(s) /\ skewed'[s] = skewed[s]
  BY <1>1
<1>3. CASE row[r].sub = s
  <2>1. row[r].via \in SubTags
    BY <1>0, <1>2, <1>3, SubsApart DEF TagInv, Tagged
  <2>2. DebitSub(w, s)
    BY <1>2, <1>3, <2>1 DEF SubTags
  <2>3. used'[s] = used[s] + 1
    <3>1. worker[w].used = used[s]
      BY <1>0, <1>1, <1>2, <1>3, SubsApart DEF LedgerInv, HeldInv
    <3>. QED
      BY <1>0, <2>2, <3>1 DEF DebitSub, TypeOK
  <2>4. skewed'[s] = skewed[s] + Cardinality({h \in Handlers :
                                   handler[h].pc = "count" /\ handler[h].sub = s})
    BY <1>0, <2>2 DEF DebitSub, TypeOK
  <2>5. Debited(s)' = Debited(s) \cup {r} /\ r \notin Debited(s)
    BY <1>2, <1>3, <1>a DEF Debited, StatusOnly, RowOnly
  <2>6. Cardinality(Debited(s)') = Cardinality(Debited(s)) + 1
    BY <2>5, SubsFinite, FS_AddElement
  <2>. QED
    BY <1>3, <2>1, <2>3, <2>4, <2>6
<1>4. CASE row[r].sub # s
  <2>1. Debited(s)' = Debited(s)
    BY <1>2, <1>4 DEF Debited, StatusOnly, RowOnly
  <2>2. used'[s] = used[s] /\ skewed'[s] = skewed[s]
    <3>1. CASE row[r].via \in SubTags /\ DebitSub(w, row[r].sub)
      BY <1>0, <1>4, <3>1 DEF DebitSub, TypeOK
    <3>2. CASE DebitGroup(w)
      BY <1>0, <1>2, <3>2, DebitGroupType
    <3>3. CASE UNCHANGED ledger
      BY <3>3 DEF ledger
    <3>. QED
      BY <1>2, <3>1, <3>2, <3>3
  <2>. QED
    BY <1>4, <2>1, <2>2
<1>. QED
  BY <1>3, <1>4

\* The steps that leave the counters of subscriptions alone, and complete nothing.
NoDebit ==
  /\ UNCHANGED used /\ \A s \in Subs : skewed'[s] = skewed[s]
  /\ \A s \in Subs : Debited(s)' = Debited(s)

\* Every other step leaves them alone.
LEMMA DebitOrNot ==
  ASSUME NEW w, Workers = {w}, QuotaInv, LedgerInv, [Next]_vars
  PROVE  NoDebit \/ Settles(w)
<1>0. TypeOK /\ BusyInv
  BY DEF QuotaInv, Flow, TypeInv
<1>1. ASSUME UNCHANGED <<used, skewed, row, undone>> PROVE NoDebit
  BY <1>1 DEF NoDebit, Debited
<1>2. ASSUME NEW h \in Handlers, Waits(h) \/ Counts(h) PROVE NoDebit
  BY <1>1, <1>2 DEF Waits, Counts, Rest, ledger, blind
<1>3. ASSUME NEW h \in Handlers, Passes(h) PROVE NoDebit
  BY <1>1, <1>3, PassesDoes
<1>4. ASSUME NEW h \in Handlers, Commits(h) PROVE NoDebit
  <2>1. PICK r : r = handler[h].req
    OBVIOUS
  <2>2. /\ row[r].status = "absent" /\ row'[r].status \in {"queued", "denied"} /\ RowOnly(r)
    BY <1>4, <2>1 DEF Commits
  <2>3. UNCHANGED <<used, skewed, undone>> /\ (r \in Requests => r \notin undone)
    BY <1>0, <1>4, <2>1, <2>2, CommitsDoes DEF BusyInv, Seen, Counted, InFlight
  <2>. QED
    BY <2>2, <2>3 DEF RowOnly, NoDebit, Debited
<1>5. CASE Holds(w) \/ Loads(w) \/ Flushes(w)
  BY <1>1, <1>5 DEF Holds, Loads, Flushes, Besides, ledger, blind
<1>6. CASE Starts(w)
  <2>1. /\ StatusOnly(worker[w].req, "processing") /\ UNCHANGED <<used, skewed, undone>>
        /\ row[worker[w].req].status # "completed"
    BY <1>6 DEF Starts, Written, Besides, ledger, LedgerInv, HeldInv
  <2>. QED
    BY <2>1 DEF NoDebit, Debited, StatusOnly, RowOnly
<1>7. ASSUME NEW r \in Requests, Fails(r) PROVE NoDebit
  <2>1. Marked(r) /\ UNCHANGED <<used, skewed>>
    BY <1>7 DEF Fails, Besides, ledger
  <2>. QED
    BY <2>1 DEF NoDebit, Debited, Marked, StatusOnly, RowOnly
<1>8. CASE Still
  BY <1>1, <1>8 DEF Still, ledger, blind
<1>9. CASE Midnight
  BY <1>0, <1>9, SubsApart DEF Midnight, NoDebit, Debited, TypeOK, blind
<1>. QED
  BY <1>2, <1>3, <1>4, <1>5, <1>6, <1>7, <1>8, <1>9, NextKinds

\* What the only worker holds.
LEMMA HeldNext ==
  ASSUME NEW w, Workers = {w}, QuotaInv, LedgerInv, [Next]_vars
  PROVE  HeldInv'
<1>0. w \in Workers /\ BusyInv /\ TypeOK /\ \A v \in Workers : v = w
  BY DEF QuotaInv, Flow, TypeInv
<1>a. /\ \A r \in undone : row[r].status = "failed"
      /\ worker[w].pc # "idle" =>
           worker[w].req \in Requests /\ worker[w].req \notin undone
           /\ row[worker[w].req].status # "completed" /\ row[worker[w].req].status \in Seen
      /\ worker[w].pc \in {"booking", "flushing"} /\ row[worker[w].req].sub # NoSub =>
           worker[w].used = used[row[worker[w].req].sub]
  BY <1>0 DEF LedgerInv, HeldInv, BusyInv
<1>b. ASSUME \A r \in undone' : row'[r].status = "failed",
             worker'[w].pc # "idle" =>
               worker'[w].req \notin undone' /\ row'[worker'[w].req].status # "completed",
             worker'[w].pc \in {"booking", "flushing"} /\ row'[worker'[w].req].sub # NoSub =>
               worker'[w].used = used'[row'[worker'[w].req].sub]
      PROVE  HeldInv'
  BY <1>0, <1>b DEF HeldInv
<1>1. ASSUME UNCHANGED <<row, undone, worker, used>> PROVE HeldInv'
  BY <1>a, <1>b, <1>1
<1>2. ASSUME NEW h \in Handlers, Waits(h) \/ Counts(h) PROVE HeldInv'
  BY <1>1, <1>2 DEF Waits, Counts, Rest, ledger, blind
<1>3. ASSUME NEW h \in Handlers, Passes(h) PROVE HeldInv'
  BY <1>1, <1>3, PassesDoes
<1>4. ASSUME NEW h \in Handlers, Commits(h) PROVE HeldInv'
  <2>1. PICK r \in Requests : r = handler[h].req
    BY <1>4 DEF Commits
  <2>2. row[r].status = "absent" /\ RowOnly(r) /\ UNCHANGED <<used, undone, worker>>
    BY <1>4, <2>1, CommitsDoes DEF Commits
  <2>3. undone \subseteq Requests
    BY <1>0 DEF TypeOK
  <2>4. /\ \A q \in undone : row'[q] = row[q]
        /\ worker[w].pc # "idle" => row'[worker[w].req] = row[worker[w].req]
    BY <1>a, <2>2, <2>3 DEF RowOnly, Seen, Counted, InFlight
  <2>. QED
    BY <1>a, <1>b, <2>2, <2>4
<1>5. CASE Holds(w)
  <2>1. UNCHANGED <<row, undone>>
    BY <1>5 DEF Holds, blind
  <2>2. worker'[w].pc # "idle" =>
          worker'[w].pc \notin {"booking", "flushing"} /\ row[worker'[w].req].status \in InFlight
    BY <1>5 DEF Holds
  <2>. QED
    BY <1>a, <1>b, <2>1, <2>2 DEF InFlight
<1>6. CASE Loads(w) \/ Flushes(w)
  <2>1. /\ UNCHANGED <<row, undone, used>> /\ worker[w].pc # "idle"
        /\ worker'[w].req = worker[w].req
        /\ row[worker[w].req].sub # NoSub => worker'[w].used = used[row[worker[w].req].sub]
    BY <1>a, <1>6 DEF Loads, Flushes, Besides, ledger, blind
  <2>. QED
    BY <1>a, <1>b, <2>1
<1>7. CASE Starts(w)
  <2>1. /\ StatusOnly(worker[w].req, "processing") /\ undone' = undone /\ worker[w].pc # "idle"
        /\ worker'[w].pc = "working" /\ worker'[w].req = worker[w].req /\ undone \subseteq Requests
    BY <1>0, <1>7 DEF Starts, Written, TypeOK
  <2>2. \A q \in undone : row'[q] = row[q]
    BY <1>a, <2>1 DEF StatusOnly, RowOnly
  <2>3. row'[worker[w].req].status = "processing"
    BY <2>1 DEF StatusOnly
  <2>. QED
    BY <1>a, <1>b, <2>1, <2>2, <2>3
<1>8. CASE Settles(w)
  <2>1. /\ StatusOnly(worker[w].req, "completed") /\ undone' = undone /\ worker[w].pc # "idle"
        /\ worker'[w].pc = "idle" /\ undone \subseteq Requests
    BY <1>0, <1>8 DEF Settles, Written, TypeOK
  <2>2. \A q \in undone : row'[q] = row[q]
    BY <1>a, <2>1 DEF StatusOnly, RowOnly
  <2>. QED
    BY <1>a, <1>b, <2>1, <2>2
<1>9. ASSUME NEW r \in Requests, Fails(r) PROVE HeldInv'
  <2>1. /\ StatusOnly(r, "failed") /\ used' = used /\ undone \subseteq Requests
        /\ undone' = IF row[r].status = "completed" THEN undone \cup {r} ELSE undone
        /\ worker'[w] = worker[w] \/ worker'[w].pc = "idle"
    BY <1>0, <1>9 DEF Fails, Marked, Besides, ledger, WorkerOnly, TypeOK
  <2>2. \A q \in Requests : row'[q].sub = row[q].sub /\ (row'[q].status = row[q].status \/ q = r)
    BY <2>1 DEF StatusOnly, RowOnly
  <2>3. row'[r].status = "failed"
    BY <2>1 DEF StatusOnly
  <2>4. \A q \in undone' : row'[q].status = "failed"
    BY <1>a, <2>1, <2>2, <2>3
  <2>5. worker'[w].pc # "idle" =>
          worker'[w].req \notin undone' /\ row'[worker'[w].req].status # "completed"
    BY <1>a, <2>1, <2>2, <2>3
  <2>6. worker'[w].pc \in {"booking", "flushing"} =>
          row'[worker'[w].req].sub = row[worker[w].req].sub /\ worker'[w] = worker[w]
    BY <1>a, <2>1, <2>2
  <2>. QED
    BY <1>a, <1>b, <2>1, <2>4, <2>5, <2>6
<1>10. CASE Still \/ Midnight
  BY <1>1, <1>10 DEF Still, Midnight, ledger, blind
<1>. QED
  BY <1>2, <1>3, <1>4, <1>5, <1>6, <1>7, <1>8, <1>9, <1>10, NextKinds

\* Only a booking changes a counter, and it writes what it loaded, plus one.
LEMMA LedgerNext ==
  ASSUME NEW w, Workers = {w}, QuotaInv, LedgerInv, [Next]_vars
  PROVE  LedgerInv'
<1>1. SubLedgerExact'
  <2>1. CASE NoDebit
    BY <2>1 DEF NoDebit, LedgerInv, SubLedgerExact
  <2>2. CASE Settles(w)
    <3>. SUFFICES ASSUME NEW s \in Subs PROVE used'[s] = Cardinality(Debited(s)')
      BY DEF SubLedgerExact
    <3>1. used[s] = Cardinality(Debited(s))
      BY DEF LedgerInv, SubLedgerExact
    <3>2. \/ used'[s] = used[s] + 1
             /\ Cardinality(Debited(s)') = Cardinality(Debited(s)) + 1
          \/ used'[s] = used[s] /\ Debited(s)' = Debited(s)
      BY <2>2, DebitCounts
    <3>. QED
      BY <3>1, <3>2
  <2>. QED
    BY <2>1, <2>2, DebitOrNot
<1>. QED
  BY <1>1, HeldNext DEF LedgerInv

\* At the start no request is completed and no counter has moved.
LEMMA LedgerInit == Init => LedgerInv
<1>. SUFFICES ASSUME Init PROVE LedgerInv
  OBVIOUS
<1>1. \A s : Debited(s) = {}
  BY DEF Init, NoRow, Debited
<1>2. \A w \in Workers : worker[w].pc = "idle"
  BY IdleIsWorker DEF Init
<1>3. \A s : Cardinality(Debited(s)) = 0
  BY <1>1, FS_EmptySet
<1>. QED
  BY <1>2, <1>3 DEF Init, LedgerInv, HeldInv, SubLedgerExact

\* It always holds.
LEMMA LedgerAlways ==
  ASSUME NEW w, Workers = {w}
  PROVE  Spec => [](QuotaInv /\ LedgerInv)
<1>1. QuotaInv /\ LedgerInv /\ [Next]_vars => (QuotaInv /\ LedgerInv)'
  BY QuotaNext, LedgerNext
<1>. QED
  BY <1>1, QuotaInit, LedgerInit, PTL DEF Spec

\* With a single worker process the counter of a subscription is exactly the number
\* of requests it admitted that were completed, whatever other subscription became
\* the active one, and whether they were marked failed while they ran, when they
\* were completed, or never (consume_download, process_job, the sweep).
THEOREM LedgerExact ==
  ASSUME NEW w, Workers = {w}
  PROVE  Spec => []SubLedgerExact
<1>1. LedgerInv => SubLedgerExact
  BY DEF LedgerInv
<1>. QED
  BY <1>1, LedgerAlways, PTL

----------------------------------------------------------------------------
(* What is taken of a subscription, with one worker.                       *)

\* A request on a personal subscription is its owner's.
LEMMA OwnerIsUser ==
  ASSUME NEW x, Tagged(x), x.sub \in Subs, Personal(x.sub)
  PROVE  x.via \in SubTags /\ x.user = Owner[x.sub]
  BY SubsApart DEF Tagged, Personal

\* A debit between the two reads of an admission is of another user, or counted.
LEMMA ReadNext ==
  ASSUME NEW w, Workers = {w}, QuotaInv, QuotaInv', LedgerInv, ReadInv, [Next]_vars
  PROVE  ReadInv'
<1>0. /\ used \in [Subs -> Nat] /\ skewed \in [Subs \cup {NoSub} -> Nat]
      /\ \A h \in Handlers : Tagged(handler[h]) /\ Tagged(handler'[h])
      /\ \A r \in Requests : Tagged(row[r])
      /\ \A h \in Handlers : handler'[h].sub \in Subs => handler'[h].via \in SubTags
  BY SubsApart DEF QuotaInv, Flow, TypeInv, TypeOK, TagInv, Tagged
<1>1. ASSUME NoDebit,
             \A h \in Handlers : handler'[h].pc = "count" =>
               \/ handler'[h] = handler[h]
               \/ handler'[h].via \in SubTags => handler'[h].used = used[handler'[h].sub]
      PROVE  ReadInv'
  <2>. SUFFICES ASSUME NEW h \in Handlers, handler'[h].pc = "count", NEW s \in Subs,
                       handler'[h].sub = s
                PROVE  /\ Personal(s) => handler'[h].used = used[s]
                       /\ used[s] <= handler'[h].used + skewed[s]
    BY <1>1 DEF ReadInv, Personal, NoDebit
  <2>1. CASE handler'[h] = handler[h]
    BY <2>1 DEF ReadInv
  <2>2. CASE handler'[h].used = used[s]
    <3>1. used[s] \in Nat /\ skewed[s] \in Nat
      BY <1>0
    <3>. QED
      BY <2>2, <3>1
  <2>. QED
    BY <1>0, <1>1, <2>1, <2>2
<1>2. CASE NoDebit
  <2>1. ASSUME NEW h \in Handlers, Waits(h) \/ Counts(h) \/ Passes(h) \/ Commits(h)
        PROVE  ReadInv'
    <3>1. CASE Commits(h)
      BY <1>1, <1>2, <3>1, CommitsDoes DEF Only
    <3>2. CASE Waits(h) \/ Counts(h) \/ Passes(h)
      BY <1>1, <1>2, <3>2 DEF Waits, Counts, Passes, GoesOn, Only
    <3>. QED
      BY <2>1, <3>1, <3>2
  <2>2. CASE handler' = handler
    BY <1>1, <1>2, <2>2
  <2>3. (\E h \in Handlers : Waits(h) \/ Counts(h) \/ Passes(h) \/ Commits(h)) \/ handler' = handler
    BY NextKinds DEF Holds, Loads, Flushes, Starts, Settles, Fails, Still, Midnight, Besides
  <2>. QED
    BY <2>1, <2>2, <2>3
<1>3. CASE Settles(w)
  <2>1. PICK r \in Requests : r = worker[w].req
    BY <1>3 DEF Settles
  <2>2. handler' = handler /\ ~UserLocked(row[r].user)
    BY <1>3, <2>1 DEF Settles
  <2>. SUFFICES ASSUME NEW h \in Handlers, handler[h].pc = "count", NEW s \in Subs,
                       handler[h].sub = s
                PROVE  /\ Personal(s) => handler[h].used = used'[s]
                       /\ used'[s] <= handler[h].used + skewed'[s]
    BY <2>2 DEF ReadInv, Personal
  <2>3. /\ Personal(s) => handler[h].used = used[s]
        /\ used[s] <= handler[h].used + skewed[s]
    BY DEF ReadInv
  <2>. DEFINE S == {k \in Handlers : handler[k].pc = "count" /\ handler[k].sub = s}
  <2>4. \/ row[r].sub = s /\ used'[s] = used[s] + 1 /\ skewed'[s] = skewed[s] + Cardinality(S)
        \/ used'[s] = used[s] /\ skewed'[s] = skewed[s]
    BY <1>3, <2>1, DebitCounts
  <2>5. row[r].sub = s => ~Personal(s)
    <3>. SUFFICES ASSUME row[r].sub = s, Personal(s) PROVE FALSE
      OBVIOUS
    <3>1. row[r].user = Owner[s] /\ handler[h].user = Owner[s]
      BY <1>0, OwnerIsUser
    <3>. QED
      BY <2>2, <3>1 DEF UserLocked
  <2>6. Cardinality(S) \in Nat /\ Cardinality(S) >= 1
    <3>1. IsFiniteSet(S) /\ Cardinality(S) \in Nat /\ S # {}
      BY HandlersFinite
    <3>. QED
      BY <3>1, FS_EmptySet
  <2>7. handler[h].used \in Nat
    BY DEF QuotaInv, Flow, TypeInv, TypeOK, Handler
  <2>. HIDE DEF S
  <2>. QED
    BY <1>0, <2>3, <2>4, <2>5, <2>6, <2>7, SubsApart
<1>. QED
  BY <1>2, <1>3, DebitOrNot

\* Only the commit of an admission that passed takes more of its subscription.
LEMMA SteadyShrinks ==
  ASSUME Quiet \/ Midnight, NEW s
  PROVE  Cardinality(Steady(s)') <= Cardinality(Steady(s))
<1>1. Steady(s)' \subseteq Steady(s)
  BY DEF Quiet, Keeps, Midnight, blind, Steady
<1>. QED
  BY <1>1, SubsFinite, SteadyNext, OneMore
LEMMA CommitCounts ==
  ASSUME QuotaInv, NEW h \in Handlers, Commits(h), NEW s \in Subs
  PROVE  \/ /\ handler[h].pc = "passed" /\ handler[h].sub = s
            /\ Cardinality(Steady(s)') <= Cardinality(Steady(s)) + 1
         \/ Cardinality(Steady(s)') <= Cardinality(Steady(s))
<1>1. PICK r \in Requests : r = handler[h].req
  BY DEF Commits
<1>2. /\ UNCHANGED <<late, undone>>
      /\ \A q \in Requests : row'[q] # row[q] =>
           /\ q = r /\ q \notin undone
           /\ \/ row'[q].status = "denied"
              \/ handler[h].pc = "passed" /\ row'[q].sub = handler[h].sub
  BY <1>1, CommitsDoes
<1>3. \/ /\ handler[h].pc = "passed" /\ handler[h].sub = s
         /\ Steady(s)' \subseteq Steady(s) \cup {r}
      \/ Steady(s)' \subseteq Steady(s)
  BY <1>2 DEF Steady, Counted, InFlight
<1>. QED
  BY <1>3, SubsFinite, SteadyNext, OneMore

\* An admission passes on a subscription only if there is a place, as far as it knows.
LEMMA PassCounts ==
  ASSUME QuotaInv, LedgerInv, NEW h \in Handlers, Passes(h), NEW s \in Subs,
         handler[h].sub = s, Limited(s)
  PROVE  /\ Cardinality(Steady(s)) <= used[s] + Cardinality(RowsFor(s))
         /\ SubLimit[s] - handler[h].used - Cardinality(RowsFor(s)) > 0
<1>1. Steady(s) \subseteq Debited(s) \cup RowsFor(s)
  BY DEF Steady, Debited, RowsFor, Counted
<1>2. /\ IsFiniteSet(Debited(s) \cup RowsFor(s))
      /\ Cardinality(Debited(s) \cup RowsFor(s))
           = Cardinality(Debited(s)) + Cardinality(RowsFor(s)) - Cardinality(Debited(s) \cap RowsFor(s))
  BY SubsFinite, FS_Union
<1>3. Debited(s) \cap RowsFor(s) \in SUBSET Requests
  BY DEF Debited
<1>4. Cardinality(Debited(s) \cap RowsFor(s)) \in Nat
  BY <1>3, RequestsFinite
<1>5. Cardinality(Steady(s)) <= Cardinality(Debited(s) \cup RowsFor(s))
  BY <1>1, <1>2, FS_Subset
<1>6. Cardinality(Debited(s)) = used[s]
  BY DEF LedgerInv, SubLedgerExact
<1>7. Cardinality(Steady(s)) <= used[s] + Cardinality(RowsFor(s))
  BY <1>2, <1>4, <1>5, <1>6, SubsFinite
<1>8. handler[h].via \in SubTags
  BY SubsApart DEF QuotaInv, TagInv, Tagged
<1>9. SubLimit[s] - handler[h].used - Cardinality(RowsFor(s)) > 0
  BY <1>8 DEF Passes, HasCapacity, Limited, SubTags
<1>. QED
  BY <1>7, <1>9

\* On a personal one what it knows is true, and it is alone.
LEMMA PlaceNext ==
  ASSUME NEW w, Workers = {w}, QuotaInv, LedgerInv, ReadInv, PlaceInv, [Next]_vars
  PROVE  PlaceInv'
<1>0. /\ used \in [Subs -> Nat] /\ SubLimit \in [Subs -> Nat]
      /\ \A h \in Handlers : Tagged(handler[h])
      /\ \A s : Cardinality(RowsFor(s)) \in Nat
      /\ \A s : Cardinality(Steady(s)) \in Nat /\ Cardinality(Steady(s)') \in Nat
  BY SubsApart, SubsFinite, SteadyNext DEF QuotaInv, Flow, TypeInv, TypeOK, TagInv
<1>1. ASSUME NEW h \in Handlers, Passes(h) PROVE PlaceInv'
  <2>1. UNCHANGED <<row, late, undone>> /\ Only(h) /\ handler'[h].sub = handler[h].sub
        /\ handler[h].pc = "count"
    BY <1>1, PassesDoes DEF SameFind
  <2>2. \A s : Steady(s)' = Steady(s)
    BY <2>1 DEF Steady
  <2>3. ASSUME NEW s \in Subs, handler[h].sub = s, Personal(s), Limited(s)
        PROVE  Cardinality(Steady(s)) < SubLimit[s]
    <3>1. /\ Cardinality(Steady(s)) <= used[s] + Cardinality(RowsFor(s))
          /\ SubLimit[s] - handler[h].used - Cardinality(RowsFor(s)) > 0
      BY <1>1, <2>3, PassCounts
    <3>2. handler[h].used = used[s]
      BY <2>1, <2>3 DEF ReadInv
    <3>. QED
      BY <1>0, <3>1, <3>2
  <2>. QED
    BY <2>1, <2>2, <2>3 DEF PlaceInv, Personal, Limited, Only
<1>2. ASSUME NEW h \in Handlers, Commits(h) PROVE PlaceInv'
  <2>1. Only(h) /\ handler'[h].pc = "idle"
    BY <1>2, CommitsDoes
  <2>2. ASSUME NEW s \in Subs, Personal(s), Limited(s)
        PROVE  Cardinality(Steady(s)') <= SubLimit[s]
    <3>1. Cardinality(Steady(s)) <= SubLimit[s]
      BY <2>2 DEF PlaceInv
    <3>2. handler[h].pc = "passed" /\ handler[h].sub = s => Cardinality(Steady(s)) < SubLimit[s]
      BY <2>2 DEF PlaceInv
    <3>. QED
      BY <1>0, <1>2, <3>1, <3>2, CommitCounts
  <2>3. ASSUME NEW k \in Handlers, k # h, handler[k].pc = "passed", NEW s \in Subs,
               handler[k].sub = s, Personal(s), Limited(s)
        PROVE  Cardinality(Steady(s)') < SubLimit[s]
    <3>1. Cardinality(Steady(s)) < SubLimit[s]
      BY <2>3 DEF PlaceInv
    <3>2. ~(handler[h].pc = "passed" /\ handler[h].sub = s)
      <4>. SUFFICES ASSUME handler[h].pc = "passed", handler[h].sub = s PROVE FALSE
        OBVIOUS
      <4>1. handler[h].user = handler[k].user
        BY <1>0, <2>3, OwnerIsUser
      <4>. QED
        BY <2>3, <4>1 DEF QuotaInv, Flow, OnePerUser, Locked
    <3>. QED
      BY <1>0, <1>2, <3>1, <3>2, CommitCounts
  <2>. QED
    BY <2>1, <2>2, <2>3 DEF PlaceInv, Personal, Limited, Only
<1>3. CASE Quiet \/ Midnight
  <2>1. \A s : Cardinality(Steady(s)') <= Cardinality(Steady(s))
    BY <1>3, SteadyShrinks
  <2>2. \A h \in Handlers : handler'[h].pc = "passed" => handler'[h] = handler[h]
    BY <1>3 DEF Quiet, Midnight
  <2>. QED
    BY <1>0, <2>1, <2>2 DEF PlaceInv, Personal, Limited
<1>. QED
  BY <1>1, <1>2, <1>3, Steps

\* The admissions that have passed on a subscription.
LEMMA PassingFinite ==
  \A s : /\ IsFiniteSet(Passing(s)) /\ Passing(s) \subseteq Handlers
         /\ Cardinality(Passing(s)) \in Nat
         /\ Cardinality(Passing(s)') \in Nat
         /\ Cardinality(Passing(s)') <= Cardinality(Handlers) /\ Cardinality(Handlers) \in Nat
<1>1. \A s : Passing(s) \in SUBSET Handlers /\ Passing(s)' \in SUBSET Handlers
  BY DEF Passing
<1>. QED
  BY <1>1, HandlersFinite

\* Fewer that pass are fewer to count.
LEMMA PassingShrinks ==
  ASSUME NEW s, Passing(s)' \subseteq Passing(s)
  PROVE  Cardinality(Passing(s)') <= Cardinality(Passing(s))
  BY PassingFinite, FS_Subset

\* What an admission missed of a subscription is never forgotten.
LEMMA SkewGrows ==
  ASSUME NEW w, Workers = {w}, QuotaInv, LedgerInv, [Next]_vars, NEW s \in Subs
  PROVE  skewed'[s] >= skewed[s] /\ skewed[s] \in Nat /\ skewed'[s] \in Nat
<1>1. skewed[s] \in Nat /\ skewed'[s] \in Nat
  BY QuotaNext DEF QuotaInv, Flow, TypeInv, TypeOK
<1>2. Cardinality({h \in Handlers : handler[h].pc = "count" /\ handler[h].sub = s}) \in Nat
  BY HandlersFinite
<1>3. CASE NoDebit
  BY <1>1, <1>3 DEF NoDebit
<1>4. CASE Settles(w)
  <2>1. \/ skewed'[s] = skewed[s]
        \/ skewed'[s] = skewed[s] + Cardinality({h \in Handlers :
                                      handler[h].pc = "count" /\ handler[h].sub = s})
    BY <1>4, DebitCounts
  <2>. QED
    BY <1>1, <1>2, <2>1
<1>. QED
  BY <1>1, <1>3, <1>4, DebitOrNot

\* On the group's, each admission that passed may be one too many, but the first.
LEMMA GroupPlaceNext ==
  ASSUME NEW w, Workers = {w}, QuotaInv, LedgerInv, ReadInv, GroupPlaceInv, [Next]_vars
  PROVE  GroupPlaceInv'
<1>. DEFINE H == Cardinality(Handlers)
<1>0. /\ used \in [Subs -> Nat] /\ SubLimit \in [Subs -> Nat] /\ H \in Nat
      /\ \A h \in Handlers : handler[h].used \in Nat
      /\ \A s : Cardinality(RowsFor(s)) \in Nat
      /\ \A s : Cardinality(Steady(s)) \in Nat /\ Cardinality(Steady(s)') \in Nat
      /\ \A s : Cardinality(Passing(s)) \in Nat /\ Cardinality(Passing(s)') \in Nat
  BY SubsApart, SubsFinite, SteadyNext, PassingFinite DEF QuotaInv, Flow, TypeInv, TypeOK, Handler
<1>. SUFFICES ASSUME NEW s \in Subs, Owner[s] = Chat, Limited(s)
              PROVE  Cardinality(Steady(s)') + Cardinality(Passing(s)')
                       <= SubLimit[s] + H - 1 + skewed'[s]
  BY DEF GroupPlaceInv, Limited
<1>1. Cardinality(Steady(s)) + Cardinality(Passing(s)) <= SubLimit[s] + H - 1 + skewed[s]
  BY DEF GroupPlaceInv, Limited
<1>a. skewed'[s] >= skewed[s] /\ skewed[s] \in Nat /\ skewed'[s] \in Nat
  BY SkewGrows
<1>2. ASSUME NEW h \in Handlers, Passes(h)
      PROVE  Cardinality(Steady(s)') + Cardinality(Passing(s)') <= SubLimit[s] + H - 1 + skewed'[s]
  <2>1. UNCHANGED <<skewed, row, late, undone>> /\ Only(h) /\ handler'[h].sub = handler[h].sub
        /\ handler[h].pc = "count"
    BY <1>2, PassesDoes DEF SameFind
  <2>2. Steady(s)' = Steady(s)
    BY <2>1 DEF Steady
  <2>3. CASE handler[h].sub = s
    <3>1. /\ Cardinality(Steady(s)) <= used[s] + Cardinality(RowsFor(s))
          /\ SubLimit[s] - handler[h].used - Cardinality(RowsFor(s)) > 0
      BY <1>2, <2>3, PassCounts
    <3>2. used[s] <= handler[h].used + skewed[s]
      BY <2>1, <2>3 DEF ReadInv
    <3>3. Cardinality(Passing(s)') <= H
      BY PassingFinite
    <3>. QED
      BY <1>0, <1>a, <2>1, <2>2, <3>1, <3>2, <3>3
  <2>4. CASE handler[h].sub # s
    <3>1. Passing(s)' \subseteq Passing(s)
      BY <2>1, <2>4 DEF Passing, Only
    <3>. QED
      BY <1>0, <1>1, <1>a, <2>1, <2>2, <3>1, PassingShrinks
  <2>. QED
    BY <2>3, <2>4
<1>3. ASSUME NEW h \in Handlers, Commits(h)
      PROVE  Cardinality(Steady(s)') + Cardinality(Passing(s)') <= SubLimit[s] + H - 1 + skewed'[s]
  <2>1. /\ Only(h) /\ handler'[h].pc = "idle"
        /\ \/ /\ handler[h].pc = "passed" /\ handler[h].sub = s
              /\ Cardinality(Steady(s)') <= Cardinality(Steady(s)) + 1
           \/ Cardinality(Steady(s)') <= Cardinality(Steady(s))
    BY <1>3, CommitsDoes, CommitCounts
  <2>2. Passing(s)' = Passing(s) \ {h}
    BY <2>1 DEF Passing, Only
  <2>3. CASE handler[h].pc = "passed" /\ handler[h].sub = s
    <3>1. h \in Passing(s)
      BY <2>3 DEF Passing
    <3>2. Cardinality(Passing(s)') = Cardinality(Passing(s)) - 1
      BY <2>2, <3>1, PassingFinite, FS_RemoveElement
    <3>. QED
      BY <1>0, <1>1, <1>a, <2>1, <3>2
  <2>4. CASE Cardinality(Steady(s)') <= Cardinality(Steady(s))
    <3>1. Passing(s)' \subseteq Passing(s)
      BY <2>2
    <3>. QED
      BY <1>0, <1>1, <1>a, <2>4, <3>1, PassingShrinks
  <2>. QED
    BY <2>1, <2>3, <2>4
<1>4. CASE Quiet \/ Midnight
  <2>1. Cardinality(Steady(s)') <= Cardinality(Steady(s))
    BY <1>4, SteadyShrinks
  <2>2. Passing(s)' \subseteq Passing(s)
    BY <1>4 DEF Passing, Quiet, Midnight
  <2>. QED
    BY <1>0, <1>1, <1>a, <2>1, <2>2, PassingShrinks
<1>. QED
  BY <1>2, <1>3, <1>4, Steps

SubInv == QuotaInv /\ LedgerInv /\ ReadInv /\ PlaceInv /\ GroupPlaceInv

\* No subscription has been used at the start.
LEMMA SubInit == Init => SubInv
<1>. SUFFICES ASSUME Init PROVE SubInv
  OBVIOUS
<1>1. \A h \in Handlers : handler[h].pc = "idle"
  BY SomeUserIsOne, IdleIsHandler DEF Init
<1>2. \A s : Steady(s) = {} /\ Passing(s) = {}
  BY <1>1 DEF Init, NoRow, Steady, Counted, InFlight, Passing
<1>3. Cardinality(Handlers) \in Nat /\ Cardinality(Handlers) # 0
  BY QuotaAssumption, FS_CardinalityType, FS_EmptySet
<1>4. \A s \in Subs : skewed[s] = 0 /\ SubLimit[s] \in Nat
  BY SubsApart DEF Init
<1>5. \A s : Cardinality(Steady(s)) = 0 /\ Cardinality(Passing(s)) = 0
  BY <1>2, FS_EmptySet
<1>6. PlaceInv
  BY <1>1, <1>4, <1>5 DEF PlaceInv
<1>7. GroupPlaceInv
  BY <1>3, <1>4, <1>5 DEF GroupPlaceInv
<1>. QED
  BY <1>1, <1>6, <1>7, QuotaInit, LedgerInit DEF SubInv, ReadInv

\* All of these always hold.
LEMMA SubAlways ==
  ASSUME NEW w, Workers = {w}
  PROVE  Spec => []SubInv
<1>1. SubInv /\ [Next]_vars => SubInv'
  BY QuotaNext, LedgerNext, ReadNext, PlaceNext, GroupPlaceNext DEF SubInv
<1>. QED
  BY <1>1, SubInit, PTL DEF Spec

\* What is taken of a subscription is what went steadily, what went on after it was
\* marked failed, and what is about to be admitted.
LEMMA TakenIs ==
  ASSUME SubInv, NEW s \in Subs
  PROVE  /\ Taken(s) <= Cardinality(Steady(s)) + Cardinality(LateFor(s)) + Cardinality(Passing(s))
         /\ Cardinality(LateFor(s)) \in Nat /\ Taken(s) \in Nat
<1>0. LateFor(s) \in SUBSET Requests
  BY DEF SubInv, QuotaInv, Flow, TypeInv, TypeOK, LateFor
<1>1. IsFiniteSet(LateFor(s)) /\ Cardinality(LateFor(s)) \in Nat
  BY <1>0, RequestsFinite
<1>2. Debited(s) \cap RowsFor(s) = {}
  BY DEF SubInv, LedgerInv, HeldInv, Debited, RowsFor, InFlight
<1>3. /\ IsFiniteSet(Debited(s) \cup RowsFor(s))
      /\ Cardinality(Debited(s) \cup RowsFor(s))
           = Cardinality(Debited(s)) + Cardinality(RowsFor(s)) - Cardinality(Debited(s) \cap RowsFor(s))
  BY SubsFinite, FS_Union
<1>4. Cardinality(Debited(s) \cup RowsFor(s)) = Cardinality(Debited(s)) + Cardinality(RowsFor(s))
  <2>1. Cardinality(Debited(s) \cap RowsFor(s)) = 0
    BY <1>2, FS_EmptySet
  <2>. QED
    BY <1>3, <2>1, SubsFinite
<1>5. Debited(s) \cup RowsFor(s) \subseteq Steady(s) \cup LateFor(s)
  BY DEF Debited, RowsFor, Steady, LateFor, Counted
<1>6. /\ IsFiniteSet(Steady(s) \cup LateFor(s))
      /\ Cardinality(Steady(s) \cup LateFor(s))
           = Cardinality(Steady(s)) + Cardinality(LateFor(s)) - Cardinality(Steady(s) \cap LateFor(s))
  BY <1>1, SubsFinite, FS_Union
<1>7. Steady(s) \cap LateFor(s) \in SUBSET Requests
  BY <1>0
<1>8. Cardinality(Steady(s) \cap LateFor(s)) \in Nat
  BY <1>7, RequestsFinite
<1>9. Cardinality(Debited(s) \cup RowsFor(s)) <= Cardinality(Steady(s) \cup LateFor(s))
  BY <1>5, <1>6, FS_Subset
<1>10. used[s] = Cardinality(Debited(s))
  BY DEF SubInv, LedgerInv, SubLedgerExact
<1>. QED
  BY <1>1, <1>4, <1>6, <1>8, <1>9, <1>10, SubsFinite, PassingFinite DEF Taken

\* A personal subscription is overrun by no more than the requests that went on after
\* they were marked failed, for any number of overlapping admissions, with a single
\* worker process: while an admission of the user holds the user's row, no booking of
\* that user is saved, so the downloads_used that it read is still the true one when
\* it counts the rows in flight (_subscription_remaining, _upsert_user,
\* consume_download).
THEOREM PersonalQuotaHolds ==
  ASSUME NEW w, Workers = {w}
  PROVE  Spec => []UserSubNeverOverrun
<1>1. SubInv => UserSubNeverOverrun
  <2>. SUFFICES ASSUME SubInv, NEW s \in Subs, Personal(s), Limited(s)
                PROVE  Taken(s) <= SubLimit[s] + Cardinality(LateFor(s))
    BY DEF UserSubNeverOverrun, Personal, Limited
  <2>1. /\ Cardinality(Steady(s)) <= SubLimit[s]
        /\ Cardinality(Steady(s)) \in Nat /\ SubLimit[s] \in Nat
        /\ Taken(s) <= Cardinality(Steady(s)) + Cardinality(LateFor(s)) + Cardinality(Passing(s))
        /\ Cardinality(LateFor(s)) \in Nat /\ Taken(s) \in Nat
    BY SubsApart, SubsFinite, TakenIs DEF SubInv, PlaceInv
  <2>2. CASE Passing(s) = {}
    <3>1. Cardinality(Passing(s)) = 0
      BY <2>2, FS_EmptySet
    <3>. QED
      BY <2>1, <3>1
  <2>3. CASE Passing(s) # {}
    <3>1. PICK h \in Handlers : handler[h].pc = "passed" /\ handler[h].sub = s
      BY <2>3 DEF Passing
    <3>2. Cardinality(Steady(s)) < SubLimit[s]
      BY <3>1 DEF SubInv, PlaceInv
    <3>3. ASSUME NEW k \in Passing(s) PROVE k = h
      <4>1. handler[k].user = handler[h].user
        BY <3>1, OwnerIsUser DEF SubInv, QuotaInv, TagInv, Passing
      <4>. QED
        BY <3>1, <4>1 DEF SubInv, QuotaInv, Flow, OnePerUser, Locked, Passing
    <3>4. Passing(s) = {h}
      BY <2>3, <3>3
    <3>5. Cardinality(Passing(s)) = 1
      BY <3>4, FS_Singleton
    <3>. QED
      BY <2>1, <3>2, <3>5
  <2>. QED
    BY <2>2, <2>3
<1>. QED
  BY <1>1, SubAlways, PTL

\* With a single worker process the overrun of the group's subscription is bounded by
\* the admissions under way at once, by the debits that fell between the two reads of
\* an admission, and by the requests that went on after they were marked failed
\* (check_access, _subscription_remaining).
THEOREM GroupOverrunBounded ==
  ASSUME NEW w, Workers = {w}
  PROVE  Spec => []GroupSubOverrunBounded
<1>1. SubInv => GroupSubOverrunBounded
  <2>. SUFFICES ASSUME SubInv, NEW s \in Subs, Owner[s] = Chat, Limited(s)
                PROVE  Taken(s) <= SubLimit[s] + Cardinality(Handlers) - 1 + skewed[s]
                                     + Cardinality(LateFor(s))
    BY DEF GroupSubOverrunBounded, Limited
  <2>1. /\ Taken(s) <= Cardinality(Steady(s)) + Cardinality(LateFor(s)) + Cardinality(Passing(s))
        /\ Cardinality(LateFor(s)) \in Nat /\ Taken(s) \in Nat
    BY TakenIs
  <2>2. Cardinality(Steady(s)) + Cardinality(Passing(s))
          <= SubLimit[s] + Cardinality(Handlers) - 1 + skewed[s]
    BY DEF SubInv, GroupPlaceInv
  <2>3. /\ Cardinality(Steady(s)) \in Nat /\ Cardinality(Passing(s)) \in Nat
        /\ Cardinality(Handlers) \in Nat /\ SubLimit[s] \in Nat /\ skewed[s] \in Nat
    BY SubsApart, SubsFinite, PassingFinite DEF SubInv, QuotaInv, Flow, TypeInv, TypeOK
  <2>. QED
    BY <2>1, <2>2, <2>3
<1>. QED
  BY <1>1, SubAlways, PTL

----------------------------------------------------------------------------
(* The group's daily quota, with one worker.                               *)

Early == {"idle", "begin", "find"}

\* What becomes of the copy of the group's row that an admission goes by: it is
\* kept, dropped, loaded, or reset.
CopyKept(k) ==
  /\ handler'[k].grp = handler[k].grp /\ handler'[k].reset = handler[k].reset
  /\ handler'[k].req = handler[k].req
  /\ handler'[k].pc \in Reading => handler[k].pc \in Reading
  /\ handler'[k].pc \in Early => handler[k].pc \in Early
  /\ handler'[k].pc = "find" => handler[k].pc = "find"
  /\ handler'[k].via = "group_quota" =>
       \/ handler[k].via = "group_quota" /\ handler'[k].made = handler[k].made
       \/ handler[k].grp.date = day
CopyGone(k) ==
  /\ handler'[k].grp = NoGroup /\ handler'[k].reset = "no" /\ handler'[k].via = "free"
  /\ handler'[k].pc \in {"idle", "begin"}
CopyLoaded(k) ==
  /\ handler[k].pc = "begin" /\ handler'[k].pc = "find" /\ UNCHANGED Rest
  /\ handler'[k].req = handler[k].req /\ handler'[k].reset = handler[k].reset
  /\ handler'[k].via = handler[k].via
  /\ handler'[k].grp = IF handler[k].req \in GroupMade THEN group ELSE NoGroup
CopyReset(k) ==
  /\ handler[k].pc = "find" /\ handler'[k].pc = "reset" /\ UNCHANGED Rest
  /\ handler'[k].req = handler[k].req /\ handler[k].grp.date # day
  /\ handler'[k].grp = [date |-> day, today |-> 0]

\* There is nothing else.
LEMMA CopyStep ==
  ASSUME QuotaInv, [Next]_vars, NEW k \in Handlers
  PROVE  CopyKept(k) \/ CopyGone(k) \/ CopyLoaded(k) \/ CopyReset(k)
<1>0. TypeInv /\ TypeOK /\ BusyInv
  BY DEF QuotaInv, Flow, TypeInv
<1>1. ASSUME handler'[k] = handler[k] PROVE CopyKept(k)
  BY <1>1 DEF CopyKept
<1>2. ASSUME Ends(k) PROVE CopyGone(k)
  BY <1>2, SomeUserIsOne, IdleIsHandler DEF Ends, CopyGone
<1>3. ASSUME Admission(k)
      PROVE  CopyKept(k) \/ CopyGone(k) \/ CopyLoaded(k) \/ CopyReset(k)
  <2>1. CASE \E r \in Requests : Arrive(k, r)
    BY <1>0, <2>1, ArriveDoes DEF CopyGone
  <2>2. CASE LockUser(k)
    BY <1>0, <2>2, LockUserDoes DEF SameRequest, SameFind, CopyLoaded
  <2>3. ASSUME NEW pc \in {"count", "passed", "denied"}, GoesOn(k, pc), handler[k].pc \in Reading
        PROVE  CopyKept(k)
    BY <2>3 DEF GoesOn, SameRequest, SameFind, CopyKept, Early
  <2>4. CASE Refuse(k)
    BY <1>0, <2>3, <2>4, RefuseDoes DEF Reading
  <2>5. CASE FindSub(k)
    BY <1>0, <2>5, FindSubDoes DEF SameRequest, Reading, Early, CopyKept, SubTags
  <2>6. CASE FindGroupQuota(k)
    BY <1>0, <2>6, FindGroupQuotaDoes DEF SameRequest, Reading, Early, CopyKept, CopyReset
  <2>7. CASE FlushReset(k) \/ FindFree(k) \/ CountCapacity(k)
    BY <1>0, <2>3, <2>7, FlushResetDoes, FindFreeDoes, CountCapacityDoes DEF Reading
  <2>8. CASE Leave(k)
    BY <1>0, <1>2, <2>8, LeaveDoes
  <2>9. CASE CommitRow(k)
    <3>1. handler[k].req \in Requests
      BY <1>0, <2>9 DEF CommitRow, BusyInv
    <3>. QED
      BY <1>0, <1>2, <2>9, <3>1, CommitRowDoes
  <2>. QED
    BY <1>3, <2>1, <2>2, <2>4, <2>5, <2>6, <2>7, <2>8, <2>9 DEF Admission
<1>4. ASSUME NEW h \in Handlers, Admission(h), h # k PROVE handler'[k] = handler[k]
  <2>1. CASE CommitRow(h)
    <3>1. handler[h].req \in Requests
      BY <1>0, <2>1 DEF CommitRow, BusyInv
    <3>. QED
      BY <1>0, <1>4, <2>1, <3>1, CommitRowDoes DEF Ends, Only
  <2>2. CASE FindSub(h) \/ FindGroupQuota(h) \/ FlushReset(h) \/ FindFree(h) \/ CountCapacity(h)
    BY <1>0, <1>4, <2>2, FindSubDoes, FindGroupQuotaDoes, FlushResetDoes, FindFreeDoes,
       CountCapacityDoes DEF GoesOn, Only
  <2>3. CASE LockUser(h) \/ Refuse(h) \/ Leave(h) \/ \E r \in Requests : Arrive(h, r)
    BY <1>0, <1>4, <2>3, LockUserDoes, RefuseDoes, LeaveDoes, ArriveDoes DEF GoesOn, Ends, Only
  <2>. QED
    BY <1>4, <2>1, <2>2, <2>3 DEF Admission
<1>5. ASSUME NEW w \in Workers, Job(w) PROVE handler' = handler
  BY <1>5 DEF Job, TakeJob, StartJob, JobFails, JobStops, LoadLedger, FlushGroup, SaveLedger
<1>6. ASSUME \/ Midnight \/ UNCHANGED vars \/ \E r \in Requests : FailJob(r)
             \/ \E s \in Subs : Activate(s) \/ Expire(s)
      PROVE  handler' = handler
  BY <1>6 DEF Midnight, vars, FailJob, Activate, Expire
<1>. QED
  BY <1>1, <1>3, <1>4, <1>5, <1>6 DEF Next

\* What becomes of the group's row: an admission saves its reset, a booking debits
\* it, the day begins, or nothing.
Untouched ==
  UNCHANGED <<day, group, booked, erased>> /\ skewed'[NoSub] = skewed[NoSub]
Debits(w) == Settles(w) /\ row[worker[w].req].via = "group_quota" /\ DebitGroup(w)

LEMMA GroupStep ==
  ASSUME QuotaInv, [Next]_vars
  PROVE  \/ Untouched \/ Midnight
         \/ \E h \in Handlers : Commits(h)
         \/ \E w \in Workers : Debits(w)
<1>0. TypeOK /\ TagInv
  BY DEF QuotaInv, Flow, TypeInv
<1>1. ASSUME UNCHANGED <<day, ledger>> PROVE Untouched
  BY <1>1 DEF Untouched, ledger
<1>2. ASSUME NEW h \in Handlers, Waits(h) \/ Counts(h) \/ Passes(h) PROVE Untouched
  BY <1>1, <1>2 DEF Waits, Counts, Passes, GoesOn, Rest
<1>3. ASSUME NEW w \in Workers, Holds(w) \/ Loads(w) \/ Flushes(w) \/ Starts(w) PROVE Untouched
  BY <1>1, <1>3 DEF Holds, Loads, Flushes, Starts, Besides
<1>4. ASSUME NEW r \in Requests, Fails(r) PROVE Untouched
  BY <1>1, <1>4 DEF Fails, Besides
<1>5. ASSUME NEW w \in Workers, Settles(w) PROVE Untouched \/ Debits(w)
  <2>1. PICK r : r = worker[w].req
    OBVIOUS
  <2>2. /\ r \in Requests /\ day' = day
        /\ \/ row[r].via \in SubTags /\ DebitSub(w, row[r].sub)
           \/ row[r].via = "group_quota" /\ DebitGroup(w)
           \/ row[r].via = "free" /\ UNCHANGED ledger
    BY <1>5, <2>1 DEF Settles
  <2>3. CASE row[r].via \in SubTags /\ DebitSub(w, row[r].sub)
    <3>1. row[r].sub \in Subs
      BY <1>0, <2>2, <2>3 DEF TagInv, Tagged
    <3>2. UNCHANGED <<group, booked, erased>> /\ skewed'[NoSub] = skewed[NoSub]
      BY <1>0, <2>3, <3>1, SubsApart DEF DebitSub, TypeOK
    <3>. QED
      BY <2>2, <3>2 DEF Untouched
  <2>4. CASE row[r].via = "group_quota" /\ DebitGroup(w)
    BY <1>5, <2>1, <2>4 DEF Debits
  <2>5. CASE UNCHANGED ledger
    BY <1>1, <2>2, <2>5
  <2>. QED
    BY <2>2, <2>3, <2>4, <2>5
<1>6. CASE Still
  BY <1>1, <1>6 DEF Still
<1>. QED
  BY <1>2, <1>3, <1>4, <1>5, <1>6, NextKinds

\* What becomes of a booking: it goes on as it was, or begins.
LEMMA BookingStep ==
  ASSUME NEW w, Workers = {w}, QuotaInv, [Next]_vars, worker'[w].pc \in {"booking", "flushing"}
  PROVE  \/ /\ worker[w].pc \in {"booking", "flushing"} /\ worker'[w].req = worker[w].req
            /\ worker'[w].today = worker[w].today /\ worker'[w].grp = worker[w].grp
         \/ Loads(w)
<1>0. w \in Workers
  OBVIOUS
<1>1. ASSUME UNCHANGED worker
      PROVE  worker[w].pc \in {"booking", "flushing"} /\ worker'[w] = worker[w]
  BY <1>1
<1>2. ASSUME NEW h \in Handlers, Waits(h) \/ Counts(h) \/ Passes(h) PROVE UNCHANGED worker
  BY <1>2 DEF Waits, Counts, Passes, GoesOn, Rest
<1>3. ASSUME NEW h \in Handlers, Commits(h) PROVE UNCHANGED worker
  BY <1>3 DEF Commits
<1>4. ~Holds(w) /\ ~Starts(w) /\ ~Settles(w)
  BY DEF Holds, Starts, Settles
<1>5. CASE Flushes(w)
  BY <1>5 DEF Flushes
<1>6. ASSUME NEW r \in Requests, Fails(r) PROVE UNCHANGED worker
  BY <1>0, <1>6 DEF Fails
<1>7. CASE Still \/ Midnight
  BY <1>1, <1>7 DEF Still, Midnight
<1>. QED
  BY <1>0, <1>1, <1>2, <1>3, <1>4, <1>5, <1>6, <1>7, NextKinds

\* A row that was admitted keeps the day it is of, and time goes forward.
LEMMA MadeStays ==
  ASSUME QuotaInv, [Next]_vars
  PROVE  /\ \A r \in Requests : row[r].status # "absent" => row'[r].made = row[r].made
         /\ day \in Nat /\ day' \in Nat /\ day <= day'
<1>0. TypeOK
  BY DEF QuotaInv, Flow, TypeInv
<1>1. day \in Nat /\ day' \in Nat
  BY QuotaNext, QuotaAssumption DEF QuotaInv, Flow, TypeInv, TypeOK
<1>2. CASE Quiet
  BY <1>1, <1>2 DEF Quiet, Keeps
<1>3. ASSUME NEW h \in Handlers, Passes(h)
      PROVE  /\ \A r \in Requests : row[r].status # "absent" => row'[r].made = row[r].made
             /\ day <= day'
  BY <1>1, <1>3, PassesDoes
<1>4. ASSUME NEW h \in Handlers, Commits(h)
      PROVE  /\ \A r \in Requests : row[r].status # "absent" => row'[r].made = row[r].made
             /\ day <= day'
  BY <1>1, <1>4 DEF Commits, RowOnly
<1>5. CASE Midnight
  BY <1>1, <1>5 DEF Midnight
<1>. QED
  BY <1>1, <1>2, <1>3, <1>4, <1>5, Steps

\* No date lies ahead; the copy an admission was admitted by is of its own day or a
\* later one; one that resets the day has nothing counted; a booking's copy is not
\* younger than the booking, nor is its request.
DateInv ==
  /\ group.date <= day
  /\ \A h \in Handlers :
       /\ handler[h].grp.date <= day
       /\ handler[h].via = "group_quota" => handler[h].made <= handler[h].grp.date
       /\ handler[h].reset # "no" => handler[h].grp.today = 0
       /\ handler[h].pc \in Early => handler[h].reset = "no"
  /\ \A w \in Workers : worker[w].pc \in {"booking", "flushing"} =>
       /\ worker[w].today <= day /\ worker[w].grp.date <= worker[w].today
       /\ row[worker[w].req].made <= worker[w].today

\* With one worker no debit comes between loading the group and saving it: the
\* counter in the row is at most the one loaded.
CopyInv ==
  \A w \in Workers : worker[w].pc \in {"booking", "flushing"} /\ worker[w].req \in GroupMade =>
    group.today <= worker[w].grp.today

\* What an admission knows to be downloaded today, and what it may have missed.
Known(h) == IF handler[h].pc = "find" /\ handler[h].grp.date # day THEN 0 ELSE handler[h].grp.today
GroupReadInv ==
  \A h \in Handlers : handler[h].req \in GroupMade /\ handler[h].pc \in Reading =>
    booked <= Known(h) + erased + skewed[NoSub]

\* Each request of today that was completed on the daily quota was debited today.
BookedToday == {r \in Requests : /\ row[r].via = "group_quota" /\ row[r].made = day
                                 /\ row[r].status = "completed" \/ r \in undone}
BookedInv == Cardinality(BookedToday) <= booked

GroupInv == DateInv /\ CopyInv /\ GroupLedgerKept /\ GroupReadInv /\ BookedInv

\* The types that the group's invariants rest on.
LEMMA GroupTypes ==
  ASSUME QuotaInv
  PROVE  /\ TypeOK /\ day \in Nat /\ group \in GroupRow
         /\ group.today \in Nat /\ group.date \in Int
         /\ booked \in Nat /\ erased \in Nat /\ skewed[NoSub] \in Nat
         /\ \A h \in Handlers : /\ handler[h].grp \in GroupRow /\ handler[h].grp.date \in Int
                                /\ handler[h].grp.today \in Nat /\ handler[h].made \in Nat
                                /\ Known(h) \in Nat
         /\ \A w \in Workers : /\ worker[w].grp \in GroupRow /\ worker[w].grp.date \in Int
                               /\ worker[w].grp.today \in Nat /\ worker[w].today \in Nat
         /\ \A r \in Requests : row[r].made \in Nat
         /\ Counter(group) \in Nat
<1>1. TypeOK /\ day \in 0..LastDay /\ LastDay \in Nat
  BY QuotaAssumption DEF QuotaInv, Flow, TypeInv, TypeOK
<1>2. \A g \in GroupRow : g.date \in Int /\ g.today \in Nat
  BY <1>1 DEF GroupRow
<1>3. \A h \in Handlers : handler[h].grp \in GroupRow /\ handler[h].made \in Nat
  BY <1>1 DEF TypeOK, Handler
<1>4. \A w \in Workers : worker[w].grp \in GroupRow /\ worker[w].today \in Nat
  BY <1>1 DEF TypeOK, Worker
<1>5. \A r \in Requests : row[r].made \in Nat
  BY <1>1 DEF TypeOK, Row
<1>6. group \in GroupRow /\ booked \in Nat /\ erased \in Nat /\ skewed[NoSub] \in Nat
  BY <1>1 DEF TypeOK
<1>7. \A h \in Handlers : Known(h) \in Nat
  BY <1>2, <1>3 DEF Known
<1>. QED
  BY <1>1, <1>2, <1>3, <1>4, <1>5, <1>6, <1>7, CounterType

\* At the start nothing is under way, and what was downloaded is of an earlier day.
LEMMA GroupInit == Init => GroupInv
<1>. SUFFICES ASSUME Init PROVE GroupInv
  OBVIOUS
<1>1. day = 0 /\ booked = 0 /\ erased = 0 /\ group.date = -1 /\ group.today \in Nat
  BY QuotaAssumption DEF Init
<1>2. \A h \in Handlers : /\ handler[h].pc = "idle" /\ handler[h].reset = "no"
                          /\ handler[h].grp = NoGroup /\ handler[h].via = "free"
  BY SomeUserIsOne, IdleIsHandler DEF Init
<1>3. \A w \in Workers : worker[w].pc = "idle"
  BY IdleIsWorker DEF Init
<1>4. BookedToday = {}
  BY DEF Init, NoRow, BookedToday
<1>5. Cardinality(BookedToday) = 0
  BY <1>4, FS_EmptySet
<1>6. DateInv
  BY <1>1, <1>2, <1>3 DEF DateInv, NoGroup
<1>7. CopyInv /\ GroupReadInv
  BY <1>2, <1>3 DEF CopyInv, GroupReadInv, Reading
<1>8. GroupLedgerKept
  BY <1>1 DEF GroupLedgerKept, Counter
<1>. QED
  BY <1>1, <1>5, <1>6, <1>7, <1>8 DEF GroupInv, BookedInv

\* A booking on the daily quota is of the group, began by today and after its request
\* was made.
LEMMA DebitIsOfGroup ==
  ASSUME QuotaInv, DateInv, NEW w \in Workers, Debits(w)
  PROVE  /\ worker[w].req \in Requests /\ worker[w].req \in GroupMade /\ day' = day
         /\ worker[w].today <= day /\ worker[w].grp.date <= worker[w].today
         /\ row[worker[w].req].made <= worker[w].today
         /\ worker[w].pc \in {"booking", "flushing"} /\ handler' = handler
         /\ StatusOnly(worker[w].req, "completed") /\ UNCHANGED undone
  BY DEF Debits, Settles, Written, DateInv, QuotaInv, TagInv

\* No step sets a date ahead.
LEMMA DateNext ==
  ASSUME NEW w, Workers = {w}, QuotaInv, DateInv, [Next]_vars
  PROVE  DateInv'
<1>0. w \in Workers /\ \A v \in Workers : v = w
  OBVIOUS
<1>a. group.date <= day /\ day \in Nat /\ day' \in Nat /\ day <= day'
      /\ group.date \in Int /\ group'.date \in Int /\ TypeOK /\ BusyInv /\ TagInv
      /\ QuotaInv'
  <2>1. QuotaInv'
    BY QuotaNext
  <2>2. group' \in GroupRow
    BY <2>1 DEF QuotaInv, Flow, TypeInv, TypeOK
  <2>3. group'.date \in Int
    BY <2>2 DEF GroupRow
  <2>. QED
    BY <2>1, <2>3, MadeStays, GroupTypes DEF DateInv, QuotaInv, Flow
<1>1. group'.date <= day'
  <2>1. CASE Untouched \/ Midnight
    BY <1>a, <2>1 DEF Untouched, Midnight
  <2>2. ASSUME NEW h \in Handlers, Commits(h) PROVE group'.date <= day'
    <3>1. SaveReset(h) /\ day' = day
      BY <2>2 DEF Commits
    <3>2. group'.date \in {group.date, handler[h].grp.date}
      BY <1>a, <3>1, SaveResetType
    <3>. QED
      BY <1>a, <3>1, <3>2 DEF DateInv
  <2>3. CASE Debits(w)
    <3>1. day' = day /\ DebitGroup(w) /\ worker[w].today <= day
      BY <1>0, <2>3, DebitIsOfGroup DEF Debits
    <3>2. group'.date \in {group.date, worker[w].today}
      BY <1>0, <1>a, <3>1, DebitGroupType
    <3>. QED
      BY <1>a, <3>1, <3>2
  <2>. QED
    BY <1>0, <2>1, <2>2, <2>3, GroupStep
<1>2. ASSUME NEW h \in Handlers
      PROVE  /\ handler'[h].grp.date <= day'
             /\ handler'[h].via = "group_quota" => handler'[h].made <= handler'[h].grp.date
             /\ handler'[h].reset # "no" => handler'[h].grp.today = 0
             /\ handler'[h].pc \in Early => handler'[h].reset = "no"
  <2>1. /\ handler[h].grp.date <= day /\ handler[h].grp.date \in Int
        /\ handler[h].via = "group_quota" => handler[h].made <= handler[h].grp.date
        /\ handler[h].reset # "no" => handler[h].grp.today = 0
        /\ handler[h].pc \in Early => handler[h].reset = "no"
    BY GroupTypes DEF DateInv
  <2>2. handler'[h].made <= day' /\ handler'[h].made \in Nat
    <3>1. handler'[h].made \in 0..LastDay /\ LastDay \in Nat
      BY <1>a, QuotaAssumption DEF QuotaInv, Flow, TypeInv, TypeOK, Handler
    <3>. QED
      BY <1>a, <3>1 DEF QuotaInv, Flow, BusyInv
  <2>3. CASE CopyKept(h)
    <3>1. /\ handler'[h].grp = handler[h].grp /\ handler'[h].reset = handler[h].reset
          /\ handler'[h].pc \in Early => handler[h].pc \in Early
      BY <2>3 DEF CopyKept
    <3>2. ASSUME handler'[h].via = "group_quota" PROVE handler'[h].made <= handler[h].grp.date
      <4>1. CASE handler[h].via = "group_quota" /\ handler'[h].made = handler[h].made
        BY <2>1, <4>1
      <4>2. CASE handler[h].grp.date = day
        <5>1. CASE handler'[h] = handler[h]
          BY <2>1, <3>2, <5>1
        <5>2. CASE day' = day
          BY <2>2, <4>2, <5>2
        <5>3. CASE Midnight
          BY <5>1, <5>3 DEF Midnight
        <5>4. day' = day \/ Midnight
          BY Steps, PassesDoes DEF Quiet, Commits
        <5>. QED
          BY <5>2, <5>3, <5>4
      <4>. QED
        BY <2>3, <3>2, <4>1, <4>2 DEF CopyKept
    <3>. QED
      BY <1>a, <2>1, <3>1, <3>2
  <2>4. CASE CopyGone(h)
    BY <1>a, <2>4 DEF CopyGone, NoGroup
  <2>5. CASE CopyLoaded(h)
    <3>1. /\ handler'[h].reset = "no" /\ handler'[h].via = "free" /\ day' = day
          /\ handler'[h].grp \in {group, NoGroup}
      BY <1>a, <2>1, <2>5 DEF CopyLoaded, Early, TagInv, Rest
    <3>2. handler'[h].grp.date <= day'
      BY <1>a, <3>1 DEF NoGroup
    <3>. QED
      BY <3>1, <3>2
  <2>6. CASE CopyReset(h)
    <3>1. handler'[h].grp.date = day /\ handler'[h].grp.today = 0 /\ day' = day
          /\ handler'[h].pc = "reset"
      BY <2>6 DEF CopyReset, Rest
    <3>. QED
      BY <1>a, <2>2, <3>1 DEF Early
  <2>. QED
    BY <2>3, <2>4, <2>5, <2>6, CopyStep
<1>3. ASSUME worker'[w].pc \in {"booking", "flushing"}
      PROVE  /\ worker'[w].today <= day' /\ worker'[w].grp.date <= worker'[w].today
             /\ row'[worker'[w].req].made <= worker'[w].today
  <2>1. CASE /\ worker[w].pc \in {"booking", "flushing"} /\ worker'[w].req = worker[w].req
             /\ worker'[w].today = worker[w].today /\ worker'[w].grp = worker[w].grp
    <3>1. /\ worker[w].req \in Requests /\ row[worker[w].req].status # "absent"
      BY <1>0, <1>a, <2>1 DEF BusyInv, Seen, Counted, InFlight
    <3>2. row'[worker[w].req].made = row[worker[w].req].made
      BY <3>1, MadeStays
    <3>3. worker[w].today <= day /\ worker[w].today \in Nat
      BY <1>0, <2>1, GroupTypes DEF DateInv
    <3>. QED
      BY <1>0, <1>a, <2>1, <3>2, <3>3 DEF DateInv
  <2>2. CASE Loads(w)
    <3>1. /\ worker'[w].today = day /\ worker'[w].grp \in {group, NoGroup} /\ UNCHANGED <<day, row>>
          /\ worker'[w].req \in Requests
      BY <2>2 DEF Loads, Besides
    <3>2. worker'[w].grp.date <= day
      BY <1>a, <3>1 DEF NoGroup
    <3>3. row[worker'[w].req].made <= day
      BY <1>a, <3>1 DEF BusyInv
    <3>. QED
      BY <1>a, <3>1, <3>2, <3>3
  <2>. QED
    BY <1>3, <2>1, <2>2, BookingStep
<1>. QED
  BY <1>0, <1>1, <1>2, <1>3 DEF DateInv

\* An admission that resets the day only lowers the counter.
LEMMA CopyNext ==
  ASSUME NEW w, Workers = {w}, QuotaInv, DateInv, CopyInv, [Next]_vars
  PROVE  CopyInv'
<1>0. w \in Workers /\ (\A v \in Workers : v = w) /\ group.today \in Nat /\ TypeOK
      /\ worker[w].grp.today \in Nat
  BY GroupTypes
<1>. SUFFICES ASSUME worker'[w].pc \in {"booking", "flushing"}, worker'[w].req \in GroupMade
              PROVE  group'.today <= worker'[w].grp.today
  BY <1>0 DEF CopyInv
<1>1. ~Debits(w)
  BY DEF Debits, Settles
<1>2. group'.today <= group.today
  <2>1. CASE Untouched \/ Midnight
    BY <1>0, <2>1 DEF Untouched, Midnight
  <2>2. ASSUME NEW h \in Handlers, Commits(h) PROVE group'.today <= group.today
    <3>1. SaveReset(h) /\ day' = day
      BY <2>2 DEF Commits
    <3>2. \/ group' = group \/ group'.today = group.today
          \/ handler[h].reset = "both" /\ group' = handler[h].grp
      BY <1>0, <3>1, SaveResetType
    <3>. QED
      BY <1>0, <3>2 DEF DateInv
  <2>. QED
    BY <1>0, <1>1, <2>1, <2>2, GroupStep
<1>3. group'.today \in Nat
  <2>1. group' \in GroupRow
    BY QuotaNext DEF QuotaInv, Flow, TypeInv, TypeOK
  <2>. QED
    BY <2>1 DEF GroupRow
<1>4. CASE /\ worker[w].pc \in {"booking", "flushing"} /\ worker'[w].req = worker[w].req
           /\ worker'[w].grp = worker[w].grp
  BY <1>0, <1>2, <1>3, <1>4 DEF CopyInv
<1>5. CASE Loads(w)
  <2>1. worker'[w].grp = group
    BY <1>5 DEF Loads
  <2>. QED
    BY <1>2, <2>1
<1>. QED
  BY <1>4, <1>5, BookingStep

\* The effect of a debit on the count of today: nothing is missed that is not noted.
LEMMA DebitKeeps ==
  ASSUME NEW w \in Workers, QuotaInv, DateInv, CopyInv, Debits(w)
  PROVE  /\ booked' - booked + Counter(group) + erased <= Counter(group)' + erased'
         /\ booked' \in Nat /\ erased' \in Nat /\ erased' >= erased
         /\ booked' = IF worker[w].today = day THEN booked + 1 ELSE booked
         /\ skewed'[NoSub] = skewed[NoSub] + Cardinality(Readers)
<1>0. TypeOK /\ DebitGroup(w) /\ day' = day /\ worker[w].req \in GroupMade
      /\ worker[w].today <= day /\ worker[w].grp.date <= worker[w].today
      /\ worker[w].pc \in {"booking", "flushing"}
  BY DebitIsOfGroup, GroupTypes DEF Debits
<1>1. /\ group' \in GroupRow /\ booked' \in Nat /\ erased' \in Nat /\ erased' >= erased
      /\ booked' = IF worker[w].today = day THEN booked + 1 ELSE booked
      /\ skewed'[NoSub] = skewed[NoSub] + Cardinality(Readers)
      /\ \/ booked' - booked + Counter(group) + erased <= Counter(group)' + erased'
         \/ /\ worker[w].grp.date = day /\ group.date = day /\ erased' = erased
            /\ worker[w].today = day =>
                 group'.date = day /\ group'.today = worker[w].grp.today + 1
  BY <1>0, DebitGroupType
<1>2. ASSUME worker[w].grp.date = day, group.date = day, erased' = erased,
             worker[w].today = day =>
               group'.date = day /\ group'.today = worker[w].grp.today + 1
      PROVE  booked' - booked + Counter(group) + erased <= Counter(group)' + erased'
  <2>1. worker[w].today = day
    BY <1>0, <1>2, GroupTypes
  <2>2. group.today <= worker[w].grp.today
    BY <1>0 DEF CopyInv
  <2>3. Counter(group) = group.today /\ Counter(group)' = worker[w].grp.today + 1
    BY <1>0, <1>2, <2>1 DEF Counter
  <2>. QED
    BY <1>1, <1>2, <2>1, <2>2, <2>3, GroupTypes
<1>. QED
  BY <1>1, <1>2

\* The steps that change the count of today, as far as it grows: only a debit adds.
LEMMA CountStep ==
  ASSUME NEW w, Workers = {w}, QuotaInv, DateInv, CopyInv, [Next]_vars
  PROVE  /\ booked' \in Nat /\ erased' \in Nat /\ skewed'[NoSub] \in Nat /\ Counter(group)' \in Nat
         /\ \/ Midnight /\ booked' = 0
            \/ /\ day' = day /\ erased' >= erased
               /\ booked' - booked + Counter(group) + erased <= Counter(group)' + erased'
               /\ \/ booked' = booked /\ skewed'[NoSub] = skewed[NoSub]
                  \/ /\ Debits(w) /\ booked' \in {booked, booked + 1}
                     /\ worker[w].today = day => booked' = booked + 1
                     /\ skewed'[NoSub] = skewed[NoSub] + Cardinality(Readers)
<1>0. w \in Workers /\ TypeOK /\ booked \in Nat /\ erased \in Nat /\ Counter(group) \in Nat
  BY GroupTypes
<1>1. booked' \in Nat /\ erased' \in Nat /\ skewed'[NoSub] \in Nat /\ group' \in GroupRow
  BY QuotaNext DEF QuotaInv, Flow, TypeInv, TypeOK
<1>2. Counter(group)' \in Nat
  BY <1>1 DEF Counter, GroupRow
<1>. DEFINE P == \/ Midnight /\ booked' = 0
                 \/ /\ day' = day /\ erased' >= erased
                    /\ booked' - booked + Counter(group) + erased <= Counter(group)' + erased'
                    /\ \/ booked' = booked /\ skewed'[NoSub] = skewed[NoSub]
                       \/ /\ Debits(w) /\ booked' \in {booked, booked + 1}
                          /\ worker[w].today = day => booked' = booked + 1
                          /\ skewed'[NoSub] = skewed[NoSub] + Cardinality(Readers)
<1>3. ASSUME Midnight PROVE P
  BY <1>3 DEF Midnight
<1>4. ASSUME Untouched PROVE P
  <2>1. UNCHANGED <<day, booked, erased>> /\ skewed'[NoSub] = skewed[NoSub]
    BY <1>4 DEF Untouched
  <2>2. Counter(group)' = Counter(group)
    BY <1>4 DEF Untouched, Counter
  <2>. QED
    BY <1>0, <2>1, <2>2
<1>5. ASSUME NEW h \in Handlers, Commits(h) PROVE P
  <2>1. UNCHANGED <<day, booked, skewed>> /\ erased' >= erased
        /\ Counter(group) + erased <= Counter(group)' + erased'
    BY <1>5, CommitsDoes
  <2>. QED
    BY <1>0, <2>1
<1>6. ASSUME Debits(w) PROVE P
  <2>1. day' = day
    BY <1>0, <1>6, DebitIsOfGroup
  <2>2. /\ booked' - booked + Counter(group) + erased <= Counter(group)' + erased'
        /\ erased' >= erased
        /\ booked' = IF worker[w].today = day THEN booked + 1 ELSE booked
        /\ skewed'[NoSub] = skewed[NoSub] + Cardinality(Readers)
    BY <1>0, <1>6, DebitKeeps
  <2>. HIDE DEF P
  <2>3. booked' \in {booked, booked + 1} /\ (worker[w].today = day => booked' = booked + 1)
    BY <2>2
  <2>. QED
    BY <1>6, <2>1, <2>2, <2>3 DEF P
<1>7. P
  BY <1>0, <1>3, <1>4, <1>5, <1>6, GroupStep
<1>. QED
  BY <1>1, <1>2, <1>7

\* The counter keeps the debits of the day.
LEMMA KeptNext ==
  ASSUME NEW w, Workers = {w}, QuotaInv, DateInv, CopyInv, GroupLedgerKept, [Next]_vars
  PROVE  GroupLedgerKept'
<1>1. booked \in Nat /\ erased \in Nat /\ Counter(group) \in Nat /\ booked <= Counter(group) + erased
  BY GroupTypes DEF GroupLedgerKept
<1>2. /\ booked' \in Nat /\ erased' \in Nat /\ Counter(group)' \in Nat
      /\ \/ booked' = 0
         \/ booked' - booked + Counter(group) + erased <= Counter(group)' + erased'
  BY CountStep
<1>3. booked' <= Counter(group)' + erased'
  BY <1>1, <1>2
<1>. QED
  BY <1>3 DEF GroupLedgerKept

\* What an admission may have missed is noted.
LEMMA GroupReadNext ==
  ASSUME NEW w, Workers = {w}, QuotaInv, DateInv, CopyInv, GroupLedgerKept, GroupReadInv,
         [Next]_vars
  PROVE  GroupReadInv'
<1>. SUFFICES ASSUME NEW h \in Handlers, handler'[h].req \in GroupMade, handler'[h].pc \in Reading
              PROVE  booked' <= Known(h)' + erased' + skewed'[NoSub]
  BY DEF GroupReadInv
<1>0. /\ booked \in Nat /\ erased \in Nat /\ skewed[NoSub] \in Nat /\ Known(h) \in Nat
      /\ booked' \in Nat /\ erased' \in Nat /\ skewed'[NoSub] \in Nat /\ Known(h)' \in Nat
      /\ handler[h].grp.today \in Nat
  <2>1. Known(h)' \in Nat
    <3>1. handler'[h].grp \in GroupRow
      BY QuotaNext DEF QuotaInv, Flow, TypeInv, TypeOK, Handler
    <3>. QED
      BY <3>1 DEF Known, GroupRow
  <2>. QED
    BY <2>1, GroupTypes, CountStep
<1>1. CASE Midnight /\ booked' = 0
  BY <1>0, <1>1
<1>2. ASSUME day' = day, erased' >= erased,
             \/ booked' = booked /\ skewed'[NoSub] = skewed[NoSub]
             \/ /\ Debits(w) /\ booked' \in {booked, booked + 1}
                /\ skewed'[NoSub] = skewed[NoSub] + Cardinality(Readers)
      PROVE  booked' <= Known(h)' + erased' + skewed'[NoSub]
  <2>1. CASE CopyKept(h)
    <3>1. handler[h].req \in GroupMade /\ handler[h].pc \in Reading
      BY <2>1 DEF CopyKept
    <3>2. booked <= Known(h) + erased + skewed[NoSub]
      BY <3>1 DEF GroupReadInv
    <3>3. Known(h) <= Known(h)'
      BY <1>0, <1>2, <2>1 DEF CopyKept, Known
    <3>4. booked' - booked <= skewed'[NoSub] - skewed[NoSub]
      <4>1. IsFiniteSet(Readers) /\ Cardinality(Readers) \in Nat
        BY HandlersFinite DEF Readers
      <4>2. Readers # {}
        BY <3>1 DEF Readers
      <4>3. Cardinality(Readers) # 0
        BY <4>1, <4>2, FS_EmptySet
      <4>. QED
        BY <1>0, <1>2, <4>1, <4>3
    <3>. QED
      BY <1>0, <1>2, <3>2, <3>3, <3>4
  <2>2. CASE CopyGone(h)
    BY <2>2 DEF CopyGone, Reading
  <2>3. CASE CopyLoaded(h)
    <3>1. UNCHANGED <<booked, erased, skewed>> /\ handler'[h].grp = group /\ handler'[h].pc = "find"
      BY <2>3 DEF CopyLoaded, Rest, ledger
    <3>2. Known(h)' = Counter(group)
      BY <1>2, <3>1 DEF Known, Counter
    <3>. QED
      BY <1>0, <3>1, <3>2, GroupTypes DEF GroupLedgerKept
  <2>4. CASE CopyReset(h)
    <3>1. /\ UNCHANGED <<booked, erased, skewed>> /\ handler[h].pc = "find"
          /\ handler[h].req \in GroupMade /\ handler[h].grp.date # day
      BY <2>4 DEF CopyReset, Rest, ledger
    <3>2. Known(h) = 0
      BY <3>1 DEF Known
    <3>3. booked <= Known(h) + erased + skewed[NoSub]
      BY <3>1 DEF GroupReadInv, Reading
    <3>. QED
      BY <1>0, <3>1, <3>2, <3>3
  <2>. QED
    BY <2>1, <2>2, <2>3, <2>4, CopyStep
<1>. QED
  BY <1>1, <1>2, CountStep

\* Requests of today that were completed.
LEMMA BookedSets ==
  /\ BookedToday \in SUBSET Requests /\ IsFiniteSet(BookedToday)
  /\ Cardinality(BookedToday) \in Nat
  /\ BookedToday' \in SUBSET Requests /\ Cardinality(BookedToday') \in Nat
<1>1. BookedToday \in SUBSET Requests /\ BookedToday' \in SUBSET Requests
  BY DEF BookedToday
<1>. QED
  BY <1>1, RequestsFinite

\* Only a debit completes one.
LEMMA BookedStep ==
  ASSUME NEW w, Workers = {w}, QuotaInv, [Next]_vars
  PROVE  \/ Midnight /\ BookedToday' = {}
         \/ BookedToday' \subseteq BookedToday
         \/ Debits(w) /\ BookedToday' \subseteq BookedToday \cup {worker[w].req}
<1>0. w \in Workers /\ TypeOK /\ BusyInv
  BY GroupTypes DEF QuotaInv, Flow
<1>1. ASSUME UNCHANGED <<day, row, undone>> PROVE BookedToday' = BookedToday
  BY <1>1 DEF BookedToday
<1>2. ASSUME NEW h \in Handlers, Waits(h) \/ Counts(h) PROVE BookedToday' = BookedToday
  BY <1>1, <1>2 DEF Waits, Counts, Rest, blind
<1>3. ASSUME NEW h \in Handlers, Passes(h) PROVE BookedToday' = BookedToday
  BY <1>1, <1>3, PassesDoes
<1>4. ASSUME NEW h \in Handlers, Commits(h) PROVE BookedToday' \subseteq BookedToday
  <2>1. /\ UNCHANGED <<day, undone>>
        /\ \A r \in Requests : row'[r] # row[r] =>
             r \notin undone /\ row'[r].status \in {"denied", "queued"}
    BY <1>4, CommitsDoes
  <2>. QED
    BY <2>1 DEF BookedToday
<1>5. CASE Holds(w) \/ Loads(w) \/ Flushes(w)
  BY <1>1, <1>5 DEF Holds, Loads, Flushes, Besides, blind
<1>6. CASE Starts(w)
  BY <1>6 DEF Starts, Written, StatusOnly, RowOnly, Besides, BookedToday
<1>7. CASE Settles(w)
  <2>1. PICK r \in Requests : r = worker[w].req
    BY <1>7 DEF Settles
  <2>2. StatusOnly(r, "completed") /\ UNCHANGED <<day, undone>>
    BY <1>7, <2>1 DEF Settles, Written
  <2>3. BookedToday' \subseteq BookedToday \cup {r}
    BY <2>2 DEF BookedToday, StatusOnly, RowOnly
  <2>4. CASE row[r].via = "group_quota"
    <3>1. Debits(w)
      BY <1>7, <2>1, <2>4 DEF Debits, Settles, SubTags
    <3>. QED
      BY <2>1, <2>3, <3>1
  <2>5. CASE row[r].via # "group_quota"
    BY <2>2, <2>5 DEF BookedToday, StatusOnly, RowOnly
  <2>. QED
    BY <2>4, <2>5
<1>8. ASSUME NEW r \in Requests, Fails(r) PROVE BookedToday' \subseteq BookedToday
  <2>1. Marked(r) /\ day' = day
    BY <1>8 DEF Fails, Besides
  <2>. QED
    BY <2>1 DEF BookedToday, Marked, StatusOnly, RowOnly
<1>9. CASE Still
  BY <1>1, <1>9 DEF Still, blind
<1>10. CASE Midnight
  <2>1. day' = day + 1 /\ UNCHANGED <<row, undone>> /\ day \in Nat
    BY <1>10, GroupTypes DEF Midnight, blind
  <2>2. \A r \in Requests : row[r].made # day + 1
    BY <1>0, <2>1, GroupTypes DEF BusyInv
  <2>3. BookedToday' = {}
    BY <2>1, <2>2 DEF BookedToday
  <2>. QED
    BY <1>10, <2>3
<1>. QED
  BY <1>0, <1>2, <1>3, <1>4, <1>5, <1>6, <1>7, <1>8, <1>9, <1>10, NextKinds

\* And the debit is of today, if the request is.
LEMMA BookedNext ==
  ASSUME NEW w, Workers = {w}, QuotaInv, DateInv, CopyInv, BookedInv, [Next]_vars
  PROVE  BookedInv'
<1>0. /\ w \in Workers /\ booked \in Nat /\ booked' \in Nat /\ Cardinality(BookedToday) <= booked
      /\ Cardinality(BookedToday) \in Nat /\ Cardinality(BookedToday') \in Nat
      /\ BookedToday \in SUBSET Requests /\ BookedToday' \in SUBSET Requests
  BY GroupTypes, CountStep, BookedSets DEF BookedInv
<1>. SUFFICES Cardinality(BookedToday') <= booked'
  BY DEF BookedInv
<1>a. Midnight \/ booked <= booked'
  BY <1>0, CountStep
<1>b. ASSUME BookedToday' \subseteq BookedToday, booked <= booked'
      PROVE  Cardinality(BookedToday') <= booked'
  BY <1>0, <1>b, OneMore
<1>1. CASE BookedToday' = {}
  <2>1. Cardinality(BookedToday') = 0
    BY <1>1, FS_EmptySet
  <2>. QED
    BY <1>0, <2>1
<1>2. CASE Midnight
  <2>1. \A r \in Requests : row[r].made <= day /\ row[r].made \in Nat
    BY GroupTypes DEF QuotaInv, Flow, BusyInv
  <2>2. BookedToday' = {}
    BY <1>2, <2>1, GroupTypes DEF Midnight, BookedToday
  <2>. QED
    BY <1>1, <2>2
<1>3. CASE BookedToday' \subseteq BookedToday /\ ~Midnight
  BY <1>a, <1>b, <1>3
<1>4. CASE Debits(w) /\ BookedToday' \subseteq BookedToday \cup {worker[w].req} /\ ~Midnight
  <2>. DEFINE r == worker[w].req
  <2>1. /\ r \in Requests /\ worker[w].today <= day /\ row[r].made <= worker[w].today
        /\ StatusOnly(r, "completed") /\ UNCHANGED <<undone, day>>
        /\ row[r].made \in Nat /\ worker[w].today \in Nat /\ day \in Nat
    BY <1>0, <1>4, DebitIsOfGroup, GroupTypes
  <2>2. CASE row[r].made = day
    <3>1. worker[w].today = day
      BY <2>1, <2>2
    <3>2. booked' = booked + 1
      BY <1>0, <1>4, <3>1, DebitKeeps
    <3>3. Cardinality(BookedToday') <= Cardinality(BookedToday) + 1
      BY <1>0, <1>4, <2>1, OneMore
    <3>. QED
      BY <1>0, <3>2, <3>3
  <2>3. CASE row[r].made # day
    <3>1. BookedToday' \subseteq BookedToday
      BY <2>1, <2>3 DEF BookedToday, StatusOnly, RowOnly
    <3>. QED
      BY <1>4, <1>a, <1>b, <3>1
  <2>. QED
    BY <2>2, <2>3
<1>. QED
  BY <1>1, <1>2, <1>3, <1>4, BookedStep

\* All of it always holds.
LEMMA GroupAlways ==
  ASSUME NEW w, Workers = {w}
  PROVE  Spec => [](QuotaInv /\ GroupInv)
<1>1. QuotaInv /\ GroupInv /\ [Next]_vars => (QuotaInv /\ GroupInv)'
  BY QuotaNext, DateNext, CopyNext, KeptNext, GroupReadNext, BookedNext DEF GroupInv
<1>. QED
  BY <1>1, QuotaInit, GroupInit, PTL DEF Spec

\* On every day, with a single worker process, the group's counter misses no debit of
\* the day but those that were noted as taken back by a copy of the group of another
\* day: whichever transactions reset it, fail, or save a booking that began before
\* midnight (_reset_group_day_if_needed, consume_download).
THEOREM GroupLedgerHolds ==
  ASSUME NEW w, Workers = {w}
  PROVE  Spec => []GroupLedgerKept
<1>1. GroupInv => GroupLedgerKept
  BY DEF GroupInv
<1>. QED
  BY <1>1, GroupAlways, PTL

\* The admissions that have passed on today's quota.
Admitted == {h \in Handlers : /\ handler[h].pc = "passed" /\ handler[h].made = day
                              /\ handler[h].via = "group_quota"}

\* What is taken of today's quota, without what went on after it was marked failed.
OnTime == GroupTaken \ late

QuotaBounded ==
  DailyLimit[day] # NoLimit =>
    Cardinality(OnTime) + Cardinality(Admitted)
      <= DailyLimit[day] + Cardinality(Handlers) - 1 + skewed[NoSub] + erased

\* The rows and the admissions that count are finitely many.
LEMMA GroupSets ==
  /\ OnTime \in SUBSET Requests /\ OnTime' \in SUBSET Requests
  /\ IsFiniteSet(OnTime) /\ Cardinality(OnTime) \in Nat /\ Cardinality(OnTime') \in Nat
  /\ GroupRows(day) \in SUBSET Requests /\ IsFiniteSet(GroupRows(day))
  /\ Cardinality(GroupRows(day)) \in Nat
  /\ IsFiniteSet(Admitted) /\ Admitted \subseteq Handlers
  /\ Cardinality(Admitted) \in Nat /\ Cardinality(Admitted') \in Nat
  /\ Cardinality(Admitted') <= Cardinality(Handlers) /\ Cardinality(Handlers) \in Nat
  /\ Admitted' \subseteq Admitted => Cardinality(Admitted') <= Cardinality(Admitted)
<1>1. OnTime \in SUBSET Requests /\ OnTime' \in SUBSET Requests /\ GroupRows(day) \in SUBSET Requests
  BY DEF GroupRows, OnTime, GroupTaken
<1>2. Admitted \in SUBSET Handlers /\ Admitted' \in SUBSET Handlers
  BY DEF Admitted
<1>3. Admitted' \subseteq Admitted => Cardinality(Admitted') <= Cardinality(Admitted)
  BY <1>2, HandlersFinite, FS_Subset
<1>. QED
  BY <1>1, <1>2, <1>3, RequestsFinite, HandlersFinite

\* An admission that passes counted what was debited, but for what it missed.
LEMMA QuotaCounts ==
  ASSUME QuotaInv, GroupInv, NEW h \in Handlers, Passes(h),
         handler[h].via = "group_quota", handler[h].made = day, DailyLimit[day] \in Nat
  PROVE  Cardinality(OnTime) <= DailyLimit[day] - 1 + skewed[NoSub] + erased
<1>1. /\ handler[h].pc = "count" /\ HasCapacity(h) /\ handler[h].req \in GroupMade
      /\ handler[h].grp.date = day
  <2>1. handler[h].grp.date <= day /\ handler[h].made <= handler[h].grp.date
    BY DEF GroupInv, DateInv
  <2>2. handler[h].grp.date = day
    BY <2>1, GroupTypes
  <2>. QED
    BY <2>2 DEF Passes, QuotaInv, TagInv
<1>2. DailyLimit[day] - handler[h].grp.today - Cardinality(GroupRows(day)) > 0
  BY <1>1 DEF HasCapacity, SubTags
<1>3. booked <= handler[h].grp.today + erased + skewed[NoSub]
  BY <1>1 DEF GroupInv, GroupReadInv, Known, Reading
<1>4. OnTime \subseteq BookedToday \cup GroupRows(day)
  BY GroupTypes DEF OnTime, GroupTaken, BookedToday, GroupRows, Counted
<1>5. /\ IsFiniteSet(BookedToday \cup GroupRows(day))
      /\ Cardinality(BookedToday \cup GroupRows(day))
           = Cardinality(BookedToday) + Cardinality(GroupRows(day))
               - Cardinality(BookedToday \cap GroupRows(day))
  BY BookedSets, GroupSets, FS_Union
<1>6. BookedToday \cap GroupRows(day) \in SUBSET Requests
  BY BookedSets
<1>7. Cardinality(BookedToday \cap GroupRows(day)) \in Nat
  BY <1>6, RequestsFinite
<1>8. Cardinality(OnTime) <= Cardinality(BookedToday \cup GroupRows(day))
  BY <1>4, <1>5, FS_Subset
<1>9. Cardinality(BookedToday) <= booked
  BY DEF GroupInv, BookedInv
<1>10. Cardinality(OnTime) <= booked + Cardinality(GroupRows(day))
  BY <1>5, <1>7, <1>8, <1>9, BookedSets, GroupSets, GroupTypes
<1>. QED
  BY <1>2, <1>3, <1>10, GroupSets, GroupTypes

\* The other steps take no more of it.
LEMMA QuietTakes ==
  ASSUME Quiet
  PROVE  OnTime' \subseteq OnTime /\ Admitted' \subseteq Admitted
<1>1. OnTime' \subseteq OnTime
  BY DEF Quiet, Keeps, OnTime, GroupTaken
<1>2. Admitted' \subseteq Admitted
  BY DEF Quiet, Admitted
<1>. QED
  BY <1>1, <1>2

\* Nothing is taken of a new day.
LEMMA MidnightFrees ==
  ASSUME QuotaInv, Midnight
  PROVE  Cardinality(OnTime') = 0 /\ Cardinality(Admitted') = 0
<1>1. day' = day + 1 /\ UNCHANGED <<row, handler>> /\ day \in Nat
  BY GroupTypes DEF Midnight
<1>2. \A r \in Requests : row[r].made # day + 1
  BY <1>1, GroupTypes DEF QuotaInv, Flow, BusyInv
<1>3. \A h \in Handlers : handler[h].made # day + 1
  BY <1>1, GroupTypes DEF QuotaInv, Flow, BusyInv
<1>4. OnTime' = {} /\ Admitted' = {}
  BY <1>1, <1>2, <1>3 DEF OnTime, GroupTaken, Admitted
<1>. QED
  BY <1>4, FS_EmptySet

\* The commit of an admission takes one place at most, and gives up its own.
LEMMA CommitTakes ==
  ASSUME QuotaInv, NEW h \in Handlers, Commits(h)
  PROVE  Cardinality(OnTime') + Cardinality(Admitted') <= Cardinality(OnTime) + Cardinality(Admitted)
<1>1. PICK r \in Requests : r = handler[h].req
  BY DEF Commits
<1>2. /\ UNCHANGED <<day, late, undone>> /\ Only(h) /\ handler'[h].pc = "idle"
      /\ \A q \in Requests : row'[q] # row[q] =>
           /\ q = r
           /\ \/ row'[q].status = "denied" /\ q \notin undone
              \/ /\ handler[h].pc = "passed" /\ row'[q].made = handler[h].made
                 /\ row'[q].via = handler[h].via
  BY <1>1, CommitsDoes
<1>3. Admitted' = Admitted \ {h}
  BY <1>2 DEF Admitted, Only
<1>4. CASE h \in Admitted
  <2>1. OnTime' \subseteq OnTime \cup {r}
    BY <1>2 DEF OnTime, GroupTaken
  <2>2. Cardinality(OnTime') <= Cardinality(OnTime) + 1
    BY <2>1, GroupSets, OneMore
  <2>3. Cardinality(Admitted') = Cardinality(Admitted) - 1
    BY <1>3, <1>4, GroupSets, FS_RemoveElement
  <2>. QED
    BY <2>2, <2>3, GroupSets
<1>5. CASE h \notin Admitted
  <2>1. OnTime' \subseteq OnTime
    BY <1>2, <1>5 DEF OnTime, GroupTaken, Admitted, Counted, InFlight
  <2>2. Cardinality(OnTime') <= Cardinality(OnTime)
    BY <2>1, GroupSets, OneMore
  <2>3. Admitted' \subseteq Admitted
    BY <1>3
  <2>. QED
    BY <2>2, <2>3, GroupSets
<1>. QED
  BY <1>4, <1>5

\* Each admission on the daily quota that passed may be one too many, but the first.
LEMMA QuotaBoundNext ==
  ASSUME NEW w, Workers = {w}, QuotaInv, GroupInv, QuotaBounded, [Next]_vars
  PROVE  QuotaBounded'
<1>. SUFFICES ASSUME DailyLimit[day'] # NoLimit
              PROVE  Cardinality(OnTime') + Cardinality(Admitted')
                       <= DailyLimit[day'] + Cardinality(Handlers) - 1 + skewed'[NoSub] + erased'
  BY DEF QuotaBounded
<1>0. /\ Cardinality(OnTime) \in Nat /\ Cardinality(OnTime') \in Nat
      /\ Cardinality(Admitted) \in Nat /\ Cardinality(Admitted') \in Nat
      /\ Cardinality(Admitted') <= Cardinality(Handlers) /\ Cardinality(Handlers) \in Nat
      /\ skewed[NoSub] \in Nat /\ erased \in Nat
      /\ skewed'[NoSub] \in Nat /\ erased' \in Nat
  BY GroupSets, GroupTypes, CountStep DEF GroupInv
<1>a. DailyLimit[day'] \in Nat
  <2>1. day' \in 0..LastDay
    BY QuotaNext DEF QuotaInv, Flow, TypeInv, TypeOK
  <2>. QED
    BY <2>1, QuotaAssumption
<1>b. day' = day =>
        /\ Cardinality(OnTime) + Cardinality(Admitted)
             <= DailyLimit[day'] + Cardinality(Handlers) - 1 + skewed[NoSub] + erased
        /\ skewed[NoSub] <= skewed'[NoSub] /\ erased <= erased'
  <2>1. ASSUME day' = day
        PROVE  Cardinality(OnTime) + Cardinality(Admitted)
                 <= DailyLimit[day'] + Cardinality(Handlers) - 1 + skewed[NoSub] + erased
    BY <2>1 DEF QuotaBounded
  <2>2. ASSUME day' = day
        PROVE  skewed[NoSub] <= skewed'[NoSub] /\ erased <= erased'
    <3>1. Cardinality(Readers) \in Nat
      BY HandlersFinite DEF Readers
    <3>2. ~Midnight
      BY <2>2, GroupTypes DEF Midnight
    <3>3. erased' >= erased /\ (\/ skewed'[NoSub] = skewed[NoSub]
                                \/ skewed'[NoSub] = skewed[NoSub] + Cardinality(Readers))
      BY <3>2, CountStep DEF GroupInv
    <3>. QED
      BY <1>0, <3>1, <3>3
  <2>. QED
    BY <2>1, <2>2
<1>. HIDE DEF QuotaBounded
<1>1. ASSUME NEW h \in Handlers, Passes(h)
      PROVE  Cardinality(OnTime') + Cardinality(Admitted')
               <= DailyLimit[day'] + Cardinality(Handlers) - 1 + skewed'[NoSub] + erased'
  <2>1. /\ UNCHANGED <<day, row, late, undone>> /\ Only(h) /\ SameRequest(h) /\ SameFind(h)
    BY <1>1, PassesDoes
  <2>2. OnTime' = OnTime
    BY <2>1 DEF OnTime, GroupTaken
  <2>3. CASE handler[h].via = "group_quota" /\ handler[h].made = day
    <3>1. Cardinality(OnTime) <= DailyLimit[day'] - 1 + skewed[NoSub] + erased
      BY <1>1, <1>a, <2>1, <2>3, QuotaCounts
    <3>. QED
      BY <1>0, <1>a, <1>b, <2>1, <2>2, <3>1
  <2>4. CASE ~(handler[h].via = "group_quota" /\ handler[h].made = day)
    <3>1. Admitted' \subseteq Admitted
      BY <2>1, <2>4 DEF Admitted, Only, SameRequest, SameFind
    <3>2. Cardinality(Admitted') <= Cardinality(Admitted)
      BY <3>1, GroupSets
    <3>. QED
      BY <1>0, <1>a, <1>b, <2>1, <2>2, <3>2
  <2>. QED
    BY <2>3, <2>4
<1>2. ASSUME NEW h \in Handlers, Commits(h)
      PROVE  Cardinality(OnTime') + Cardinality(Admitted')
               <= DailyLimit[day'] + Cardinality(Handlers) - 1 + skewed'[NoSub] + erased'
  <2>1. day' = day
    BY <1>2 DEF Commits
  <2>2. Cardinality(OnTime') + Cardinality(Admitted') <= Cardinality(OnTime) + Cardinality(Admitted)
    BY <1>2, CommitTakes
  <2>. QED
    BY <1>0, <1>a, <1>b, <2>1, <2>2
<1>3. CASE Quiet
  <2>1. OnTime' \subseteq OnTime /\ Admitted' \subseteq Admitted /\ day' = day
    BY <1>3, QuietTakes DEF Quiet
  <2>2. Cardinality(OnTime') <= Cardinality(OnTime) /\ Cardinality(Admitted') <= Cardinality(Admitted)
    BY <2>1, GroupSets, OneMore
  <2>. QED
    BY <1>0, <1>a, <1>b, <2>1, <2>2
<1>4. CASE Midnight
  <2>1. Cardinality(OnTime') = 0 /\ Cardinality(Admitted') = 0
    BY <1>4, MidnightFrees
  <2>2. Cardinality(Handlers) # 0
    BY QuotaAssumption, FS_EmptySet
  <2>. QED
    BY <1>0, <1>a, <2>1, <2>2
<1>. QED
  BY <1>1, <1>2, <1>3, <1>4, Steps

\* Nothing is used of the daily quota at the start.
LEMMA QuotaBoundInit == Init => QuotaBounded
<1>. SUFFICES ASSUME Init, DailyLimit[day] # NoLimit
              PROVE  Cardinality(OnTime) + Cardinality(Admitted)
                       <= DailyLimit[day] + Cardinality(Handlers) - 1 + skewed[NoSub] + erased
  BY DEF QuotaBounded
<1>1. \A h \in Handlers : handler[h].pc = "idle"
  BY SomeUserIsOne, IdleIsHandler DEF Init
<1>2. OnTime = {} /\ Admitted = {}
  BY <1>1 DEF Init, NoRow, OnTime, GroupTaken, Counted, InFlight, Admitted
<1>3. Cardinality(OnTime) = 0 /\ Cardinality(Admitted) = 0
  BY <1>2, FS_EmptySet
<1>4. Cardinality(Handlers) \in Nat /\ Cardinality(Handlers) # 0
  BY QuotaAssumption, FS_CardinalityType, FS_EmptySet
<1>5. DailyLimit[day] \in Nat /\ skewed[NoSub] = 0 /\ erased = 0
  BY QuotaAssumption DEF Init
<1>. QED
  BY <1>3, <1>4, <1>5

\* On every day, with a single worker process, the overrun of the group's daily quota
\* is bounded by the admissions under way at once, the debits that came between
\* loading the group and counting, those that a stale copy of the group took back,
\* and the requests that went on after they were marked failed (check_access,
\* _group_quota_in_flight_today, _reset_group_day_if_needed).
THEOREM GroupQuotaBounded ==
  ASSUME NEW w, Workers = {w}
  PROVE  Spec => []GroupQuotaOverrunBounded
<1>1. QuotaInv /\ GroupInv /\ QuotaBounded /\ [Next]_vars => QuotaBounded'
  BY QuotaBoundNext
<1>2. QuotaBounded => GroupQuotaOverrunBounded
  BY DEF QuotaBounded, GroupQuotaOverrunBounded, OnTime, Admitted
<1>. QED
  BY <1>1, <1>2, QuotaBoundInit, GroupAlways, PTL DEF Spec
=============================================================================
