----------------------- MODULE DownloadPipelineProofs -----------------------
(***************************************************************************)
(* What the download pipeline guarantees for any number of workers,        *)
(* requests, faults and deliveries.                                        *)
(*                                                                         *)
(* TypeInv adds to TypeOK that nobody knows of an entry that has not been  *)
(* delivered: a worker looks entries up in log, so without it the types    *)
(* are not inductive.  Covered adds to NoDebitWithoutDelivery the debit    *)
(* that a worker about to book owes, so that it holds through both steps.  *)
(*                                                                         *)
(* What needs a single worker process, the deployed configuration, says so *)
(* (Workers = {w}): that a request is debited once, that no job is lost,   *)
(* and that attempts are bounded.  A second worker may have read the row   *)
(* before the first settled it, and may acknowledge an entry the first is  *)
(* still at.                                                               *)
(***************************************************************************)
EXTENDS DownloadPipeline, FiniteSetTheorems, TLAPS

\* Entries keep their request, and ids only grow.
StreamGrows ==
  /\ lastId' \in Nat /\ lastId <= lastId'
  /\ lastDelivered' \in Nat /\ lastDelivered <= lastDelivered'
  /\ \A e \in 1..lastId : log'[e].req = log[e].req

Busy == WorkerPCs \ {"down", "reclaim", "check", "handle", "read"}

\* A worker only knows of entries that have been delivered, up to d.
Knows(x, d) ==
  /\ x \in Worker
  /\ x.pc \in Busy => x.entry \in 1..d
  /\ x.claimed \subseteq 1..d /\ x.ready \subseteq 1..d

TypeInv ==
  /\ TypeOK
  /\ pel \subseteq 1..lastDelivered
  /\ \A w \in Workers : Knows(worker[w], lastDelivered)

\* Each stream command keeps the types of the stream, the requests of its
\* entries and the order of ids (redis-py, as queue.py uses it).
LEMMA XAddStep ==
  ASSUME StreamTypeOK, NEW r \in Requests, XAdd(r)
  PROVE  StreamTypeOK' /\ StreamGrows
BY DEF StreamTypeOK, XAdd, Entry, StreamGrows

\* XREADGROUP: the entry it delivers counts as delivered from then on.
LEMMA XReadGroupStep ==
  ASSUME StreamTypeOK, NEW e \in Undelivered, XReadGroup(e)
  PROVE  /\ StreamTypeOK' /\ StreamGrows
         /\ e \in 1..lastDelivered'
<1>1. e \in 1..lastId /\ e > lastDelivered /\ lastDelivered \in Nat /\ lastId \in Nat
  BY DEF StreamTypeOK, Undelivered
<1>2. log' \in [1..lastId -> Entry] /\ \A q \in 1..lastId : log'[q].req = log[q].req
  BY <1>1 DEF StreamTypeOK, XReadGroup, Entry
<1>. QED
  BY <1>1, <1>2 DEF StreamTypeOK, XReadGroup, StreamGrows

\* XAUTOCLAIM counts one more delivery of what it claims, and nothing else.
LEMMA XAutoClaimStep ==
  ASSUME StreamTypeOK, NEW S \in SUBSET pel, XAutoClaim(S)
  PROVE  StreamTypeOK' /\ StreamGrows
<1>1. ASSUME NEW q \in 1..lastId
      PROVE  log'[q] \in Entry /\ log'[q].req = log[q].req
  <2>1. log[q] \in Entry
    BY DEF StreamTypeOK
  <2>2. log'[q] = IF q \in S THEN [log[q] EXCEPT !.tries = @ + 1] ELSE log[q]
    BY DEF XAutoClaim
  <2>. QED
    BY <2>1, <2>2 DEF Entry
<1>2. log' \in [1..lastId -> Entry]
  BY <1>1 DEF XAutoClaim
<1>. QED
  BY <1>1, <1>2 DEF StreamTypeOK, XAutoClaim, StreamGrows

\* XACK takes an entry off the pending list only.
LEMMA XAckStep ==
  ASSUME StreamTypeOK, NEW e \in 1..lastId, XAck(e)
  PROVE  StreamTypeOK' /\ StreamGrows
BY DEF StreamTypeOK, XAck, StreamGrows, Entry

\* XDEL takes an entry out of the stream only.
LEMMA XDelStep ==
  ASSUME StreamTypeOK, NEW e \in 1..lastId, XDel(e)
  PROVE  StreamTypeOK' /\ StreamGrows
BY DEF StreamTypeOK, XDel, StreamGrows, Entry

\* The copy on the dead-letter stream leaves the entry its request.
LEMMA XAddDeadStep ==
  ASSUME StreamTypeOK, NEW e \in 1..lastId, XAddDead(e)
  PROVE  StreamTypeOK' /\ StreamGrows
<1>1. log' \in [1..lastId -> Entry] /\ \A q \in 1..lastId : log'[q].req = log[q].req
  BY DEF StreamTypeOK, XAddDead, Entry
<1>. QED
  BY <1>1 DEF StreamTypeOK, XAddDead, StreamGrows

\* No command, no change.
LEMMA StreamStutter ==
  ASSUME StreamTypeOK, UNCHANGED streamVars
  PROVE  StreamTypeOK' /\ StreamGrows
BY DEF StreamTypeOK, streamVars, StreamGrows

\* A worker at a job is at an entry that exists, of a request that exists.
LEMMA ReqTyped ==
  ASSUME TypeInv, NEW w \in Workers, worker[w].pc \in Busy
  PROVE  worker[w].entry \in 1..lastId /\ Req(w) \in Requests
<1>1. worker[w].entry \in 1..lastId
  BY DEF TypeInv, TypeOK, StreamTypeOK, Knows
<1>2. log[worker[w].entry] \in Entry
  BY <1>1 DEF TypeInv, TypeOK, StreamTypeOK
<1>. QED
  BY <1>1, <1>2 DEF Req, Entry

\* Every step keeps the types of the stream, and the stream only grows.
LEMMA NextStream == TypeInv /\ [Next]_vars => StreamTypeOK' /\ StreamGrows
<1>. SUFFICES ASSUME TypeInv, [Next]_vars PROVE StreamTypeOK' /\ StreamGrows
  OBVIOUS
<1>. StreamTypeOK
  BY DEF TypeInv, TypeOK
<1>0. ASSUME NEW w \in Workers, worker[w].pc \in Busy PROVE worker[w].entry \in 1..lastId
  BY <1>0 DEF TypeInv, TypeOK, Knows, StreamTypeOK
<1>1. ASSUME NEW r \in Requests, EnqueueOk(r) \/ EnqueueRaises(r) \/ EnqueueRepeats(r)
      PROVE  StreamTypeOK' /\ StreamGrows
  BY <1>1, XAddStep, StreamStutter DEF EnqueueOk, EnqueueRaises, EnqueueRepeats
<1>2. ASSUME NEW w \in Workers, NEW S \in SUBSET pel, Reclaim(w, S)
      PROVE  StreamTypeOK' /\ StreamGrows
  BY <1>2, XAutoClaimStep DEF Reclaim
<1>3. ASSUME NEW w \in Workers, ReadNew(w) \/ ReadReplyLost(w)
      PROVE  StreamTypeOK' /\ StreamGrows
  BY <1>3, XReadGroupStep, StreamStutter DEF ReadNew, ReadReplyLost
<1>4. ASSUME NEW w \in Workers, Bury(w) \/ Ack(w) \/ Del(w)
      PROVE  StreamTypeOK' /\ StreamGrows
  <2>1. worker[w].entry \in 1..lastId
    BY <1>0, <1>4 DEF Bury, Ack, Del, At, Busy, WorkerPCs
  <2>. QED
    BY <1>4, <2>1, XAddDeadStep, XAckStep, XDelStep DEF Bury, Ack, Del
<1>5. ASSUME NEW r \in Requests, Admit(r) \/ MarkEnqueueFailed(r) \/ ApiCrash(r)
      PROVE  UNCHANGED streamVars
  BY <1>5 DEF Admit, MarkEnqueueFailed, ApiCrash
<1>6. ASSUME NEW w \in Workers,
             \/ Check(w) \/ HandleNext(w) \/ Load(w) \/ Start(w) \/ Download(w) \/ Upload(w)
             \/ Book(w) \/ Fail(w) \/ Recover(w) \/ Restart(w) \/ WorkerFault(w) \/ Sweep(w)
      PROVE  UNCHANGED streamVars \/ ReadReplyLost(w)
  BY <1>6 DEF Check, HandleNext, Load, Start, Download, Upload, Book, Fail, Recover, Restart,
              WorkerFault, QueueError, JobRaises, UploadRaises, AttemptRaises, RecoverRaises,
              Crash, Sweep, SweepSelect, SweepSave, SweepRaises
<1>7. CASE UNCHANGED vars
  BY <1>7, StreamStutter DEF vars
<1>. QED
  BY <1>1, <1>2, <1>3, <1>4, <1>5, <1>6, <1>7, StreamStutter
     DEF Next, Handler, HandlerFault, WorkerStep

\* When one worker moves the others still know of delivered entries only.
LEMMA OneMoves ==
  ASSUME TypeInv, StreamGrows, NEW w \in Workers, NEW x,
         worker' = [worker EXCEPT ![w] = x], Knows(x, lastDelivered')
  PROVE  /\ worker' \in [Workers -> Worker]
         /\ \A v \in Workers : Knows(worker'[v], lastDelivered')
<1>1. \A v \in Workers : worker'[v] = IF v = w THEN x ELSE worker[v]
  BY DEF TypeInv, TypeOK
<1>2. \A v \in Workers : Knows(worker[v], lastDelivered')
  <2>1. lastDelivered \in Nat /\ lastDelivered' \in Nat /\ lastDelivered <= lastDelivered'
    BY DEF TypeInv, TypeOK, StreamTypeOK, StreamGrows
  <2>. QED
    BY <2>1 DEF TypeInv, Knows
<1>. QED
  BY <1>1, <1>2 DEF Knows, TypeInv, TypeOK

\* The same when the worker only moves on: it takes no new entry in hand.
LEMMA GotoMoves ==
  ASSUME TypeInv, StreamGrows, NEW w \in Workers, NEW pc \in WorkerPCs, Goto(w, pc),
         worker[w].pc \in Busy \/ pc \notin Busy
  PROVE  /\ worker' \in [Workers -> Worker]
         /\ \A v \in Workers : Knows(worker'[v], lastDelivered')
<1>. DEFINE x == [worker[w] EXCEPT !.pc = pc]
<1>0. worker[w] \in Worker
  BY DEF TypeInv, TypeOK
<1>1. x \in Worker /\ x.pc = pc /\ x.entry = worker[w].entry
        /\ x.claimed = worker[w].claimed /\ x.ready = worker[w].ready
  BY <1>0 DEF Worker
<1>2. lastDelivered \in Nat /\ lastDelivered' \in Nat /\ lastDelivered <= lastDelivered'
  BY DEF TypeInv, TypeOK, StreamTypeOK, StreamGrows
<1>3. Knows(x, lastDelivered')
  BY <1>1, <1>2 DEF TypeInv, Knows
<1>4. worker' = [worker EXCEPT ![w] = x]
  BY DEF Goto
<1>. QED
  BY <1>3, <1>4, OneMoves

\* Every step leaves the workers with delivered entries only.
LEMMA NextWorkers ==
  TypeInv /\ [Next]_vars =>
    /\ worker' \in [Workers -> Worker]
    /\ \A v \in Workers : Knows(worker'[v], lastDelivered')
<1>. DEFINE Goal == /\ worker' \in [Workers -> Worker]
                    /\ \A v \in Workers : Knows(worker'[v], lastDelivered')
<1>. SUFFICES ASSUME TypeInv, [Next]_vars PROVE Goal
  OBVIOUS
<1>. StreamTypeOK' /\ StreamGrows
  BY NextStream
<1>0. lastDelivered \in Nat /\ lastDelivered' \in Nat /\ lastDelivered <= lastDelivered'
  BY DEF TypeInv, TypeOK, StreamTypeOK, StreamGrows
<1>1. ASSUME NEW w \in Workers,
             \/ Bury(w) \/ Download(w) \/ Upload(w) \/ Book(w) \/ Fail(w) \/ Recover(w) \/ Ack(w)
             \/ Start(w) \/ UploadRaises(w) \/ AttemptRaises(w) \/ RecoverRaises(w)
      PROVE  Goal
  <2>1. worker[w].pc \in Busy
    BY <1>1 DEF Bury, Download, Upload, Book, Fail, Recover, Ack, Start, UploadRaises,
                AttemptRaises, RecoverRaises, At, Busy, WorkerPCs, Attempting
  <2>2. \E pc \in {"ack", "upload", "fail", "book", "refail", "del", "download", "recover"} :
          Goto(w, pc)
    BY <1>1 DEF Bury, Download, Upload, Book, Fail, Recover, Ack, Start, UploadRaises,
                AttemptRaises, RecoverRaises
  <2>. QED
    BY <2>1, <2>2, GotoMoves DEF WorkerPCs, Attempting
<1>2. ASSUME NEW w \in Workers, Restart(w) \/ ReadReplyLost(w) PROVE Goal
  BY <1>2, GotoMoves DEF Restart, ReadReplyLost, WorkerPCs, Busy
<1>3. ASSUME NEW w \in Workers, NEW S \in SUBSET pel, Reclaim(w, S) PROVE Goal
  <2>. DEFINE x == [worker[w] EXCEPT !.claimed = S, !.pc = "check"]
  <2>0. worker[w] \in Worker /\ "check" \in WorkerPCs
    BY DEF TypeInv, TypeOK, WorkerPCs
  <2>1. S \in SUBSET Nat /\ S \subseteq 1..lastDelivered'
    BY <1>0 DEF TypeInv
  <2>2. x \in Worker /\ x.pc = "check" /\ x.claimed = S /\ x.ready = worker[w].ready
    BY <2>0, <2>1 DEF Worker
  <2>3. Knows(x, lastDelivered')
    BY <1>0, <2>1, <2>2 DEF Knows, TypeInv, Busy
  <2>4. worker' = [worker EXCEPT ![w] = x]
    BY <1>3 DEF Reclaim
  <2>. QED
    BY <2>3, <2>4, OneMoves
<1>4. ASSUME NEW w \in Workers, Check(w) PROVE Goal
  <2>0. /\ worker[w].pc = "check" /\ worker[w] \in Worker
        /\ worker[w].claimed \subseteq 1..lastDelivered'
        /\ worker[w].ready \subseteq 1..lastDelivered'
    BY <1>0, <1>4 DEF Check, At, TypeInv, TypeOK, Knows
  <2>1. CASE Goto(w, "handle")
    BY <2>1, GotoMoves DEF WorkerPCs, Busy
  <2>2. ASSUME NEW e \in worker[w].claimed, NEW x \in {GivenUp(worker[w], e), Kept(worker[w], e)},
               worker' = [worker EXCEPT ![w] = x]
        PROVE  Goal
    <3>1. CASE x = GivenUp(worker[w], e)
      <4>1. /\ x \in Worker /\ x.pc = "bury" /\ x.entry = e
            /\ x.claimed = worker[w].claimed \ {e} /\ x.ready = worker[w].ready
        BY <2>0, <3>1 DEF GivenUp, Worker, WorkerPCs
      <4>. QED
        BY <2>0, <2>2, <4>1, OneMoves DEF Knows
    <3>2. CASE x = Kept(worker[w], e)
      <4>1. worker[w].claimed \ {e} \in SUBSET Nat /\ worker[w].ready \cup {e} \in SUBSET Nat
        BY <2>0
      <4>2. /\ x \in Worker /\ x.pc = "check"
            /\ x.claimed = worker[w].claimed \ {e} /\ x.ready = worker[w].ready \cup {e}
        BY <2>0, <3>2, <4>1 DEF Kept, Worker
      <4>. QED
        BY <2>0, <2>2, <4>2, OneMoves DEF Knows, Busy
    <3>. QED
      BY <2>2, <3>1, <3>2
  <2>. QED
    BY <1>4, <2>1, <2>2 DEF Check
<1>5. ASSUME NEW w \in Workers, HandleNext(w) PROVE Goal
  <2>1. CASE Goto(w, "read")
    BY <2>1, GotoMoves DEF WorkerPCs, Busy
  <2>2. ASSUME NEW e \in worker[w].ready,
               worker' = [worker EXCEPT ![w].ready = @ \ {e}, ![w].entry = e,
                                        ![w].via = "reclaimed", ![w].pc = "load"]
        PROVE  Goal
    <3>. DEFINE x == [worker[w] EXCEPT !.ready = @ \ {e}, !.entry = e, !.via = "reclaimed",
                                       !.pc = "load"]
    <3>0. worker[w] \in Worker /\ "load" \in WorkerPCs
      BY DEF TypeInv, TypeOK, WorkerPCs
    <3>1. x \in Worker /\ x.pc = "load" /\ x.entry = e
            /\ x.claimed = worker[w].claimed /\ x.ready = worker[w].ready \ {e}
      BY <3>0 DEF Worker
    <3>2. Knows(x, lastDelivered')
      BY <1>0, <3>1 DEF Knows, TypeInv
    <3>3. worker' = [worker EXCEPT ![w] = x]
      BY <2>2
    <3>. QED
      BY <3>2, <3>3, OneMoves
  <2>. QED
    BY <1>5, <2>1, <2>2 DEF HandleNext
<1>6. ASSUME NEW w \in Workers, ReadNew(w) PROVE Goal
  <2>1. CASE Goto(w, "reclaim")
    BY <2>1, GotoMoves DEF WorkerPCs, Busy
  <2>2. ASSUME NEW e \in Undelivered, XReadGroup(e),
               worker' = [worker EXCEPT ![w].entry = e, ![w].via = "new", ![w].pc = "load"]
        PROVE  Goal
    <3>. DEFINE x == [worker[w] EXCEPT !.entry = e, !.via = "new", !.pc = "load"]
    <3>1. e \in 1..lastDelivered' /\ e \in Nat
      <4>1. e \in 1..lastDelivered'
        BY <2>2, XReadGroupStep DEF TypeInv, TypeOK
      <4>. QED
        BY <1>0, <4>1
    <3>0. worker[w] \in Worker /\ "load" \in WorkerPCs
      BY DEF TypeInv, TypeOK, WorkerPCs
    <3>2. x \in Worker /\ x.pc = "load" /\ x.entry = e
            /\ x.claimed = worker[w].claimed /\ x.ready = worker[w].ready
      BY <3>0, <3>1 DEF Worker
    <3>3. Knows(x, lastDelivered')
      BY <1>0, <3>1, <3>2 DEF Knows, TypeInv
    <3>4. worker' = [worker EXCEPT ![w] = x]
      BY <2>2
    <3>. QED
      BY <3>3, <3>4, OneMoves
  <2>. QED
    BY <1>6, <2>1, <2>2 DEF ReadNew
<1>7. ASSUME NEW w \in Workers, QueueError(w) \/ Crash(w) PROVE Goal
  <2>1. Knows(Booting, lastDelivered') /\ Knows(Stopped, lastDelivered')
    BY <1>0 DEF Knows, Booting, Stopped, Worker, WorkerPCs, Busy, Statuses
  <2>. QED
    BY <1>7, <2>1, OneMoves DEF QueueError, Crash
<1>8. ASSUME NEW w \in Workers, Load(w) PROVE Goal
  <2>. DEFINE next == IF status[Req(w)] \in InFlight THEN "start" ELSE "ack"
              x == [worker[w] EXCEPT !.seen = status[Req(w)], !.pc = next]
  <2>1. worker[w].pc \in Busy
    BY <1>8 DEF Load, At, Busy, WorkerPCs
  <2>2. status[Req(w)] \in Statuses /\ next \in WorkerPCs
    BY <2>1, ReqTyped DEF TypeInv, TypeOK, WorkerPCs
  <2>. HIDE DEF next
  <2>0. worker[w] \in Worker
    BY DEF TypeInv, TypeOK
  <2>3. x \in Worker /\ x.pc = next /\ x.entry = worker[w].entry
          /\ x.claimed = worker[w].claimed /\ x.ready = worker[w].ready
    BY <2>0, <2>2 DEF Worker
  <2>4. Knows(x, lastDelivered')
    BY <1>0, <2>1, <2>3 DEF Knows, TypeInv
  <2>5. worker' = [worker EXCEPT ![w] = x]
    BY <1>8 DEF Load, next
  <2>. QED
    BY <2>4, <2>5, OneMoves
<1>9. ASSUME NEW w \in Workers, JobRaises(w) \/ Del(w) PROVE Goal
  <2>. DEFINE x == [worker[w] EXCEPT !.pc = Resume(w), !.entry = 0, !.via = "new",
                                     !.seen = "absent"]
  <2>0. worker[w] \in Worker /\ "absent" \in Statuses
    BY DEF TypeInv, TypeOK, Statuses
  <2>1. Resume(w) \in WorkerPCs \ Busy
    BY <2>0 DEF Resume, Worker, WorkerPCs, Busy
  <2>2. x \in Worker /\ x.pc = Resume(w)
          /\ x.claimed = worker[w].claimed /\ x.ready = worker[w].ready
    BY <2>0, <2>1 DEF Worker
  <2>3. Knows(x, lastDelivered')
    BY <1>0, <2>1, <2>2 DEF Knows, TypeInv
  <2>4. worker' = [worker EXCEPT ![w] = x]
    BY <1>9 DEF JobRaises, Del, PutAside
  <2>. QED
    BY <2>3, <2>4, OneMoves
<1>10. ASSUME NEW r \in Requests, Admit(r) \/ Handler(r) \/ HandlerFault(r)
       PROVE  worker' = worker
  BY <1>10 DEF Admit, Handler, HandlerFault, EnqueueOk, EnqueueRaises, EnqueueRepeats,
              MarkEnqueueFailed, ApiCrash
<1>11. ASSUME NEW w \in Workers, Sweep(w) PROVE worker' = worker
  BY <1>11 DEF Sweep, SweepSelect, SweepSave, SweepRaises
<1>12. CASE worker' = worker
  BY <1>0, <1>12 DEF TypeInv, TypeOK, Knows
<1>. QED
  BY <1>1, <1>2, <1>3, <1>4, <1>5, <1>6, <1>7, <1>8, <1>9, <1>10, <1>11, <1>12
     DEF Next, WorkerStep, WorkerFault, vars

\* What a step does to the pending list.
LEMMA NextPending == TypeInv /\ [Next]_vars => pel' \subseteq 1..lastDelivered'
<1>. SUFFICES ASSUME TypeInv, [Next]_vars PROVE pel' \subseteq 1..lastDelivered'
  OBVIOUS
<1>1. /\ pel \subseteq 1..lastDelivered
      /\ lastDelivered \in Nat /\ lastDelivered' \in Nat /\ lastDelivered <= lastDelivered'
  BY NextStream DEF TypeInv, TypeOK, StreamTypeOK, StreamGrows
<1>2. pel' \subseteq pel \/ \E e \in Undelivered : XReadGroup(e)
  <2>1. ASSUME NEW r \in Requests, Admit(r) \/ Handler(r) \/ HandlerFault(r) PROVE pel' = pel
    BY <2>1 DEF Admit, Handler, HandlerFault, EnqueueOk, EnqueueRaises, EnqueueRepeats,
                MarkEnqueueFailed, ApiCrash, XAdd, streamVars
  <2>2. ASSUME NEW w \in Workers, ReadNew(w) \/ ReadReplyLost(w)
        PROVE  pel' = pel \/ \E e \in Undelivered : XReadGroup(e)
    BY <2>2 DEF ReadNew, ReadReplyLost, streamVars
  <2>3. ASSUME NEW w \in Workers,
               \/ \E S \in SUBSET pel : Reclaim(w, S)
               \/ Bury(w) \/ Ack(w) \/ Del(w)
        PROVE  pel' \subseteq pel
    BY <2>3 DEF Reclaim, Bury, Ack, Del, XAutoClaim, XAddDead, XAck, XDel
  <2>4. ASSUME NEW w \in Workers,
               \/ Check(w) \/ HandleNext(w) \/ Load(w) \/ Start(w) \/ Download(w)
               \/ Upload(w) \/ Book(w) \/ Fail(w) \/ Recover(w) \/ Restart(w)
        PROVE  UNCHANGED streamVars
    BY <2>4 DEF Check, HandleNext, Load, Start, Download, Upload, Book, Fail, Recover, Restart
  <2>5. ASSUME NEW w \in Workers,
               \/ QueueError(w) \/ JobRaises(w) \/ UploadRaises(w) \/ AttemptRaises(w)
               \/ RecoverRaises(w) \/ Crash(w) \/ Sweep(w)
        PROVE  UNCHANGED streamVars
    BY <2>5 DEF QueueError, JobRaises, UploadRaises, AttemptRaises, RecoverRaises, Crash,
                Sweep, SweepSelect, SweepSave, SweepRaises
  <2>6. CASE UNCHANGED streamVars
    BY <2>6 DEF streamVars
  <2>7. CASE UNCHANGED vars
    BY <2>6, <2>7 DEF vars
  <2>. QED
    BY <2>1, <2>2, <2>3, <2>4, <2>5, <2>6, <2>7 DEF Next, WorkerStep, WorkerFault
<1>3. ASSUME NEW e \in Undelivered, XReadGroup(e) PROVE pel' \subseteq 1..lastDelivered'
  <2>1. e \in 1..lastDelivered' /\ pel' = pel \cup {e}
    BY <1>3, XReadGroupStep DEF TypeInv, TypeOK, XReadGroup
  <2>. QED
    BY <1>1, <2>1
<1>4. CASE pel' \subseteq pel
  <2>1. 1..lastDelivered \subseteq 1..lastDelivered'
    BY <1>1
  <2>. QED
    BY <1>1, <1>4, <2>1
<1>. QED
  BY <1>2, <1>3, <1>4

RowsOK ==
  /\ status \in [Requests -> Statuses]
  /\ api \in [Requests -> {"idle", "enqueue", "failing", "done"}]
  /\ sweeping \in [Workers -> SUBSET Requests]
  /\ faults \in 0..MaxFaults

HistoryOK ==
  /\ sent \in [Workers -> [Requests -> Nat]]
  /\ booked \in [Workers -> [Requests -> Nat]]
  /\ attempts \in [Requests -> Nat]
  /\ lapsed \subseteq Requests

\* The rows and the fault counter keep their types.
LEMMA NextRows == TypeInv /\ [Next]_vars => RowsOK'
<1>. SUFFICES ASSUME TypeInv, [Next]_vars PROVE RowsOK'
  OBVIOUS
<1>0. RowsOK
  BY DEF TypeInv, TypeOK, RowsOK
<1>. USE <1>0, PipelineAssumption DEF RowsOK, Statuses, InFlight, Settled, Fault, rowVars
<1>1. ASSUME NEW r \in Requests, Admit(r) \/ EnqueueOk(r) \/ MarkEnqueueFailed(r) PROVE RowsOK'
  BY <1>1 DEF Admit, EnqueueOk, MarkEnqueueFailed
<1>2. ASSUME NEW r \in Requests, HandlerFault(r) PROVE RowsOK'
  BY <1>2 DEF HandlerFault, EnqueueRaises, EnqueueRepeats, ApiCrash
<1>3. ASSUME NEW w \in Workers, NEW S \in SUBSET pel, Reclaim(w, S) PROVE RowsOK'
  BY <1>3 DEF Reclaim
<1>4. ASSUME NEW w \in Workers,
             \/ Check(w) \/ Bury(w) \/ HandleNext(w) \/ ReadNew(w) \/ Load(w) \/ Download(w)
             \/ Upload(w) \/ Recover(w) \/ Ack(w) \/ Del(w) \/ Restart(w)
      PROVE  UNCHANGED <<status, api, sweeping, faults>>
  BY <1>4 DEF Check, Bury, HandleNext, ReadNew, Load, Download, Upload, Recover, Ack, Del, Restart
<1>5. ASSUME NEW w \in Workers,
             ReadReplyLost(w) \/ QueueError(w) \/ UploadRaises(w) \/ RecoverRaises(w)
      PROVE  UNCHANGED <<status, api, sweeping>> /\ Fault
  BY <1>5 DEF ReadReplyLost, QueueError, UploadRaises, RecoverRaises
<1>6. ASSUME NEW w \in Workers, Crash(w) PROVE RowsOK'
  BY <1>6 DEF Crash
<1>7. ASSUME NEW w \in Workers, Sweep(w) PROVE RowsOK'
  BY <1>7 DEF Sweep, SweepSelect, SweepSave, SweepRaises
<1>8. ASSUME NEW w \in Workers, Start(w) \/ Book(w) \/ Fail(w) \/ JobRaises(w) \/ AttemptRaises(w)
      PROVE  RowsOK'
  BY <1>8 DEF Start, Book, Fail, JobRaises, AttemptRaises, MarkStarted, MarkCompleted, MarkFailed
<1>9. CASE UNCHANGED vars
  BY <1>9 DEF vars
<1>10. CASE UNCHANGED <<status, api, sweeping>> /\ (UNCHANGED faults \/ Fault)
  BY <1>10
<1>. QED
  BY <1>1, <1>2, <1>3, <1>4, <1>5, <1>6, <1>7, <1>8, <1>9, <1>10
     DEF Next, Handler, WorkerStep, WorkerFault

\* What a step may do to the two books, and how a worker comes to "book".
Delivers(w) ==
  /\ At(w, "upload") /\ (Goto(w, "book") \/ Goto(w, "fail"))
  /\ sent' = [sent EXCEPT ![w][Req(w)] = @ + 1]
  /\ UNCHANGED <<status, booked>>

Debits(w) ==
  /\ At(w, "book") /\ (Goto(w, "ack") \/ Goto(w, "recover"))
  /\ MarkCompleted(w)
  /\ UNCHANGED sent

QuietBooks ==
  /\ UNCHANGED <<sent, booked>>
  /\ \A r \in Requests : status'[r] = "completed" => status[r] = "completed"

QuietWorkers ==
  \A w \in Workers : At(w, "book")' => At(w, "book") /\ worker'[w] = worker[w]

Quiet == QuietBooks /\ QuietWorkers

\* A worker that moves to any other place does not come to "book".
LEMMA GotoQuiet ==
  ASSUME worker \in [Workers -> Worker], NEW w \in Workers, NEW pc \in WorkerPCs \ {"book"},
         Goto(w, pc)
  PROVE  QuietWorkers
BY DEF Goto, QuietWorkers, At, Worker

\* Every step delivers a file, debits one, or leaves the books alone.
LEMMA NextBooks ==
  TypeInv /\ [Next]_vars => Quiet \/ \E w \in Workers : Delivers(w) \/ Debits(w)
<1>. SUFFICES ASSUME TypeInv, [Next]_vars
              PROVE  Quiet \/ \E w \in Workers : Delivers(w) \/ Debits(w)
  OBVIOUS
<1>0. worker \in [Workers -> Worker] /\ status \in [Requests -> Statuses]
  BY DEF TypeInv, TypeOK
<1>1. ASSUME NEW r \in Requests, Admit(r) \/ Handler(r) \/ HandlerFault(r) PROVE Quiet
  BY <1>0, <1>1 DEF Admit, Handler, HandlerFault, EnqueueOk, EnqueueRaises, EnqueueRepeats,
              MarkEnqueueFailed, ApiCrash, Quiet, QuietBooks, QuietWorkers, At, rowVars, historyVars
<1>2. ASSUME NEW w \in Workers, \E S \in SUBSET pel : Reclaim(w, S) PROVE Quiet
  BY <1>0, <1>2 DEF Reclaim, Quiet, QuietBooks, QuietWorkers, At, rowVars, historyVars, Worker
<1>3. ASSUME NEW w \in Workers, Check(w) \/ HandleNext(w) \/ ReadNew(w) \/ Load(w) PROVE Quiet
  <2>1. QuietBooks
    BY <1>3 DEF QuietBooks, Check, HandleNext, ReadNew, Load, rowVars, historyVars
  <2>2. QuietWorkers
    <3>1. CASE \E pc \in {"handle", "read", "reclaim"} : Goto(w, pc)
      BY <1>0, <3>1, GotoQuiet DEF WorkerPCs
    <3>2. ASSUME NEW x, worker' = [worker EXCEPT ![w] = x], x.pc # "book" PROVE QuietWorkers
      BY <1>0, <3>2 DEF QuietWorkers, At
    <3>3. CASE Check(w)
      <4>1. ASSUME NEW e \in worker[w].claimed
            PROVE  GivenUp(worker[w], e).pc # "book" /\ Kept(worker[w], e).pc # "book"
        <5>1. worker[w] \in Worker /\ worker[w].pc = "check"
          BY <1>0, <3>3 DEF Check, At
        <5>. QED
          BY <5>1 DEF GivenUp, Kept, Worker
      <4>. QED
        BY <3>1, <3>2, <3>3, <4>1 DEF Check
    <3>4. CASE HandleNext(w)
      <4>1. ASSUME NEW e \in worker[w].ready,
                   worker' = [worker EXCEPT ![w].ready = @ \ {e}, ![w].entry = e,
                                            ![w].via = "reclaimed", ![w].pc = "load"]
            PROVE  QuietWorkers
        BY <1>0, <4>1 DEF QuietWorkers, At, Worker
      <4>. QED
        BY <3>1, <3>4, <4>1 DEF HandleNext
    <3>5. CASE ReadNew(w)
      <4>1. ASSUME NEW e \in Undelivered,
                   worker' = [worker EXCEPT ![w].entry = e, ![w].via = "new", ![w].pc = "load"]
            PROVE  QuietWorkers
        BY <1>0, <4>1 DEF QuietWorkers, At, Worker
      <4>. QED
        BY <3>1, <3>5, <4>1 DEF ReadNew
    <3>6. CASE Load(w)
      BY <1>0, <3>6 DEF Load, QuietWorkers, At, Worker
    <3>. QED
      BY <1>3, <3>3, <3>4, <3>5, <3>6
  <2>. QED
    BY <2>1, <2>2 DEF Quiet
<1>4. ASSUME NEW w \in Workers,
             \/ Bury(w) \/ Download(w) \/ Recover(w) \/ Ack(w) \/ Restart(w) \/ ReadReplyLost(w)
             \/ RecoverRaises(w) \/ Start(w) \/ Fail(w)
      PROVE  Quiet
  <2>1. QuietBooks
    BY <1>0, <1>4 DEF Bury, Download, Recover, Ack, Restart, ReadReplyLost, RecoverRaises, Start,
                      Fail, MarkStarted, MarkFailed, QuietBooks, rowVars, historyVars
  <2>2. \E pc \in WorkerPCs \ {"book"} : Goto(w, pc)
    BY <1>4 DEF Bury, Download, Recover, Ack, Restart, ReadReplyLost, RecoverRaises, Start,
                Fail, WorkerPCs, Attempting
  <2>. QED
    BY <1>0, <2>1, <2>2, GotoQuiet DEF Quiet
<1>5. ASSUME NEW w \in Workers, QueueError(w) \/ Crash(w) PROVE Quiet
  BY <1>0, <1>5 DEF QueueError, Crash, Booting, Stopped, Quiet, QuietBooks, QuietWorkers, At,
                    rowVars, historyVars
<1>6. ASSUME NEW w \in Workers, Del(w) \/ JobRaises(w) PROVE Quiet
  <2>1. QuietBooks
    BY <1>0, <1>6 DEF Del, JobRaises, MarkStarted, QuietBooks, rowVars, historyVars
  <2>2. PutAside(w) /\ Resume(w) # "book"
    BY <1>0, <1>6 DEF Del, JobRaises, Resume, Worker
  <2>3. QuietWorkers
    BY <1>0, <2>2 DEF PutAside, QuietWorkers, At, Worker
  <2>. QED
    BY <2>1, <2>3 DEF Quiet
<1>8. ASSUME NEW w \in Workers, Sweep(w) PROVE Quiet
  BY <1>0, <1>8 DEF Sweep, SweepSelect, SweepSave, SweepRaises, Quiet, QuietBooks, QuietWorkers,
                    At, rowVars, historyVars
<1>9. ASSUME NEW w \in Workers, Upload(w) \/ UploadRaises(w) PROVE Quiet \/ Delivers(w)
  <2>1. CASE Upload(w)
    BY <2>1 DEF Upload, Delivers, rowVars
  <2>2. CASE UploadRaises(w) /\ sent' = sent
    BY <1>0, <2>2, GotoQuiet
       DEF UploadRaises, Quiet, QuietBooks, rowVars, WorkerPCs, Attempting
  <2>3. CASE UploadRaises(w) /\ sent' # sent
    BY <2>3 DEF UploadRaises, Delivers, rowVars
  <2>. QED
    BY <1>9, <2>1, <2>2, <2>3
<1>10. ASSUME NEW w \in Workers, Book(w) PROVE Debits(w)
  BY <1>10 DEF Book, Debits
<1>11. ASSUME NEW w \in Workers, AttemptRaises(w) PROVE Quiet \/ Debits(w)
  <2>1. Goto(w, "recover") /\ UNCHANGED sent
    BY <1>11 DEF AttemptRaises
  <2>2. QuietBooks \/ (At(w, "book") /\ MarkCompleted(w))
    BY <1>0, <1>11 DEF AttemptRaises, MarkFailed, QuietBooks
  <2>. QED
    BY <1>0, <2>1, <2>2, GotoQuiet DEF Quiet, Debits, WorkerPCs, Attempting
<1>12. CASE UNCHANGED vars
  BY <1>12 DEF vars, historyVars, rowVars, Quiet, QuietBooks, QuietWorkers, At
<1>. QED
  BY <1>1, <1>2, <1>3, <1>4, <1>5, <1>6, <1>8, <1>9, <1>10, <1>11, <1>12
     DEF Next, WorkerStep, WorkerFault

\* The histories keep their types.
LEMMA NextHistory == TypeInv /\ [Next]_vars => HistoryOK'
<1>. SUFFICES ASSUME TypeInv, [Next]_vars PROVE HistoryOK'
  OBVIOUS
<1>0. HistoryOK
  BY DEF TypeInv, TypeOK, HistoryOK
<1>1. sent' \in [Workers -> [Requests -> Nat]] /\ booked' \in [Workers -> [Requests -> Nat]]
  <2>1. CASE Quiet
    BY <1>0, <2>1 DEF Quiet, QuietBooks, HistoryOK
  <2>2. ASSUME NEW w \in Workers, Delivers(w) \/ Debits(w)
        PROVE  sent' \in [Workers -> [Requests -> Nat]] /\ booked' \in [Workers -> [Requests -> Nat]]
    <3>1. Req(w) \in Requests
      BY <2>2, ReqTyped DEF Delivers, Debits, At, Busy, WorkerPCs, Attempting
    <3>2. CASE Delivers(w)
      BY <1>0, <3>1, <3>2 DEF Delivers, HistoryOK
    <3>3. CASE Debits(w)
      BY <1>0, <3>1, <3>3 DEF Debits, MarkCompleted, HistoryOK
    <3>. QED
      BY <2>2, <3>2, <3>3
  <2>. QED
    BY <2>1, <2>2, NextBooks
<1>2. attempts' \in [Requests -> Nat] /\ lapsed' \subseteq Requests
  <2>1. ASSUME NEW w \in Workers, At(w, "start") \/ At(w, "recover") \/ At(w, "refail")
        PROVE  Req(w) \in Requests
    BY <2>1, ReqTyped DEF At, Busy, WorkerPCs, Attempting
  <2>2. \/ UNCHANGED <<attempts, lapsed>>
        \/ \E w \in Workers : At(w, "start") /\ UNCHANGED lapsed
                                /\ attempts' = [attempts EXCEPT ![Req(w)] = @ + 1]
        \/ \E w \in Workers : /\ At(w, "recover") \/ At(w, "refail")
                              /\ lapsed' = lapsed \cup {Req(w)} /\ UNCHANGED attempts
    <3>1. ASSUME NEW r \in Requests, Admit(r) \/ Handler(r) \/ HandlerFault(r)
          PROVE  UNCHANGED <<attempts, lapsed>>
      BY <3>1 DEF Admit, Handler, HandlerFault, EnqueueOk, EnqueueRaises, EnqueueRepeats,
                  MarkEnqueueFailed, ApiCrash, historyVars
    <3>2. ASSUME NEW w \in Workers, Start(w)
          PROVE  /\ At(w, "start") /\ UNCHANGED lapsed
                 /\ attempts' = [attempts EXCEPT ![Req(w)] = @ + 1]
      BY <3>2 DEF Start
    <3>3. ASSUME NEW w \in Workers, RecoverRaises(w)
          PROVE  /\ At(w, "recover") \/ At(w, "refail")
                 /\ lapsed' = lapsed \cup {Req(w)} /\ UNCHANGED attempts
      BY <3>3 DEF RecoverRaises, At
    <3>4. ASSUME NEW w \in Workers,
                 \/ \E S \in SUBSET pel : Reclaim(w, S)
                 \/ Check(w) \/ Bury(w) \/ HandleNext(w) \/ ReadNew(w) \/ Load(w) \/ Download(w)
                 \/ Upload(w) \/ Book(w) \/ Fail(w) \/ Recover(w) \/ Ack(w) \/ Del(w) \/ Restart(w)
          PROVE  UNCHANGED <<attempts, lapsed>>
      BY <3>4 DEF Reclaim, Check, Bury, HandleNext, ReadNew, Load, Download, Upload, Book, Fail,
                  Recover, Ack, Del, Restart, historyVars
    <3>5. ASSUME NEW w \in Workers,
                 \/ ReadReplyLost(w) \/ QueueError(w) \/ JobRaises(w) \/ UploadRaises(w)
                 \/ AttemptRaises(w) \/ Crash(w) \/ Sweep(w)
          PROVE  UNCHANGED <<attempts, lapsed>>
      BY <3>5 DEF ReadReplyLost, QueueError, JobRaises, UploadRaises, AttemptRaises, Crash,
                  Sweep, SweepSelect, SweepSave, SweepRaises, historyVars
    <3>6. CASE UNCHANGED vars
      BY <3>6 DEF vars, historyVars
    <3>. QED
      BY <3>1, <3>2, <3>3, <3>4, <3>5, <3>6 DEF Next, WorkerStep, WorkerFault
  <2>. QED
    BY <1>0, <2>1, <2>2 DEF HistoryOK
<1>. QED
  BY <1>1, <1>2 DEF HistoryOK

\* Every step preserves the inductive invariant.
LEMMA NextTypeInv == TypeInv /\ [Next]_vars => TypeInv'
BY NextRows, NextHistory, NextStream, NextPending, NextWorkers
   DEF TypeInv, TypeOK, RowsOK, HistoryOK

\* It holds of freshly started processes and an empty stream.
LEMMA InitTypeInv == Init => TypeInv
<1>. SUFFICES ASSUME Init PROVE TypeInv
  OBVIOUS
<1>1. Knows(Booting, 0)
  BY DEF Knows, Booting, Worker, WorkerPCs, Busy, Statuses
<1>2. StreamTypeOK /\ pel \subseteq 1..0 /\ lastDelivered = 0
  BY DEF Init, StreamInit, StreamTypeOK, Entry
<1>3. worker \in [Workers -> Worker] /\ \A w \in Workers : Knows(worker[w], 0)
  BY <1>1 DEF Init, Knows
<1>. QED
  BY <1>2, <1>3, PipelineAssumption DEF Init, TypeInv, TypeOK, Statuses

\* Every variable keeps its type, however many workers, requests and faults.
THEOREM TypeCorrect == Spec => []TypeOK
<1>1. TypeInv => TypeOK
  BY DEF TypeInv
<1>. QED
  BY <1>1, InitTypeInv, NextTypeInv, PTL DEF Spec

----------------------------------------------------------------------------
(* Accounting: a debit that is still to come counts as made.               *)

Owed(w, r) == IF At(w, "book") /\ Req(w) = r THEN 1 ELSE 0

Covered == \A w \in Workers, r \in Requests : booked[w][r] + Owed(w, r) <= sent[w][r]

\* An entry never changes its request while a worker is at it.
LEMMA ReqStable ==
  ASSUME TypeInv, [Next]_vars, NEW w \in Workers, worker[w].pc \in Busy,
         worker'[w].entry = worker[w].entry
  PROVE  Req(w)' = Req(w)
BY ReqTyped, NextStream DEF StreamGrows, Req

\* Every step leaves each worker with at least as many files sent as debits
\* made or owed: an upload adds one to both, a debit moves one from owed to made.
LEMMA NextCovered == TypeInv /\ Covered /\ [Next]_vars => Covered'
<1>. SUFFICES ASSUME TypeInv, Covered, [Next]_vars, NEW v \in Workers, NEW r \in Requests
              PROVE  (booked[v][r] + Owed(v, r) <= sent[v][r])'
  BY DEF Covered
<1>0. /\ booked[v][r] + Owed(v, r) <= sent[v][r]
      /\ booked[v][r] \in Nat /\ sent[v][r] \in Nat
      /\ worker \in [Workers -> Worker]
      /\ sent \in [Workers -> [Requests -> Nat]] /\ booked \in [Workers -> [Requests -> Nat]]
  BY DEF Covered, TypeInv, TypeOK
<1>1. ASSUME worker'[v] = worker[v], sent'[v][r] = sent[v][r], booked'[v][r] = booked[v][r]
      PROVE  (booked[v][r] + Owed(v, r) <= sent[v][r])'
  <2>1. Owed(v, r)' = Owed(v, r)
    <3>1. CASE At(v, "book")
      BY <1>1, <3>1, ReqStable DEF Owed, At, Busy, WorkerPCs, Attempting
    <3>2. CASE ~At(v, "book")
      BY <1>1, <3>2 DEF Owed, At
    <3>. QED
      BY <3>1, <3>2
  <2>. QED
    BY <1>0, <1>1, <2>1
<1>2. CASE Quiet
  <2>1. CASE At(v, "book")'
    BY <1>1, <1>2, <2>1 DEF Quiet, QuietBooks, QuietWorkers
  <2>2. CASE ~At(v, "book")'
    BY <1>0, <1>2, <2>2 DEF Quiet, QuietBooks, Owed
  <2>. QED
    BY <2>1, <2>2
<1>3. ASSUME NEW w \in Workers, Delivers(w) \/ Debits(w), w # v
      PROVE  (booked[v][r] + Owed(v, r) <= sent[v][r])'
  BY <1>0, <1>1, <1>3 DEF Delivers, Debits, MarkCompleted, Goto
<1>4. CASE Delivers(v)
  <2>1. worker'[v].entry = worker[v].entry /\ worker[v].pc = "upload"
    BY <1>0, <1>4 DEF Delivers, Goto, At, Worker
  <2>2. Req(v)' = Req(v) /\ Req(v) \in Requests
    BY <2>1, ReqStable, ReqTyped DEF Busy, WorkerPCs, Attempting
  <2>3. sent'[v][r] = sent[v][r] + (IF Req(v) = r THEN 1 ELSE 0) /\ booked'[v][r] = booked[v][r]
    BY <1>0, <1>4, <2>2 DEF Delivers
  <2>4. /\ Owed(v, r) = 0 /\ Owed(v, r)' \in Nat
        /\ Owed(v, r)' <= (IF Req(v) = r THEN 1 ELSE 0)
    BY <2>1, <2>2 DEF Owed, At
  <2>. QED
    BY <1>0, <2>3, <2>4
<1>5. CASE Debits(v)
  <2>1. worker[v].pc = "book" /\ worker'[v].pc # "book"
    BY <1>0, <1>5 DEF Debits, Goto, At, Worker
  <2>2. Req(v) \in Requests
    BY <2>1, ReqTyped DEF Busy, WorkerPCs, Attempting
  <2>3. booked'[v][r] = booked[v][r] + (IF Req(v) = r THEN 1 ELSE 0) /\ sent'[v][r] = sent[v][r]
    BY <1>0, <1>5, <2>2 DEF Debits, MarkCompleted
  <2>4. Owed(v, r)' = 0 /\ Owed(v, r) = IF Req(v) = r THEN 1 ELSE 0
    BY <2>1 DEF Owed, At
  <2>. QED
    BY <1>0, <2>3, <2>4
<1>. QED
  BY <1>2, <1>3, <1>4, <1>5, NextBooks

\* No worker debits a download it has not delivered, whoever else is at the same
\* request (the order of upload and consume_download in process_job).
THEOREM DebitsAreDelivered == Spec => []NoDebitWithoutDelivery
<1>1. Init => Covered
  <2>. SUFFICES ASSUME Init, NEW w \in Workers, NEW r \in Requests
                PROVE  booked[w][r] + Owed(w, r) <= sent[w][r]
    BY DEF Covered
  <2>1. worker[w].pc = "reclaim" /\ booked[w][r] = 0 /\ sent[w][r] = 0
    BY DEF Init, Booting
  <2>. QED
    BY <2>1 DEF Owed, At
<1>2. TypeInv /\ Covered => NoDebitWithoutDelivery
  <2>. SUFFICES ASSUME TypeInv, Covered, NEW w \in Workers, NEW r \in Requests
                PROVE  booked[w][r] <= sent[w][r]
    BY DEF NoDebitWithoutDelivery
  <2>1. booked[w][r] + Owed(w, r) <= sent[w][r] /\ booked[w][r] \in Nat /\ sent[w][r] \in Nat
    BY DEF Covered, TypeInv, TypeOK
  <2>. QED
    BY <2>1 DEF Owed
<1>. QED
  BY <1>1, <1>2, NextCovered, InitTypeInv, NextTypeInv, PTL DEF Spec

----------------------------------------------------------------------------
(* The queue: an entry is acknowledged before it is deleted.               *)

PelInv ==
  /\ PendingReadable
  /\ \A w \in Workers : At(w, "del") => worker[w].entry \notin pel

\* Nobody comes to "del" with an entry.
QuietDel ==
  \A w \in Workers : At(w, "del")' => At(w, "del") /\ worker'[w].entry = worker[w].entry

\* A worker that moves anywhere else does not come to "del".
LEMMA MoveQuietDel ==
  ASSUME worker \in [Workers -> Worker], NEW w \in Workers, NEW x, x.pc # "del",
         worker' = [worker EXCEPT ![w] = x]
  PROVE  QuietDel
BY DEF QuietDel, At

\* Only the acknowledgement of its entry brings a worker to "del".
LEMMA NextDel == TypeInv /\ [Next]_vars => QuietDel \/ \E w \in Workers : Ack(w)
<1>. SUFFICES ASSUME TypeInv, [Next]_vars PROVE QuietDel \/ \E w \in Workers : Ack(w)
  OBVIOUS
<1>0. worker \in [Workers -> Worker]
  BY DEF TypeInv, TypeOK
<1>1. ASSUME NEW w \in Workers, NEW pc \in WorkerPCs \ {"del"}, Goto(w, pc) PROVE QuietDel
  <2>. DEFINE x == [worker[w] EXCEPT !.pc = pc]
  <2>1. x.pc # "del"
    BY <1>0 DEF Worker
  <2>2. worker' = [worker EXCEPT ![w] = x]
    BY <1>1 DEF Goto
  <2>. QED
    BY <1>0, <2>1, <2>2, MoveQuietDel
<1>2. ASSUME NEW w \in Workers,
             \/ Bury(w) \/ Start(w) \/ Download(w) \/ Upload(w) \/ Book(w) \/ Fail(w) \/ Recover(w)
             \/ Restart(w) \/ ReadReplyLost(w) \/ UploadRaises(w) \/ AttemptRaises(w)
             \/ RecoverRaises(w)
      PROVE  QuietDel
  <2>1. \E pc \in WorkerPCs \ {"del"} : Goto(w, pc)
    BY <1>2 DEF Bury, Start, Download, Upload, Book, Fail, Recover, Restart, ReadReplyLost,
                UploadRaises, AttemptRaises, RecoverRaises, WorkerPCs, Attempting
  <2>. QED
    BY <1>1, <2>1
<1>3. ASSUME NEW w \in Workers, \E S \in SUBSET pel : Reclaim(w, S) PROVE QuietDel
  BY <1>0, <1>3 DEF Reclaim, QuietDel, At, Worker
<1>4. ASSUME NEW w \in Workers, Check(w) PROVE QuietDel
  <2>1. CASE Goto(w, "handle")
    BY <1>1, <2>1 DEF WorkerPCs
  <2>2. ASSUME NEW e \in worker[w].claimed, NEW x \in {GivenUp(worker[w], e), Kept(worker[w], e)},
               worker' = [worker EXCEPT ![w] = x]
        PROVE  QuietDel
    <3>0. worker[w] \in Worker /\ worker[w].pc = "check"
      BY <1>0, <1>4 DEF Check, At
    <3>1. x.pc # "del"
      BY <2>2, <3>0 DEF GivenUp, Kept, Worker
    <3>. QED
      BY <1>0, <2>2, <3>1, MoveQuietDel
  <2>. QED
    BY <1>4, <2>1, <2>2 DEF Check
<1>5. ASSUME NEW w \in Workers, HandleNext(w) \/ ReadNew(w) PROVE QuietDel
  <2>1. CASE \E pc \in {"read", "reclaim"} : Goto(w, pc)
    BY <1>1, <2>1 DEF WorkerPCs
  <2>2. ASSUME NEW e, worker' = [worker EXCEPT ![w].ready = @ \ {e}, ![w].entry = e,
                                               ![w].via = "reclaimed", ![w].pc = "load"]
        PROVE  QuietDel
    BY <1>0, <2>2 DEF QuietDel, At, Worker
  <2>3. ASSUME NEW e, worker' = [worker EXCEPT ![w].entry = e, ![w].via = "new",
                                               ![w].pc = "load"]
        PROVE  QuietDel
    BY <1>0, <2>3 DEF QuietDel, At, Worker
  <2>. QED
    BY <1>5, <2>1, <2>2, <2>3 DEF HandleNext, ReadNew
<1>6. ASSUME NEW w \in Workers, Load(w) PROVE QuietDel
  BY <1>0, <1>6 DEF Load, QuietDel, At, Worker
<1>7. ASSUME NEW w \in Workers, Del(w) \/ JobRaises(w) PROVE QuietDel
  <2>1. PutAside(w) /\ Resume(w) # "del"
    BY <1>0, <1>7 DEF Del, JobRaises, Resume, Worker
  <2>. QED
    BY <1>0, <2>1 DEF PutAside, QuietDel, At, Worker
<1>8. ASSUME NEW w \in Workers, QueueError(w) \/ Crash(w) PROVE QuietDel
  BY <1>0, <1>8 DEF QueueError, Crash, Booting, Stopped, QuietDel, At
<1>9. ASSUME NEW r \in Requests, Admit(r) \/ Handler(r) \/ HandlerFault(r) PROVE worker' = worker
  BY <1>9 DEF Admit, Handler, HandlerFault, EnqueueOk, EnqueueRaises, EnqueueRepeats,
              MarkEnqueueFailed, ApiCrash
<1>10. ASSUME NEW w \in Workers, Sweep(w) PROVE worker' = worker
  BY <1>10 DEF Sweep, SweepSelect, SweepSave, SweepRaises
<1>11. CASE worker' = worker
  BY <1>11 DEF QuietDel, At
<1>. QED
  BY <1>2, <1>3, <1>4, <1>5, <1>6, <1>7, <1>8, <1>9, <1>10, <1>11
     DEF Next, WorkerStep, WorkerFault, vars

\* Every step preserves it: an entry that is acknowledged does not become
\* pending again, because only undelivered entries do.
LEMMA NextPelInv == TypeInv /\ PelInv /\ [Next]_vars => PelInv'
<1>. SUFFICES ASSUME TypeInv, PelInv, [Next]_vars PROVE PelInv'
  OBVIOUS
<1>0. /\ worker \in [Workers -> Worker] /\ lastDelivered \in Nat /\ lastId \in Nat
      /\ \A w \in Workers : At(w, "del") => worker[w].entry \in 1..lastDelivered
  <2>1. ASSUME NEW w \in Workers, At(w, "del") PROVE worker[w].entry \in 1..lastDelivered
    BY <2>1 DEF TypeInv, Knows, At, Busy, WorkerPCs, Attempting
  <2>2. worker \in [Workers -> Worker] /\ lastDelivered \in Nat /\ lastId \in Nat
    BY DEF TypeInv, TypeOK, StreamTypeOK
  <2>. QED
    BY <2>1, <2>2
<1>1. CASE QuietDel /\ pel' = pel /\ stream \subseteq stream'
  BY <1>1 DEF QuietDel, PelInv, PendingReadable
<1>2. ASSUME NEW w \in Workers, Ack(w) PROVE PelInv'
  <2>1. pel' = pel \ {worker[w].entry} /\ stream' = stream
    BY <1>2 DEF Ack, XAck
  <2>2. \A v \in Workers : /\ worker'[v].entry = worker[v].entry
                           /\ At(v, "del")' => At(v, "del") \/ v = w
    BY <1>0, <1>2 DEF Ack, Goto, At, Worker
  <2>. QED
    BY <2>1, <2>2 DEF PelInv, PendingReadable
<1>3. ASSUME NEW e \in Undelivered, XReadGroup(e), QuietDel PROVE PelInv'
  <2>1. pel' = pel \cup {e} /\ stream' = stream /\ e \in stream /\ e \notin 1..lastDelivered
    BY <1>0, <1>3 DEF XReadGroup, Undelivered, TypeInv, TypeOK, StreamTypeOK
  <2>. QED
    BY <1>0, <1>3, <2>1 DEF PelInv, PendingReadable, QuietDel
<1>4. ASSUME NEW w \in Workers, Del(w), QuietDel PROVE PelInv'
  BY <1>4 DEF Del, XDel, At, QuietDel, PelInv, PendingReadable
<1>5. ASSUME NEW r \in Requests, Admit(r) \/ Handler(r) \/ HandlerFault(r)
      PROVE  pel' = pel /\ stream \subseteq stream'
  BY <1>5 DEF Admit, Handler, HandlerFault, EnqueueOk, EnqueueRaises, EnqueueRepeats,
              MarkEnqueueFailed, ApiCrash, XAdd, streamVars
<1>6. ASSUME NEW w \in Workers, WorkerStep(w) \/ WorkerFault(w) \/ Sweep(w)
      PROVE  \/ pel' = pel /\ stream' = stream
             \/ \E e \in Undelivered : XReadGroup(e)
             \/ Ack(w) \/ Del(w)
  <2>1. CASE ReadNew(w) \/ ReadReplyLost(w)
    BY <2>1 DEF ReadNew, ReadReplyLost, streamVars
  <2>2. CASE (\E S \in SUBSET pel : Reclaim(w, S)) \/ Bury(w)
    BY <2>2 DEF Reclaim, Bury, XAutoClaim, XAddDead
  <2>3. CASE \/ Check(w) \/ HandleNext(w) \/ Load(w) \/ Start(w) \/ Download(w)
             \/ Upload(w) \/ Book(w) \/ Fail(w) \/ Recover(w) \/ Restart(w)
    BY <2>3 DEF Check, HandleNext, Load, Start, Download, Upload, Book, Fail, Recover, Restart,
                streamVars
  <2>4. CASE \/ QueueError(w) \/ JobRaises(w) \/ UploadRaises(w) \/ AttemptRaises(w)
             \/ RecoverRaises(w) \/ Crash(w) \/ Sweep(w)
    BY <2>4 DEF QueueError, JobRaises, UploadRaises, AttemptRaises, RecoverRaises, Crash,
                Sweep, SweepSelect, SweepSave, SweepRaises, streamVars
  <2>. QED
    BY <1>6, <2>1, <2>2, <2>3, <2>4 DEF WorkerStep, WorkerFault
<1>7. CASE UNCHANGED vars
  BY <1>1, <1>7 DEF vars, streamVars, QuietDel, At
<1>8. ASSUME NEW w \in Workers, Ack(w) \/ Del(w) PROVE PelInv'
  BY <1>2, <1>4, <1>8, NextDel
<1>. QED
  BY <1>1, <1>2, <1>3, <1>5, <1>6, <1>7, <1>8, NextDel DEF Next

\* No reclaim ever finds a pending entry whose payload is gone, so the branch of
\* reclaim_stale for deleted entries is never taken.
THEOREM PendingEntriesReadable == Spec => []PendingReadable
<1>1. Init => PelInv
  <2>. SUFFICES ASSUME Init PROVE PelInv
    OBVIOUS
  <2>1. pel = {} /\ \A w \in Workers : worker[w].pc = "reclaim"
    BY DEF Init, StreamInit, Booting
  <2>. QED
    BY <2>1 DEF PelInv, PendingReadable, At
<1>2. PelInv => PendingReadable
  BY DEF PelInv
<1>. QED
  BY <1>1, <1>2, NextPelInv, InitTypeInv, NextTypeInv, PTL DEF Spec
----------------------------------------------------------------------------
(* The deployment runs one worker process.  With one worker, a request is  *)
(* debited at most once and no file follows the debit, however often its   *)
(* entry is redelivered, repeated or reclaimed, and whatever the intake    *)
(* handler and the sweep write to its row meanwhile: a booking settles the *)
(* row in its transaction, everybody else only ever writes "failed" to it, *)
(* and a worker tries a job only after reading its row as unsettled.       *)

\* From the check of the row to the booking.
Trying == {"start", "download", "upload", "book"}

\* Entries are added for admitted requests only.
EntriesAdmitted == \A e \in 1..lastId : api[log[e].req] # "idle"

BookedInv ==
  \A w \in Workers, r \in Requests :
    /\ booked[w][r] <= 1
    /\ booked[w][r] > 0 => /\ status[r] \in Settled /\ api[r] # "idle"
                           /\ ~(worker[w].pc \in Trying /\ Req(w) = r)

\* How a worker comes to be trying a job: it was already, or it has just read the
\* row as unsettled.
TryingStep ==
  \A w \in Workers : worker'[w].pc \in Trying =>
    /\ worker'[w].entry = worker[w].entry
    /\ \/ worker[w].pc \in Trying
       \/ At(w, "load") /\ status[Req(w)] \in InFlight

\* A worker that moves elsewhere is not trying.
LEMMA MoveTrying ==
  ASSUME worker \in [Workers -> Worker], NEW w \in Workers, NEW x, x.pc \notin Trying,
         worker' = [worker EXCEPT ![w] = x]
  PROVE  TryingStep
BY DEF TryingStep

\* A worker that goes on with its job was at it before.
LEMMA GotoTrying ==
  ASSUME worker \in [Workers -> Worker], NEW w \in Workers, NEW pc \in WorkerPCs, Goto(w, pc),
         worker[w].pc \in Trying \/ pc \notin Trying
  PROVE  TryingStep
BY DEF TryingStep, Goto, Worker

\* Every step keeps to that (process_job).
LEMMA NextTrying == TypeInv /\ [Next]_vars => TryingStep
<1>. SUFFICES ASSUME TypeInv, [Next]_vars PROVE TryingStep
  OBVIOUS
<1>0. worker \in [Workers -> Worker]
  BY DEF TypeInv, TypeOK
<1>1. ASSUME NEW w \in Workers,
             \/ Bury(w) \/ Fail(w) \/ Recover(w) \/ Restart(w) \/ ReadReplyLost(w)
             \/ UploadRaises(w) \/ AttemptRaises(w) \/ RecoverRaises(w) \/ Book(w) \/ Ack(w)
      PROVE  TryingStep
  <2>1. \E pc \in WorkerPCs \ Trying : Goto(w, pc)
    BY <1>1 DEF Bury, Fail, Recover, Restart, ReadReplyLost, UploadRaises, AttemptRaises,
                RecoverRaises, Book, Ack, WorkerPCs, Attempting, Trying
  <2>. QED
    BY <1>0, <2>1, GotoTrying
<1>2. ASSUME NEW w \in Workers, Start(w) \/ Download(w) \/ Upload(w) PROVE TryingStep
  <2>1. worker[w].pc \in Trying /\ \E pc \in WorkerPCs : Goto(w, pc)
    BY <1>2 DEF Start, Download, Upload, At, WorkerPCs, Attempting, Trying
  <2>. QED
    BY <1>0, <2>1, GotoTrying
<1>3. ASSUME NEW w \in Workers, \E S \in SUBSET pel : Reclaim(w, S) PROVE TryingStep
  BY <1>0, <1>3 DEF Reclaim, TryingStep, Trying, Worker
<1>4. ASSUME NEW w \in Workers, Check(w) PROVE TryingStep
  <2>1. CASE Goto(w, "handle")
    BY <1>0, <2>1, GotoTrying DEF WorkerPCs, Trying
  <2>2. ASSUME NEW e \in worker[w].claimed, NEW x \in {GivenUp(worker[w], e), Kept(worker[w], e)},
               worker' = [worker EXCEPT ![w] = x]
        PROVE  TryingStep
    <3>0. worker[w] \in Worker /\ worker[w].pc = "check"
      BY <1>0, <1>4 DEF Check, At
    <3>1. x.pc \notin Trying
      BY <2>2, <3>0 DEF GivenUp, Kept, Worker, Trying
    <3>. QED
      BY <1>0, <2>2, <3>1, MoveTrying
  <2>. QED
    BY <1>4, <2>1, <2>2 DEF Check
<1>5. ASSUME NEW w \in Workers, HandleNext(w) \/ ReadNew(w) PROVE TryingStep
  <2>1. CASE \E pc \in {"read", "reclaim"} : Goto(w, pc)
    BY <1>0, <2>1, GotoTrying DEF WorkerPCs, Trying
  <2>2. ASSUME NEW e, worker' = [worker EXCEPT ![w].ready = @ \ {e}, ![w].entry = e,
                                               ![w].via = "reclaimed", ![w].pc = "load"]
        PROVE  TryingStep
    BY <1>0, <2>2 DEF TryingStep, Trying, Worker
  <2>3. ASSUME NEW e, worker' = [worker EXCEPT ![w].entry = e, ![w].via = "new",
                                               ![w].pc = "load"]
        PROVE  TryingStep
    BY <1>0, <2>3 DEF TryingStep, Trying, Worker
  <2>. QED
    BY <1>5, <2>1, <2>2, <2>3 DEF HandleNext, ReadNew
<1>6. ASSUME NEW w \in Workers, Load(w) PROVE TryingStep
  BY <1>0, <1>6 DEF Load, TryingStep, Trying, At, Worker
<1>7. ASSUME NEW w \in Workers, Del(w) \/ JobRaises(w) PROVE TryingStep
  <2>1. PutAside(w) /\ Resume(w) \notin Trying
    BY <1>0, <1>7 DEF Del, JobRaises, Resume, Worker, Trying
  <2>. QED
    BY <1>0, <2>1 DEF PutAside, TryingStep, Worker
<1>8. ASSUME NEW w \in Workers, QueueError(w) \/ Crash(w) PROVE TryingStep
  BY <1>0, <1>8 DEF QueueError, Crash, Booting, Stopped, TryingStep, Trying
<1>9. ASSUME NEW r \in Requests, Admit(r) \/ Handler(r) \/ HandlerFault(r) PROVE worker' = worker
  BY <1>9 DEF Admit, Handler, HandlerFault, EnqueueOk, EnqueueRaises, EnqueueRepeats,
              MarkEnqueueFailed, ApiCrash
<1>10. ASSUME NEW w \in Workers, Sweep(w) PROVE worker' = worker
  BY <1>10 DEF Sweep, SweepSelect, SweepSave, SweepRaises
<1>11. CASE worker' = worker
  BY <1>11 DEF TryingStep
<1>. QED
  BY <1>1, <1>2, <1>3, <1>4, <1>5, <1>6, <1>7, <1>8, <1>9, <1>10, <1>11
     DEF Next, WorkerStep, WorkerFault, vars

\* Only the insert and the start of an attempt unsettle a row, and a handler
\* never forgets that it inserted one.
LEMMA NextStatus ==
  ASSUME TypeInv, [Next]_vars, NEW r \in Requests
  PROVE  /\ \/ status[r] \in Settled => status'[r] \in Settled
            \/ api[r] = "idle"
            \/ \E w \in Workers : At(w, "start") /\ Req(w) = r
         /\ api[r] # "idle" => api'[r] # "idle"
<1>. DEFINE Keeps == status[r] \in Settled => status'[r] \in Settled
            Goal == /\ \/ Keeps
                       \/ api[r] = "idle"
                       \/ \E w \in Workers : At(w, "start") /\ Req(w) = r
                    /\ api[r] # "idle" => api'[r] # "idle"
<1>. SUFFICES Goal
  OBVIOUS
<1>0. status \in [Requests -> Statuses]
        /\ api \in [Requests -> {"idle", "enqueue", "failing", "done"}]
  BY DEF TypeInv, TypeOK
<1>. USE <1>0 DEF Settled
<1>1. ASSUME NEW q \in Requests, Admit(q) \/ Handler(q) \/ HandlerFault(q) PROVE Goal
  BY <1>1 DEF Admit, Handler, HandlerFault, EnqueueOk, EnqueueRaises, EnqueueRepeats,
              MarkEnqueueFailed, ApiCrash, rowVars
<1>2. ASSUME NEW w \in Workers, Start(w) \/ JobRaises(w) PROVE Goal
  BY <1>2 DEF Start, JobRaises, MarkStarted
<1>3. ASSUME NEW w \in Workers, Book(w) \/ Fail(w) \/ AttemptRaises(w) PROVE Goal
  BY <1>3 DEF Book, Fail, AttemptRaises, MarkCompleted, MarkFailed
<1>4. ASSUME NEW w \in Workers, Sweep(w) \/ Crash(w) PROVE Goal
  BY <1>4 DEF Sweep, SweepSelect, SweepSave, SweepRaises, Crash, rowVars
<1>5. ASSUME NEW w \in Workers,
             \/ \E S \in SUBSET pel : Reclaim(w, S)
             \/ Check(w) \/ Bury(w) \/ HandleNext(w) \/ ReadNew(w) \/ Load(w) \/ Download(w)
             \/ Upload(w) \/ Recover(w) \/ Ack(w) \/ Del(w) \/ Restart(w) \/ ReadReplyLost(w)
             \/ QueueError(w) \/ UploadRaises(w) \/ RecoverRaises(w)
      PROVE  UNCHANGED rowVars
  BY <1>5 DEF Reclaim, Check, Bury, HandleNext, ReadNew, Load, Download, Upload, Recover, Ack,
              Del, Restart, ReadReplyLost, QueueError, UploadRaises, RecoverRaises, rowVars
<1>6. CASE UNCHANGED rowVars
  BY <1>6 DEF rowVars
<1>7. CASE UNCHANGED vars
  BY <1>6, <1>7 DEF vars
<1>. QED
  BY <1>1, <1>2, <1>3, <1>4, <1>5, <1>6, <1>7 DEF Next, WorkerStep, WorkerFault

\* Entries come from handlers that have inserted the row (download_request).
LEMMA NextEntries == TypeInv /\ EntriesAdmitted /\ [Next]_vars => EntriesAdmitted'
<1>. SUFFICES ASSUME TypeInv, EntriesAdmitted, [Next]_vars, NEW e \in 1..lastId'
              PROVE  api'[log'[e].req] # "idle"
  BY DEF EntriesAdmitted
<1>0. /\ lastId \in Nat /\ lastId' \in Nat /\ log \in [1..lastId -> Entry]
      /\ \A q \in 1..lastId : log'[q].req = log[q].req
  BY NextStream DEF TypeInv, TypeOK, StreamTypeOK, StreamGrows
<1>1. CASE e \in 1..lastId
  <2>1. log[e].req \in Requests /\ api[log[e].req] # "idle" /\ log'[e].req = log[e].req
    BY <1>0, <1>1 DEF EntriesAdmitted, Entry
  <2>. QED
    BY <2>1, NextStatus
<1>2. CASE e \notin 1..lastId
  <2>1. \/ lastId' = lastId
        \/ \E r \in Requests : XAdd(r) /\ api[r] = "enqueue"
    <3>1. ASSUME NEW r \in Requests, Admit(r) \/ Handler(r) \/ HandlerFault(r)
          PROVE  lastId' = lastId \/ (XAdd(r) /\ api[r] = "enqueue")
      BY <3>1 DEF Admit, Handler, HandlerFault, EnqueueOk, EnqueueRaises, EnqueueRepeats,
                  MarkEnqueueFailed, ApiCrash, streamVars
    <3>2. ASSUME NEW w \in Workers,
                 \/ \E S \in SUBSET pel : Reclaim(w, S)
                 \/ Bury(w) \/ ReadNew(w) \/ ReadReplyLost(w) \/ Ack(w) \/ Del(w)
          PROVE  lastId' = lastId
      BY <3>2 DEF Reclaim, Bury, ReadNew, ReadReplyLost, Ack, Del, XAutoClaim, XAddDead,
                  XReadGroup, XAck, XDel, streamVars
    <3>3. ASSUME NEW w \in Workers,
                 \/ Check(w) \/ HandleNext(w) \/ Load(w) \/ Start(w) \/ Download(w)
                 \/ Upload(w) \/ Book(w) \/ Fail(w) \/ Recover(w) \/ Restart(w)
          PROVE  UNCHANGED streamVars
      BY <3>3 DEF Check, HandleNext, Load, Start, Download, Upload, Book, Fail, Recover, Restart
    <3>4. ASSUME NEW w \in Workers,
                 \/ QueueError(w) \/ JobRaises(w) \/ UploadRaises(w) \/ AttemptRaises(w)
                 \/ RecoverRaises(w) \/ Crash(w) \/ Sweep(w)
          PROVE  UNCHANGED streamVars
      BY <3>4 DEF QueueError, JobRaises, UploadRaises, AttemptRaises, RecoverRaises, Crash,
                  Sweep, SweepSelect, SweepSave, SweepRaises
    <3>5. CASE UNCHANGED streamVars
      BY <3>5 DEF streamVars
    <3>6. CASE UNCHANGED vars
      BY <3>5, <3>6 DEF vars
    <3>. QED
      BY <3>1, <3>2, <3>3, <3>4, <3>5, <3>6 DEF Next, WorkerStep, WorkerFault
  <2>2. PICK r \in Requests : XAdd(r) /\ api[r] = "enqueue"
    BY <1>0, <1>2, <2>1
  <2>3. log'[e].req = r
    <3>1. log'[e] = [req |-> r, tries |-> 0, dead |-> 0]
      BY <1>0, <1>2, <2>2 DEF XAdd
    <3>. QED
      BY <3>1
  <2>. QED
    BY <2>2, <2>3, NextStatus
<1>. QED
  BY <1>1, <1>2

\* Every step of a lone worker and of the others preserves the invariant.
LEMMA NextBookedInv ==
  ASSUME NEW w, Workers = {w}
  PROVE  TypeInv /\ EntriesAdmitted /\ BookedInv /\ [Next]_vars => BookedInv'
<1>. SUFFICES ASSUME TypeInv, EntriesAdmitted, BookedInv, [Next]_vars, NEW r \in Requests
              PROVE  /\ booked'[w][r] <= 1
                     /\ booked'[w][r] > 0 =>
                          /\ status'[r] \in Settled /\ api'[r] # "idle"
                          /\ ~(worker'[w].pc \in Trying /\ Req(w)' = r)
  BY DEF BookedInv
<1>0. /\ booked[w][r] \in Nat /\ booked[w][r] <= 1
      /\ booked \in [Workers -> [Requests -> Nat]] /\ status \in [Requests -> Statuses]
      /\ worker \in [Workers -> Worker]
  BY DEF BookedInv, TypeInv, TypeOK
<1>1. CASE booked[w][r] > 0
  <2>1. /\ status[r] \in Settled /\ api[r] # "idle"
        /\ ~(worker[w].pc \in Trying /\ Req(w) = r)
    BY <1>1 DEF BookedInv
  <2>2. status'[r] \in Settled /\ api'[r] # "idle"
    BY <2>1, NextStatus DEF At, Trying
  <2>3. ASSUME worker'[w].pc \in Trying PROVE Req(w)' # r
    <3>1. /\ worker'[w].entry = worker[w].entry
          /\ worker[w].pc \in Trying \/ (At(w, "load") /\ status[Req(w)] \in InFlight)
      BY <2>3, NextTrying DEF TryingStep
    <3>2. worker[w].pc \in Busy
      BY <3>1 DEF At, Busy, WorkerPCs, Attempting, Trying
    <3>3. Req(w)' = Req(w)
      BY <3>1, <3>2, ReqStable
    <3>. QED
      BY <2>1, <3>1, <3>3 DEF InFlight, Settled
  <2>4. booked'[w][r] = booked[w][r]
    <3>1. CASE Quiet
      BY <3>1 DEF Quiet, QuietBooks
    <3>2. CASE Delivers(w)
      BY <3>2 DEF Delivers
    <3>3. CASE Debits(w)
      <4>1. Req(w) # r
        BY <2>1, <3>3 DEF Debits, At, Trying
      <4>. QED
        BY <1>0, <3>3, <4>1 DEF Debits, MarkCompleted
    <3>. QED
      BY <3>1, <3>2, <3>3, NextBooks
  <2>. QED
    BY <1>0, <2>2, <2>3, <2>4
<1>2. CASE booked[w][r] = 0 /\ Debits(w) /\ Req(w) = r
  <2>1. worker[w].entry \in 1..lastId
    BY <1>2, ReqTyped DEF Debits, At, Busy, WorkerPCs, Attempting
  <2>2. booked'[w][r] = 1 /\ status'[r] = "completed"
    BY <1>0, <1>2 DEF Debits, MarkCompleted
  <2>3. api'[r] # "idle"
    BY <1>2, <2>1, NextStatus DEF EntriesAdmitted, Req
  <2>4. worker'[w].pc \notin Trying
    BY <1>0, <1>2 DEF Debits, Goto, Trying, Worker
  <2>. QED
    BY <2>2, <2>3, <2>4 DEF Settled
<1>3. CASE booked[w][r] = 0 /\ ~(Debits(w) /\ Req(w) = r)
  <2>1. booked'[w][r] = 0
    <3>1. CASE Quiet \/ Delivers(w)
      BY <1>3, <3>1 DEF Quiet, QuietBooks, Delivers
    <3>2. CASE Debits(w) /\ Req(w) # r
      BY <1>0, <1>3, <3>2 DEF Debits, MarkCompleted
    <3>. QED
      BY <1>3, <3>1, <3>2, NextBooks
  <2>. QED
    BY <2>1
<1>. QED
  BY <1>0, <1>1, <1>2, <1>3

\* With one worker the invariant always holds.
LEMMA BookedInvariant ==
  ASSUME NEW w, Workers = {w}
  PROVE  Spec => [](TypeInv /\ EntriesAdmitted /\ BookedInv)
<1>1. Init => EntriesAdmitted
  BY DEF Init, StreamInit, EntriesAdmitted
<1>2. Init => BookedInv
  <2>. SUFFICES ASSUME Init, NEW v \in Workers, NEW r \in Requests
                PROVE  booked[v][r] <= 1 /\ ~(booked[v][r] > 0)
    BY DEF BookedInv
  <2>1. booked[v][r] = 0
    BY DEF Init
  <2>. QED
    BY <2>1
<1>. QED
  BY <1>1, <1>2, NextEntries, NextBookedInv, InitTypeInv, NextTypeInv, PTL DEF Spec

\* A single worker process never debits a request twice (process_job,
\* consume_download): redelivery, reclaim and a repeated XADD included.
THEOREM SingleWorkerDebitsOnce ==
  ASSUME NEW w, Workers = {w}
  PROVE  Spec => []DebitedOnce
<1>1. BookedInv => DebitedOnce
  BY DEF BookedInv, DebitedOnce
<1>. QED
  BY <1>1, BookedInvariant, PTL

\* With a single worker process a debited request is never in flight again: the
\* sweep and the intake handler only ever write "failed" over a booking, and no
\* redelivery restarts it (sweep_stale_requests, process_job).
THEOREM SingleWorkerKeepsSettled ==
  ASSUME NEW w, Workers = {w}
  PROVE  Spec => []DebitedStaysSettled
<1>1. BookedInv => DebitedStaysSettled
  BY DEF BookedInv, DebitedStaysSettled
<1>. QED
  BY <1>1, BookedInvariant, PTL

\* A single worker process sends no file for a request it has debited (the
\* settled-row check of process_job).
THEOREM SingleWorkerNeverResends ==
  ASSUME NEW v, Workers = {v}
  PROVE  Spec => NoResendAfterBooking
<1>. DEFINE NoResend == \A w \in Workers, r \in Requests :
                          booked[w][r] > 0 => sent'[w][r] = sent[w][r]
<1>1. TypeInv /\ BookedInv /\ [Next]_vars => [NoResend]_vars
  <2>. SUFFICES ASSUME TypeInv, BookedInv, [Next]_vars, NEW r \in Requests, booked[v][r] > 0
                PROVE  sent'[v][r] = sent[v][r]
    OBVIOUS
  <2>1. CASE Quiet \/ Debits(v)
    BY <2>1 DEF Quiet, QuietBooks, Debits
  <2>2. CASE Delivers(v)
    <3>1. Req(v) # r /\ sent \in [Workers -> [Requests -> Nat]]
      BY <2>2 DEF Delivers, At, BookedInv, Trying, TypeInv, TypeOK
    <3>. QED
      BY <2>2, <3>1 DEF Delivers
  <2>. QED
    BY <2>1, <2>2, NextBooks
<1>2. (Spec => [][NoResend]_vars) => (Spec => NoResendAfterBooking)
  BY DEF NoResendAfterBooking
<1>. HIDE DEF NoResend
<1>3. Spec => [](TypeInv /\ EntriesAdmitted /\ BookedInv)
  BY BookedInvariant
<1>4. Spec => [][NoResend]_vars
  BY <1>1, <1>3, PTL DEF Spec
<1>. QED
  BY <1>2, <1>4
----------------------------------------------------------------------------
(* The backlog: what the stream holds beyond the jobs that are to be done.  *)

\* Neither waiting nor pending, and nobody is about to delete it.
Stranded == {e \in stream \ (pel \cup Undelivered) :
               ~\E w \in Workers : At(w, "del") /\ worker[w].entry = e}

\* A worker that has acknowledged an entry stays until it has deleted it, unless
\* it crashes or the deletion raises.
StaysAtDel(v) ==
  At(v, "del") => \/ At(v, "del")' /\ worker'[v].entry = worker[v].entry
                  \/ Del(v)
                  \/ (QueueError(v) \/ Crash(v)) /\ Fault

\* The deletion, or a fault of the worker, is all that ends it.
LEMMA NextStays ==
  ASSUME TypeInv, [Next]_vars, NEW v \in Workers
  PROVE  StaysAtDel(v)
<1>. SUFFICES ASSUME At(v, "del") PROVE StaysAtDel(v)
  BY DEF StaysAtDel
<1>0. worker \in [Workers -> Worker] /\ worker[v].pc = "del"
  BY DEF TypeInv, TypeOK, At
<1>1. CASE worker'[v] = worker[v]
  BY <1>0, <1>1 DEF StaysAtDel, At
<1>2. CASE WorkerStep(v)
  BY <1>0, <1>2 DEF WorkerStep, Reclaim, Check, Bury, HandleNext, ReadNew, Load, Start, Download,
                    Upload, Book, Fail, Recover, Ack, Restart, At, StaysAtDel
<1>3. CASE WorkerFault(v)
  BY <1>0, <1>3 DEF WorkerFault, ReadReplyLost, QueueError, JobRaises, UploadRaises, AttemptRaises,
                    RecoverRaises, Crash, At, StaysAtDel
<1>4. ASSUME NEW w \in Workers, w # v, WorkerStep(w) PROVE worker'[v] = worker[v]
  BY <1>0, <1>4 DEF WorkerStep, Reclaim, Check, Bury, HandleNext, ReadNew, Load, Start, Download,
                    Upload, Book, Fail, Recover, Ack, Del, Restart, Goto, PutAside
<1>5. ASSUME NEW w \in Workers, w # v, WorkerFault(w) PROVE worker'[v] = worker[v]
  <2>1. \/ \E pc : Goto(w, pc)
        \/ PutAside(w)
        \/ \E x : worker' = [worker EXCEPT ![w] = x]
    BY <1>5 DEF WorkerFault, ReadReplyLost, QueueError, JobRaises, UploadRaises,
                AttemptRaises, RecoverRaises, Crash
  <2>. QED
    BY <1>0, <1>5, <2>1 DEF Goto, PutAside
<1>6. ASSUME NEW w \in Workers, Sweep(w) PROVE worker' = worker
  BY <1>6 DEF Sweep, SweepSelect, SweepSave, SweepRaises
<1>7. ASSUME NEW r \in Requests, Admit(r) \/ Handler(r) \/ HandlerFault(r) PROVE worker' = worker
  BY <1>7 DEF Admit, Handler, HandlerFault, EnqueueOk, EnqueueRaises, EnqueueRepeats,
              MarkEnqueueFailed, ApiCrash
<1>. QED
  BY <1>1, <1>2, <1>3, <1>4, <1>5, <1>6, <1>7 DEF Next, vars
\* What a step does to the queue.
LEMMA NextQueue ==
  ASSUME TypeInv, [Next]_vars
  PROVE  \/ UNCHANGED streamVars
         \/ \E r \in Requests : api[r] = "enqueue" /\ XAdd(r) /\ UNCHANGED <<status, worker, attempts, lapsed>>
         \/ \E w \in Workers : \E e \in Undelivered :
              XReadGroup(e) /\ (ReadNew(w) \/ ReadReplyLost(w))
         \/ \E w \in Workers : \E S \in SUBSET pel : Reclaim(w, S)
         \/ \E w \in Workers : Bury(w) \/ Ack(w) \/ Del(w)
<1>1. ASSUME NEW r \in Requests, Admit(r) \/ Handler(r) \/ HandlerFault(r)
      PROVE  \/ UNCHANGED streamVars
             \/ api[r] = "enqueue" /\ XAdd(r) /\ UNCHANGED <<status, worker, attempts, lapsed>>
  BY <1>1 DEF Admit, Handler, HandlerFault, EnqueueOk, EnqueueRaises, EnqueueRepeats,
              MarkEnqueueFailed, ApiCrash, rowVars, historyVars
<1>2. ASSUME NEW w \in Workers, ReadNew(w) \/ ReadReplyLost(w)
      PROVE  UNCHANGED streamVars \/ \E e \in Undelivered : XReadGroup(e)
  <2>1. CASE ReadNew(w)
    <3>1. UNCHANGED streamVars \/ \E e : e \in Undelivered /\ XReadGroup(e)
      BY <2>1, Zenon DEF ReadNew
    <3>. QED
      BY <3>1, Zenon
  <2>2. CASE ReadReplyLost(w)
    BY <2>2, Zenon DEF ReadReplyLost
  <2>. QED
    BY <1>2, <2>1, <2>2
<1>3. ASSUME NEW w \in Workers,
             \/ Check(w) \/ HandleNext(w) \/ Load(w) \/ Start(w) \/ Download(w)
             \/ Upload(w) \/ Book(w) \/ Fail(w) \/ Recover(w) \/ Restart(w)
      PROVE  UNCHANGED streamVars
  BY <1>3 DEF Check, HandleNext, Load, Start, Download, Upload, Book, Fail, Recover, Restart
<1>4. ASSUME NEW w \in Workers,
             \/ QueueError(w) \/ JobRaises(w) \/ UploadRaises(w) \/ AttemptRaises(w)
             \/ RecoverRaises(w) \/ Crash(w) \/ Sweep(w)
      PROVE  UNCHANGED streamVars
  BY <1>4 DEF QueueError, JobRaises, UploadRaises, AttemptRaises, RecoverRaises, Crash,
              Sweep, SweepSelect, SweepSave, SweepRaises
<1>5. CASE UNCHANGED vars
  BY <1>5 DEF vars
<1>. QED
  BY <1>1, <1>2, <1>3, <1>4, <1>5 DEF Next, WorkerStep, WorkerFault

\* Faults only add up.
LEMMA NextFaults ==
  ASSUME TypeInv, [Next]_vars
  PROVE  faults' = faults \/ Fault
<1>1. ASSUME NEW r \in Requests, Admit(r) \/ Handler(r) \/ HandlerFault(r)
      PROVE  faults' = faults \/ Fault
  BY <1>1 DEF Admit, Handler, HandlerFault, EnqueueOk, EnqueueRaises, EnqueueRepeats,
              MarkEnqueueFailed, ApiCrash
<1>2. ASSUME NEW w \in Workers, WorkerStep(w) PROVE faults' = faults
  BY <1>2 DEF WorkerStep, Reclaim, Check, Bury, HandleNext, ReadNew, Load, Start, Download,
              Upload, Book, Fail, Recover, Ack, Del, Restart
<1>3. ASSUME NEW w \in Workers, WorkerFault(w) \/ Sweep(w) PROVE faults' = faults \/ Fault
  BY <1>3 DEF WorkerFault, ReadReplyLost, QueueError, JobRaises, UploadRaises, AttemptRaises,
              RecoverRaises, Crash, Sweep, SweepSelect, SweepSave, SweepRaises
<1>. QED
  BY <1>1, <1>2, <1>3 DEF Next, vars

\* There are finitely many entries.
LEMMA EntriesFinite ==
  ASSUME NEW n \in Nat, NEW S \in SUBSET (1..n)
  PROVE  IsFiniteSet(S) /\ Cardinality(S) \in Nat
<1>1. IsFiniteSet(1..n)
  BY FS_Interval
<1>. QED
  BY <1>1, FS_Subset, FS_CardinalityType

\* An entry is stranded only by the fault of the worker that should have deleted it.
LEMMA NextStranded ==
  ASSUME TypeInv, [Next]_vars
  PROVE  \/ Stranded' \subseteq Stranded
         \/ /\ faults' = faults + 1
            /\ \E e : Stranded' \subseteq Stranded \cup {e}
<1>0. /\ stream \subseteq 1..lastId /\ lastId \in Nat /\ lastDelivered \in Nat
      /\ worker \in [Workers -> Worker]
  BY DEF TypeInv, TypeOK, StreamTypeOK
<1>1. ASSUME NEW e \in Stranded', e \notin Stranded
      PROVE  \E v \in Workers : /\ (QueueError(v) \/ Crash(v)) /\ Fault
                                /\ At(v, "del") /\ worker[v].entry = e
  <2>1. e \in stream' /\ e \notin pel' /\ e \notin Undelivered'
        /\ \A v \in Workers : ~(At(v, "del")' /\ worker'[v].entry = e)
    BY <1>1 DEF Stranded
  <2>2. e \in stream /\ e \notin pel /\ e \notin Undelivered
    <3>1. CASE UNCHANGED streamVars
      BY <2>1, <3>1 DEF streamVars, Undelivered
    <3>2. ASSUME NEW r \in Requests, XAdd(r) PROVE e \in stream /\ e \notin pel /\ e \notin Undelivered
      <4>1. e # lastId + 1
        BY <1>0, <2>1, <3>2 DEF XAdd, Undelivered, TypeInv, TypeOK, StreamTypeOK
      <4>. QED
        BY <2>1, <3>2, <4>1 DEF XAdd, Undelivered
    <3>3. ASSUME NEW q \in Undelivered, XReadGroup(q)
          PROVE  e \in stream /\ e \notin pel /\ e \notin Undelivered
      <4>1. e \in stream /\ e \notin pel /\ e # q /\ ~(e > q)
        BY <2>1, <3>3 DEF XReadGroup, Undelivered
      <4>2. e \in Nat /\ q \in Nat
        BY <1>0, <4>1 DEF Undelivered
      <4>. QED
        BY <3>3, <4>1, <4>2 DEF XReadGroup
    <3>4. ASSUME NEW w \in Workers, NEW S \in SUBSET pel, Reclaim(w, S)
          PROVE  e \in stream /\ e \notin pel /\ e \notin Undelivered
      BY <2>1, <3>4 DEF Reclaim, XAutoClaim, Undelivered
    <3>5. ASSUME NEW w \in Workers, Bury(w) \/ Del(w)
          PROVE  e \in stream /\ e \notin pel /\ e \notin Undelivered
      BY <2>1, <3>5 DEF Bury, Del, XAddDead, XDel, Undelivered
    <3>6. ASSUME NEW w \in Workers, Ack(w)
          PROVE  e \in stream /\ e \notin pel /\ e \notin Undelivered
      <4>1. At(w, "del")' /\ worker'[w].entry = worker[w].entry
        BY <1>0, <3>6 DEF Ack, Goto, At, Worker
      <4>. QED
        BY <2>1, <3>6, <4>1 DEF Ack, XAck, Undelivered
    <3>. QED
      BY <3>1, <3>2, <3>3, <3>4, <3>5, <3>6, NextQueue
  <2>3. PICK v \in Workers : At(v, "del") /\ worker[v].entry = e
    BY <1>1, <2>2 DEF Stranded
  <2>4. ~Del(v)
    BY <2>1, <2>3 DEF Del, XDel
  <2>. QED
    BY <2>1, <2>3, <2>4, NextStays DEF StaysAtDel
<1>2. CASE \E v \in Workers : QueueError(v) \/ Crash(v)
  <2>1. PICK v \in Workers : QueueError(v) \/ Crash(v)
    BY <1>2
  <2>2. \A u \in Workers \ {v} : worker'[u] = worker[u]
    BY <1>0, <2>1 DEF QueueError, Crash
  <2>3. \A u \in Workers : (QueueError(u) \/ Crash(u)) /\ At(u, "del") => u = v
    BY <1>0, <2>2 DEF QueueError, Crash, At, Booting, Stopped
  <2>4. Stranded' \subseteq Stranded \cup {worker[v].entry}
    BY <1>1, <2>3
  <2>5. faults' = faults + 1
    BY <2>1 DEF QueueError, Crash, Fault
  <2>. QED
    BY <2>4, <2>5
<1>. QED
  BY <1>1, <1>2

\* The backlog that XLEN shows is off by at most one entry for each fault, for any
\* number of workers (ack_and_remove, queue_length).
THEOREM BacklogBounded == Spec => []BacklogOffByFaults
<1>1. Init => BacklogOffByFaults
  <2>. SUFFICES ASSUME Init PROVE BacklogOffByFaults
    OBVIOUS
  <2>1. Stranded = {} /\ faults = 0
    BY DEF Init, StreamInit, Stranded
  <2>. QED
    BY <2>1, FS_EmptySet DEF BacklogOffByFaults, Stranded
<1>2. TypeInv /\ BacklogOffByFaults /\ [Next]_vars => BacklogOffByFaults'
  <2>. SUFFICES ASSUME TypeInv, BacklogOffByFaults, [Next]_vars
                PROVE  Cardinality(Stranded') <= faults'
    BY DEF BacklogOffByFaults, Stranded
  <2>1. /\ faults \in Nat /\ faults' \in Nat
        /\ IsFiniteSet(Stranded) /\ Cardinality(Stranded) \in Nat
        /\ Cardinality(Stranded') \in Nat
    <3>1. TypeInv'
      BY NextTypeInv
    <3>2. /\ lastId \in Nat /\ Stranded \in SUBSET (1..lastId)
          /\ lastId' \in Nat /\ Stranded' \in SUBSET (1..lastId')
      BY <3>1 DEF TypeInv, TypeOK, StreamTypeOK, Stranded
    <3>3. faults \in Nat /\ faults' \in Nat
      BY <3>1, PipelineAssumption DEF TypeInv, TypeOK
    <3>. QED
      BY <3>2, <3>3, EntriesFinite
  <2>2. Cardinality(Stranded) <= faults
    BY DEF BacklogOffByFaults, Stranded
  <2>3. CASE Stranded' \subseteq Stranded
    <3>1. Cardinality(Stranded') <= Cardinality(Stranded)
      BY <2>1, <2>3, FS_Subset
    <3>2. faults <= faults'
      BY <2>1, NextFaults DEF Fault
    <3>. QED
      BY <2>1, <2>2, <3>1, <3>2
  <2>4. CASE faults' = faults + 1 /\ \E e : Stranded' \subseteq Stranded \cup {e}
    <3>1. PICK e : Stranded' \subseteq Stranded \cup {e}
      BY <2>4
    <3>0. IsFiniteSet(Stranded \cup {e})
          /\ Cardinality(Stranded \cup {e})
               = IF e \in Stranded THEN Cardinality(Stranded) ELSE Cardinality(Stranded) + 1
      BY <2>1, FS_AddElement
    <3>2. IsFiniteSet(Stranded \cup {e})
          /\ Cardinality(Stranded \cup {e}) <= Cardinality(Stranded) + 1
          /\ Cardinality(Stranded \cup {e}) \in Nat
      BY <2>1, <3>0
    <3>3. Cardinality(Stranded') <= Cardinality(Stranded \cup {e})
      BY <3>1, <3>2, FS_Subset
    <3>. QED
      BY <2>1, <2>2, <2>4, <3>2, <3>3
  <2>. QED
    BY <2>3, <2>4, NextStranded
<1>. QED
  BY <1>1, <1>2, InitTypeInv, NextTypeInv, PTL DEF Spec
----------------------------------------------------------------------------
(* What each step does, field by field.                                    *)

SameBatch(w) ==
  worker'[w].claimed = worker[w].claimed /\ worker'[w].ready = worker[w].ready

Turns(w, pc) ==
  /\ worker'[w].pc = pc /\ worker'[w].entry = worker[w].entry
  /\ worker'[w].via = worker[w].via /\ worker'[w].seen = worker[w].seen /\ SameBatch(w)

Asides(w) ==
  /\ worker'[w].pc = Resume(w) /\ worker'[w].entry = 0 /\ worker'[w].via = "new"
  /\ SameBatch(w)

QuietRows == UNCHANGED <<status, api, attempts, lapsed>>

\* A handler or a sweep: rows are inserted, or fail; an entry may be added.
Elsewhere ==
  /\ UNCHANGED <<worker, attempts, lapsed>>
  /\ \/ UNCHANGED streamVars
     \/ \E r \in Requests : api[r] = "enqueue" /\ XAdd(r) /\ UNCHANGED status
  /\ \A r \in Requests :
       /\ \/ status'[r] \in {status[r], "failed"}
          \/ api[r] = "idle" /\ status'[r] = "queued"
       /\ api[r] = "idle" /\ api'[r] # "idle" => status'[r] = "queued"

Reclaims(w, S) ==
  /\ At(w, "reclaim") /\ S \subseteq pel /\ XAutoClaim(S) /\ QuietRows
  /\ worker'[w].pc = "check" /\ worker'[w].claimed = S
  /\ worker'[w].ready = worker[w].ready /\ worker'[w].via = worker[w].via

Checks(w) ==
  /\ At(w, "check") /\ UNCHANGED streamVars /\ QuietRows
  /\ \/ worker[w].claimed = {} /\ Turns(w, "handle")
     \/ \E e \in worker[w].claimed :
          /\ worker'[w].claimed = worker[w].claimed \ {e}
          /\ \/ /\ DeliveryCount(e) > MaxDeliveries /\ worker'[w].ready = worker[w].ready
                /\ worker'[w].pc = "bury" /\ worker'[w].via = "buried" /\ worker'[w].entry = e
             \/ /\ ~(DeliveryCount(e) > MaxDeliveries)
                /\ worker'[w].ready = worker[w].ready \cup {e}
                /\ worker'[w].pc = "check" /\ worker'[w].via = worker[w].via

Picks(w) ==
  /\ At(w, "handle") /\ UNCHANGED streamVars /\ QuietRows
  /\ \/ worker[w].ready = {} /\ Turns(w, "read")
     \/ \E e \in worker[w].ready :
          /\ worker'[w].claimed = worker[w].claimed /\ worker'[w].ready = worker[w].ready \ {e}
          /\ worker'[w].pc = "load" /\ worker'[w].via = "reclaimed" /\ worker'[w].entry = e

Reads(w) ==
  /\ At(w, "read") /\ QuietRows /\ SameBatch(w)
  /\ \/ UNCHANGED streamVars /\ Turns(w, "reclaim")
     \/ \E e \in Undelivered :
          /\ XReadGroup(e)
          /\ \/ Turns(w, "reclaim")
             \/ worker'[w].pc = "load" /\ worker'[w].via = "new" /\ worker'[w].entry = e

Stops(w) ==
  /\ UNCHANGED streamVars /\ QuietRows
  /\ worker'[w] \in {Booting, Stopped} \/ (At(w, "down") /\ Turns(w, "reclaim"))

Looks(w) ==
  /\ At(w, "load") /\ UNCHANGED streamVars /\ QuietRows /\ SameBatch(w)
  /\ worker'[w].entry = worker[w].entry /\ worker'[w].via = worker[w].via
  /\ worker'[w].seen = status[Req(w)]
  /\ worker'[w].pc = IF status[Req(w)] \in InFlight THEN "start" ELSE "ack"

Starts(w) ==
  /\ At(w, "start") /\ MarkStarted(w) /\ Turns(w, "download")
  /\ attempts' = [attempts EXCEPT ![Req(w)] = @ + 1]
  /\ UNCHANGED <<streamVars, api, lapsed>>

Drops(w) ==
  /\ \/ worker[w].pc \in {"load", "start", "recover"}
     \/ At(w, "ack") /\ worker[w].via # "buried"
  /\ Asides(w)
  /\ UNCHANGED status \/ (At(w, "start") /\ MarkStarted(w))
  /\ UNCHANGED <<streamVars, api, attempts, lapsed>>

\* During an attempt the row is completed or failed, or left alone; the entry is
\* acknowledged when it was, or was found so, or could not be.
Works(w) ==
  /\ worker[w].pc \in Attempting /\ UNCHANGED <<streamVars, api, attempts>>
  /\ lapsed \subseteq lapsed'
  /\ \/ UNCHANGED status
     \/ \E s \in Settled : status' = [status EXCEPT ![Req(w)] = s]
  /\ \/ \E pc \in Attempting : Turns(w, pc)
     \/ /\ Turns(w, "ack")
        /\ \/ \E s \in Settled : status' = [status EXCEPT ![Req(w)] = s]
           \/ Req(w) \in lapsed'
           \/ status[Req(w)] # "processing" /\ UNCHANGED status

Buries(w) == At(w, "bury") /\ XAddDead(worker[w].entry) /\ Turns(w, "ack") /\ QuietRows
Acks(w) == At(w, "ack") /\ XAck(worker[w].entry) /\ Turns(w, "del") /\ QuietRows
Deletes(w) == At(w, "del") /\ XDel(worker[w].entry) /\ Asides(w) /\ QuietRows

Moves(w) ==
  \/ \E S \in SUBSET pel : Reclaims(w, S)
  \/ Checks(w) \/ Picks(w) \/ Reads(w) \/ Stops(w) \/ Looks(w) \/ Starts(w) \/ Drops(w)
  \/ Works(w) \/ Buries(w) \/ Acks(w) \/ Deletes(w)

\* A jump changes the program counter only.
LEMMA GotoTurns ==
  ASSUME worker \in [Workers -> Worker], NEW w \in Workers, NEW pc, Goto(w, pc)
  PROVE  Turns(w, pc)
BY DEF Goto, Turns, SameBatch, Worker

\* A job that is put aside leaves the batch as it was.
LEMMA PutAsideAsides ==
  ASSUME worker \in [Workers -> Worker], NEW w \in Workers, PutAside(w)
  PROVE  Asides(w)
BY DEF PutAside, Asides, SameBatch, Worker

\* The steps of main, and what can go wrong in them.
LEMMA QueueMoves ==
  ASSUME TypeInv, NEW w \in Workers,
         \/ \E S \in SUBSET pel : Reclaim(w, S)
         \/ Check(w) \/ HandleNext(w) \/ ReadNew(w) \/ ReadReplyLost(w) \/ Restart(w)
         \/ QueueError(w) \/ Crash(w) \/ Bury(w) \/ Ack(w) \/ Del(w)
  PROVE  Moves(w)
<1>0. worker \in [Workers -> Worker] /\ worker[w] \in Worker
  BY DEF TypeInv, TypeOK
<1>1. ASSUME NEW S \in SUBSET pel, Reclaim(w, S) PROVE Reclaims(w, S)
  <2>1. worker' = [worker EXCEPT ![w] = [@ EXCEPT !.claimed = S, !.pc = "check"]]
    BY <1>1 DEF Reclaim
  <2>2. /\ worker'[w].pc = "check" /\ worker'[w].claimed = S
        /\ worker'[w].ready = worker[w].ready /\ worker'[w].via = worker[w].via
    BY <1>0, <2>1 DEF Worker
  <2>3. At(w, "reclaim") /\ XAutoClaim(S) /\ UNCHANGED <<rowVars, historyVars>>
    BY <1>1, Zenon DEF Reclaim
  <2>4. QuietRows
    BY <2>3 DEF QuietRows, rowVars, historyVars
  <2>. QED
    BY <2>2, <2>3, <2>4, Zenon DEF Reclaims
<1>2. CASE Check(w)
  <2>1. At(w, "check") /\ UNCHANGED streamVars /\ QuietRows
    BY <1>2 DEF Check, QuietRows, rowVars, historyVars
  <2>2. ASSUME worker[w].claimed = {}, Goto(w, "handle") PROVE Checks(w)
    BY <1>0, <2>1, <2>2, GotoTurns DEF Checks
  <2>3. ASSUME NEW e \in worker[w].claimed,
               worker' = [worker EXCEPT
                 ![w] = IF DeliveryCount(e) > MaxDeliveries
                        THEN GivenUp(@, e) ELSE Kept(@, e)]
        PROVE  Checks(w)
    <3>1. CASE DeliveryCount(e) > MaxDeliveries
      <4>1. worker'[w] = GivenUp(worker[w], e)
        BY <1>0, <2>3, <3>1
      <4>. QED
        BY <1>0, <2>1, <3>1, <4>1 DEF GivenUp, Checks, Worker
    <3>2. CASE ~(DeliveryCount(e) > MaxDeliveries)
      <4>1. worker'[w] = Kept(worker[w], e)
        BY <1>0, <2>3, <3>2
      <4>2. /\ worker'[w].claimed = worker[w].claimed \ {e}
            /\ worker'[w].ready = worker[w].ready \cup {e}
            /\ worker'[w].pc = "check" /\ worker'[w].via = worker[w].via
        BY <1>0, <2>1, <4>1 DEF Kept, At, Worker
      <4>. QED
        BY <2>1, <3>2, <4>2 DEF Checks
    <3>. QED
      BY <3>1, <3>2
  <2>4. \/ worker[w].claimed = {} /\ Goto(w, "handle")
        \/ \E e \in worker[w].claimed :
             worker' = [worker EXCEPT
               ![w] = IF DeliveryCount(e) > MaxDeliveries THEN GivenUp(@, e) ELSE Kept(@, e)]
    BY <1>2, Zenon DEF Check
  <2>5. Checks(w)
    BY <2>2, <2>3, <2>4, Zenon
  <2>. QED
    BY <2>5, Zenon DEF Moves
<1>3. CASE HandleNext(w)
  <2>1. At(w, "handle") /\ UNCHANGED streamVars /\ QuietRows
    BY <1>3 DEF HandleNext, QuietRows, rowVars, historyVars
  <2>2. ASSUME worker[w].ready = {}, Goto(w, "read") PROVE Picks(w)
    BY <1>0, <2>1, <2>2, GotoTurns DEF Picks
  <2>3. ASSUME NEW e \in worker[w].ready,
               worker' = [worker EXCEPT ![w].ready = @ \ {e}, ![w].entry = e,
                                        ![w].via = "reclaimed", ![w].pc = "load"]
        PROVE  Picks(w)
    <3>1. /\ worker'[w].claimed = worker[w].claimed /\ worker'[w].ready = worker[w].ready \ {e}
          /\ worker'[w].pc = "load" /\ worker'[w].via = "reclaimed" /\ worker'[w].entry = e
      BY <1>0, <2>3 DEF Worker
    <3>. QED
      BY <2>1, <3>1 DEF Picks
  <2>4. \/ worker[w].ready = {} /\ Goto(w, "read")
        \/ \E e \in worker[w].ready :
             worker' = [worker EXCEPT ![w].ready = @ \ {e}, ![w].entry = e,
                                      ![w].via = "reclaimed", ![w].pc = "load"]
    BY <1>3, Zenon DEF HandleNext
  <2>5. Picks(w)
    BY <2>2, <2>3, <2>4, Zenon
  <2>. QED
    BY <2>5, Zenon DEF Moves
<1>4. CASE ReadNew(w)
  <2>0. At(w, "read") /\ UNCHANGED <<rowVars, sweeping, faults, historyVars>>
    BY <1>4, Zenon DEF ReadNew
  <2>1. At(w, "read") /\ QuietRows
    BY <2>0 DEF QuietRows, rowVars, historyVars
  <2>2. ASSUME Goto(w, "reclaim"), UNCHANGED streamVars PROVE Reads(w)
    BY <1>0, <2>1, <2>2, GotoTurns DEF Reads, Turns
  <2>3. ASSUME NEW e \in Undelivered, XReadGroup(e),
               worker' = [worker EXCEPT ![w].entry = e, ![w].via = "new", ![w].pc = "load"]
        PROVE  Reads(w)
    <3>1. /\ SameBatch(w) /\ worker'[w].pc = "load" /\ worker'[w].via = "new"
          /\ worker'[w].entry = e
      BY <1>0, <2>3 DEF SameBatch, Worker
    <3>. QED
      BY <2>1, <2>3, <3>1 DEF Reads
  <2>4. \/ Goto(w, "reclaim") /\ UNCHANGED streamVars
        \/ \E e \in Undelivered :
             /\ XReadGroup(e)
             /\ worker' = [worker EXCEPT ![w].entry = e, ![w].via = "new", ![w].pc = "load"]
    BY <1>4, Zenon DEF ReadNew
  <2>5. Reads(w)
    BY <2>2, <2>3, <2>4, Zenon
  <2>. QED
    BY <2>5, Zenon DEF Moves
<1>5. CASE ReadReplyLost(w)
  <2>1. /\ At(w, "read") /\ QuietRows /\ Goto(w, "reclaim")
        /\ \E e \in Undelivered : XReadGroup(e)
    BY <1>5 DEF ReadReplyLost, QuietRows, rowVars, historyVars
  <2>. QED
    BY <1>0, <2>1, GotoTurns DEF Reads, Turns, Moves
<1>6. CASE QueueError(w) \/ Crash(w)
  BY <1>0, <1>6 DEF QueueError, Crash, Stops, QuietRows, rowVars, historyVars, Moves
<1>7. CASE Restart(w)
  BY <1>0, <1>7, GotoTurns DEF Restart, Stops, QuietRows, rowVars, historyVars, Moves
<1>8. CASE Bury(w) \/ Ack(w)
  BY <1>0, <1>8, GotoTurns DEF Bury, Ack, Buries, Acks, QuietRows, rowVars, historyVars, Moves
<1>9. CASE Del(w)
  BY <1>0, <1>9, PutAsideAsides DEF Del, Deletes, QuietRows, rowVars, historyVars, Moves
<1>. QED
  BY <1>1, <1>2, <1>3, <1>4, <1>5, <1>6, <1>7, <1>8, <1>9 DEF Moves

\* The steps of process_job, and what can go wrong in them.
LEMMA JobMoves ==
  ASSUME TypeInv, NEW w \in Workers,
         \/ Load(w) \/ Start(w) \/ Download(w) \/ Upload(w) \/ Book(w) \/ Fail(w) \/ Recover(w)
         \/ JobRaises(w) \/ UploadRaises(w) \/ AttemptRaises(w) \/ RecoverRaises(w)
  PROVE  Moves(w)
<1>0. worker \in [Workers -> Worker] /\ worker[w] \in Worker
  BY DEF TypeInv, TypeOK
<1>1. CASE Load(w)
  <2>1. /\ SameBatch(w) /\ worker'[w].entry = worker[w].entry /\ worker'[w].via = worker[w].via
        /\ worker'[w].seen = status[Req(w)]
        /\ worker'[w].pc = IF status[Req(w)] \in InFlight THEN "start" ELSE "ack"
    BY <1>0, <1>1 DEF Load, SameBatch, Worker
  <2>. QED
    BY <1>1, <2>1 DEF Load, Looks, QuietRows, rowVars, historyVars, Moves
<1>2. CASE Start(w)
  BY <1>0, <1>2, GotoTurns DEF Start, Starts, Moves
<1>3. CASE JobRaises(w)
  BY <1>0, <1>3, PutAsideAsides DEF JobRaises, Drops, historyVars, Moves
<1>4. ASSUME NEW pc \in Attempting, Goto(w, pc), worker[w].pc \in Attempting,
             UNCHANGED <<streamVars, api, attempts, lapsed>>,
             UNCHANGED status \/ \E s \in Settled : status' = [status EXCEPT ![Req(w)] = s]
      PROVE  Works(w)
  BY <1>0, <1>4, GotoTurns DEF Works
<1>5. CASE Download(w) \/ Upload(w) \/ UploadRaises(w)
  <2>1. /\ worker[w].pc \in Attempting /\ \E pc \in Attempting : Goto(w, pc)
        /\ UNCHANGED <<streamVars, api, attempts, lapsed, status>>
    BY <1>5 DEF Download, Upload, UploadRaises, rowVars, historyVars, At, Attempting
  <2>. QED
    BY <1>4, <2>1 DEF Moves
<1>6. CASE AttemptRaises(w)
  <2>1. /\ worker[w].pc \in Attempting /\ Goto(w, "recover") /\ "recover" \in Attempting
        /\ UNCHANGED <<streamVars, api, attempts, lapsed>>
        /\ UNCHANGED status \/ \E s \in Settled : status' = [status EXCEPT ![Req(w)] = s]
    BY <1>6 DEF AttemptRaises, MarkCompleted, MarkFailed, Settled, Attempting
  <2>. QED
    BY <1>4, <2>1 DEF Moves
<1>7. CASE Book(w) \/ Fail(w)
  <2>1. /\ worker[w].pc \in Attempting /\ Goto(w, "ack")
        /\ UNCHANGED <<streamVars, api, attempts, lapsed>>
        /\ \E s \in Settled : status' = [status EXCEPT ![Req(w)] = s]
    BY <1>7 DEF Book, Fail, MarkCompleted, MarkFailed, Settled, Attempting, At
  <2>. QED
    BY <1>0, <2>1, GotoTurns DEF Works, Moves
<1>8. CASE Recover(w)
  <2>1. /\ worker[w].pc \in Attempting
        /\ Goto(w, IF status[Req(w)] = "processing" THEN "refail" ELSE "ack")
        /\ UNCHANGED <<streamVars, api, attempts, lapsed, status>>
    BY <1>8 DEF Recover, rowVars, historyVars, Attempting, At
  <2>. QED
    BY <1>0, <2>1, GotoTurns DEF Works, Moves, Attempting
<1>9. CASE RecoverRaises(w)
  <2>1. /\ worker[w].pc \in Attempting /\ Goto(w, "ack")
        /\ lapsed' = lapsed \cup {Req(w)} /\ UNCHANGED <<streamVars, api, attempts, status>>
    BY <1>9 DEF RecoverRaises, rowVars, Attempting
  <2>. QED
    BY <1>0, <2>1, GotoTurns DEF Works, Moves
<1>. QED
  BY <1>1, <1>2, <1>3, <1>5, <1>6, <1>7, <1>8, <1>9

\* Every step is one of these, of one worker or of none.
LEMMA NextMoves ==
  ASSUME TypeInv, [Next]_vars
  PROVE  Elsewhere \/ \E w \in Workers : Moves(w)
<1>0. /\ status \in [Requests -> Statuses]
      /\ api \in [Requests -> {"idle", "enqueue", "failing", "done"}]
  BY DEF TypeInv, TypeOK
<1>1. ASSUME NEW r \in Requests, Admit(r) \/ Handler(r) \/ HandlerFault(r) PROVE Elsewhere
  <2>1. CASE Admit(r)
    BY <1>0, <2>1 DEF Admit, Elsewhere, historyVars
  <2>2. CASE EnqueueOk(r) \/ EnqueueRaises(r) \/ EnqueueRepeats(r)
    BY <1>0, <2>2 DEF EnqueueOk, EnqueueRaises, EnqueueRepeats, Elsewhere, historyVars, rowVars
  <2>3. CASE MarkEnqueueFailed(r) \/ ApiCrash(r)
    BY <1>0, <2>3 DEF MarkEnqueueFailed, ApiCrash, Elsewhere, historyVars
  <2>. QED
    BY <1>1, <2>1, <2>2, <2>3 DEF Handler, HandlerFault
<1>2. ASSUME NEW w \in Workers, Sweep(w) PROVE Elsewhere
  BY <1>0, <1>2 DEF Sweep, SweepSelect, SweepSave, SweepRaises, Elsewhere, rowVars, historyVars
<1>3. ASSUME NEW w \in Workers, WorkerStep(w) \/ WorkerFault(w) PROVE Moves(w)
  BY <1>3, QueueMoves, JobMoves DEF WorkerStep, WorkerFault
<1>4. CASE UNCHANGED vars
  BY <1>4 DEF vars, rowVars, historyVars, Elsewhere
<1>. QED
  BY <1>1, <1>2, <1>3, <1>4 DEF Next
----------------------------------------------------------------------------
(* What a single worker holds.  Only it acknowledges, so the entries it has *)
(* claimed, or is at, are pending until it is through with them.  With two  *)
(* workers this fails, and NoJobLost and AttemptsBounded with it: an entry  *)
(* reclaimed from a live holder is acknowledged by the one while the other  *)
(* is at it, and its deliveries count for nothing from then on.             *)

\* A worker x that holds entries of the pending list p.
Holds(x, p) ==
  /\ x.claimed \subseteq p /\ x.ready \subseteq p /\ x.claimed \cap x.ready = {}
  /\ x.pc \in Busy => x.entry \notin x.claimed /\ x.entry \notin x.ready
  /\ x.pc \in Busy \ {"del"} => x.entry \in p

\* Where it can be with a batch.
Batched(x) ==
  /\ x.pc \in {"down", "reclaim", "read"} => x.claimed = {} /\ x.ready = {}
  /\ x.pc = "handle" => x.claimed = {}
  /\ x.pc \in Busy /\ x.via = "new" => x.claimed = {} /\ x.ready = {}
  /\ x.pc \in Busy /\ x.via = "reclaimed" => x.claimed = {}
  /\ x.via = "buried" => x.pc \in {"bury", "ack", "del"}
  /\ x.pc = "bury" => x.via = "buried"

\* The entries whose last delivery may still start an attempt.
Held(x) ==
  x.claimed \cup x.ready \cup {e \in {x.entry} : x.pc \in {"load", "start"}}

\* Those that passed the check of the limit.
Passed(x) == x.ready \cup {e \in {x.entry} : x.pc \in {"load", "start"}}

TriesInv ==
  /\ \A e \in 1..lastId : e > lastDelivered => log[e].tries = 0
  /\ \A e \in pel : log[e].tries > 0
  /\ \A w \in Workers : \A e \in Passed(worker[w]) : log[e].tries <= MaxDeliveries

HoldInv ==
  /\ \A w \in Workers : Holds(worker[w], pel) /\ Batched(worker[w])
  /\ TriesInv

\* What every step of the worker does to what it holds.
LEMMA MovesHold ==
  ASSUME TypeInv, NEW w \in Workers, Holds(worker[w], pel), Batched(worker[w]), Moves(w)
  PROVE  Holds(worker'[w], pel') /\ Batched(worker'[w])
<1>0. worker[w] \in Worker
  BY DEF TypeInv, TypeOK
<1>. USE DEF Busy, WorkerPCs, Attempting
<1>1. ASSUME NEW S \in SUBSET pel, Reclaims(w, S)
      PROVE  Holds(worker'[w], pel') /\ Batched(worker'[w])
  BY <1>1 DEF Reclaims, XAutoClaim, At, Holds, Batched
<1>2. CASE Checks(w)
  BY <1>2 DEF Checks, Turns, SameBatch, streamVars, At, Holds, Batched
<1>3. CASE Picks(w)
  BY <1>3 DEF Picks, Turns, SameBatch, streamVars, At, Holds, Batched
<1>4. CASE Reads(w)
  BY <1>4 DEF Reads, Turns, SameBatch, XReadGroup, streamVars, At, Holds, Batched
<1>5. CASE Stops(w)
  BY <1>5 DEF Stops, Booting, Stopped, Turns, SameBatch, streamVars, At, Holds, Batched
<1>6. CASE Looks(w)
  BY <1>6 DEF Looks, SameBatch, streamVars, At, Holds, Batched
<1>7. CASE Starts(w)
  BY <1>7 DEF Starts, Turns, SameBatch, streamVars, At, Holds, Batched
<1>8. ASSUME Asides(w), worker[w].pc \in Busy, pel' = pel
      PROVE  Holds(worker'[w], pel') /\ Batched(worker'[w])
  BY <1>0, <1>8 DEF Asides, Resume, SameBatch, Worker, Holds, Batched
<1>9. CASE Drops(w)
  <2>1. worker[w].pc \in {"load", "start", "recover", "ack"} /\ Asides(w) /\ pel' = pel
    BY <1>9 DEF Drops, streamVars, At
  <2>. QED
    BY <1>8, <2>1 DEF Busy, WorkerPCs, Attempting
<1>10. CASE Works(w)
  BY <1>10 DEF Works, Turns, SameBatch, streamVars, At, Holds, Batched
<1>11. CASE Buries(w)
  BY <1>11 DEF Buries, XAddDead, Turns, SameBatch, At, Holds, Batched
<1>12. CASE Acks(w)
  BY <1>12 DEF Acks, XAck, Turns, SameBatch, At, Holds, Batched
<1>13. CASE Deletes(w)
  BY <1>8, <1>13 DEF Deletes, XDel, At
<1>. QED
  BY <1>1, <1>2, <1>3, <1>4, <1>5, <1>6, <1>7, <1>9, <1>10, <1>11, <1>12, <1>13 DEF Moves

\* How deliveries are counted: none is forgotten, each entry that comes to be held
\* has just been delivered, and whatever passes the check is within the limit.
Counts(w) ==
  /\ \A e \in 1..lastId : log'[e].tries \in Nat /\ log[e].tries <= log'[e].tries
  /\ \A e \in Held(worker'[w]) :
       log'[e].tries > log[e].tries \/ (e \in Held(worker[w]) /\ log'[e].tries = log[e].tries)

\* Only a delivery counts, and only the worker it goes to holds the entry.
LEMMA MovesCount ==
  ASSUME TypeInv, NEW w \in Workers, Holds(worker[w], pel), Batched(worker[w]), TriesInv,
         Moves(w)
  PROVE  Counts(w)
<1>0. /\ worker[w] \in Worker /\ lastId \in Nat /\ lastDelivered \in 0..lastId
      /\ log \in [1..lastId -> Entry] /\ pel \subseteq 1..lastDelivered
      /\ \A e \in 1..lastId : log[e].tries \in Nat
  BY DEF TypeInv, TypeOK, StreamTypeOK, Entry
<1>1. ASSUME \A e \in 1..lastId : log'[e].tries = log[e].tries,
             Held(worker'[w]) \subseteq Held(worker[w]), Held(worker[w]) \subseteq 1..lastId
      PROVE  Counts(w)
  BY <1>0, <1>1 DEF Counts
<1>. pel \subseteq 1..lastId
  BY <1>0
<1>2. Held(worker[w]) \subseteq 1..lastId
  <2>1. worker[w].pc \in {"load", "start"} => worker[w].entry \in pel
    BY DEF Holds, Busy, WorkerPCs, Attempting
  <2>2. Held(worker[w]) \subseteq pel
    BY <2>1 DEF Held, Holds
  <2>. QED
    BY <2>2
<1>3. ASSUME NEW S \in SUBSET pel, Reclaims(w, S) PROVE Counts(w)
  <2>1. Held(worker'[w]) = S
    BY <1>3 DEF Reclaims, At, Held, Batched
  <2>2. \A e \in 1..lastId : log'[e].tries = IF e \in S THEN log[e].tries + 1 ELSE log[e].tries
    BY <1>0, <1>3 DEF Reclaims, XAutoClaim, Entry
  <2>3. \A e \in 1..lastId : log'[e].tries \in Nat /\ log[e].tries <= log'[e].tries
    BY <1>0, <2>2
  <2>4. \A e \in S : log'[e].tries > log[e].tries
    BY <1>0, <2>2
  <2>. QED
    BY <2>1, <2>3, <2>4 DEF Counts
<1>4. ASSUME NEW e \in Undelivered, XReadGroup(e), Reads(w),
             worker'[w].pc = "load" => worker'[w].entry = e
      PROVE  Counts(w)
  <2>1. e \in 1..lastId /\ log[e].tries = 0
    BY <1>0, <1>4 DEF Undelivered, TriesInv, TypeInv, TypeOK, StreamTypeOK
  <2>2. \A q \in 1..lastId : log'[q].tries = IF q = e THEN 1 ELSE log[q].tries
    BY <1>0, <1>4, <2>1 DEF XReadGroup, Entry
  <2>3. Held(worker'[w]) \subseteq {e}
    BY <1>4 DEF Reads, SameBatch, Turns, At, Held, Batched
  <2>. QED
    BY <1>0, <2>1, <2>2, <2>3 DEF Counts
<1>5. CASE Reads(w)
  <2>1. CASE UNCHANGED streamVars /\ Turns(w, "reclaim")
    BY <1>1, <1>2, <1>5, <2>1 DEF streamVars, Reads, Turns, SameBatch, Held, At
  <2>2. ASSUME NEW e \in Undelivered, XReadGroup(e),
               Turns(w, "reclaim") \/ (worker'[w].pc = "load" /\ worker'[w].entry = e)
        PROVE  Counts(w)
    BY <1>4, <1>5, <2>2 DEF Turns
  <2>. QED
    BY <1>5, <2>1, <2>2 DEF Reads
<1>6. ASSUME Checks(w) \/ Picks(w) \/ Stops(w) \/ Looks(w) \/ Starts(w) \/ Drops(w)
             \/ Works(w) \/ Buries(w) \/ Acks(w) \/ Deletes(w)
      PROVE  Counts(w)
  <2>1. \A e \in 1..lastId : log'[e].tries = log[e].tries
    <3>1. CASE Buries(w)
      BY <1>0, <3>1 DEF Buries, XAddDead, Entry
    <3>. QED
      BY <1>6, <3>1 DEF Checks, Picks, Stops, Looks, Starts, Drops, Works, Acks, Deletes,
                        streamVars, XAck, XDel
  <2>2. CASE Checks(w) \/ Picks(w)
    BY <1>1, <1>2, <2>1, <2>2 DEF Checks, Picks, Turns, SameBatch, Held, At
  <2>3. CASE Stops(w)
    BY <1>1, <1>2, <2>1, <2>3 DEF Stops, Booting, Stopped, Turns, SameBatch, Held, At
  <2>4. CASE Drops(w) \/ Deletes(w)
    BY <1>0, <1>1, <1>2, <2>1, <2>4 DEF Drops, Deletes, Asides, Resume, SameBatch, Held, Worker
  <2>5. CASE Looks(w) \/ Starts(w) \/ Works(w) \/ Buries(w) \/ Acks(w)
    BY <1>1, <1>2, <2>1, <2>5
       DEF Looks, Starts, Works, Buries, Acks, Turns, SameBatch, Held, At, Attempting
  <2>. QED
    BY <1>6, <2>2, <2>3, <2>4, <2>5
<1>. QED
  BY <1>3, <1>5, <1>6 DEF Moves

\* The counts stay within the limit as long as only one worker counts.
LEMMA MovesTries ==
  ASSUME NEW w, Workers = {w}, TypeInv, HoldInv, Moves(w)
  PROVE  TriesInv'
<1>0. /\ w \in Workers /\ worker[w] \in Worker /\ lastId \in Nat /\ lastDelivered \in 0..lastId
      /\ log \in [1..lastId -> Entry] /\ pel \subseteq 1..lastId
      /\ MaxDeliveries \in Nat \ {0}
      /\ Holds(worker[w], pel) /\ Batched(worker[w]) /\ TriesInv
  BY MaxDeliveriesAssumption DEF TypeInv, TypeOK, StreamTypeOK, HoldInv
<1>1. worker[w].ready \subseteq 1..lastId
  BY <1>0 DEF Holds
<1>2. ASSUME UNCHANGED <<lastId, lastDelivered>>, pel' \subseteq pel,
             \A e \in 1..lastId : log'[e].tries = log[e].tries,
             \A e \in Passed(worker'[w]) : e \in 1..lastId /\ log[e].tries <= MaxDeliveries
      PROVE  TriesInv'
  BY <1>0, <1>2 DEF TriesInv
<1>3. ASSUME NEW S \in SUBSET pel, Reclaims(w, S) PROVE TriesInv'
  <2>1. Passed(worker'[w]) = {}
    BY <1>0, <1>3 DEF Reclaims, At, Passed, Batched
  <2>2. /\ UNCHANGED <<lastId, lastDelivered, pel>>
        /\ \A e \in 1..lastId : log'[e].tries = IF e \in S THEN log[e].tries + 1 ELSE log[e].tries
    BY <1>0, <1>3 DEF Reclaims, XAutoClaim, Entry
  <2>3. \A e \in 1..lastId : log[e].tries \in Nat
    BY <1>0 DEF Entry
  <2>4. \A e \in S : e \in 1..lastId /\ e <= lastDelivered
    BY <1>0 DEF TypeInv
  <2>5. \A e \in 1..lastId : e > lastDelivered => log'[e].tries = 0
    BY <1>0, <2>2, <2>4 DEF TriesInv
  <2>6. \A e \in pel : log'[e].tries > 0
    BY <1>0, <2>2, <2>3 DEF TriesInv
  <2>. QED
    BY <1>0, <2>1, <2>2, <2>5, <2>6 DEF TriesInv
<1>4. ASSUME NEW e \in Undelivered, XReadGroup(e), Reads(w),
             worker'[w].pc = "load" => worker'[w].entry = e
      PROVE  TriesInv'
  <2>1. e \in 1..lastId /\ e > lastDelivered
    BY <1>0, <1>4 DEF Undelivered, TypeInv, TypeOK, StreamTypeOK
  <2>2. /\ lastDelivered' = e /\ lastId' = lastId /\ pel' = pel \cup {e}
        /\ \A q \in 1..lastId : log'[q].tries = IF q = e THEN 1 ELSE log[q].tries
    BY <1>0, <1>4, <2>1 DEF XReadGroup, Entry
  <2>3. Passed(worker'[w]) \subseteq {e}
    BY <1>0, <1>4 DEF Reads, SameBatch, Turns, At, Passed, Batched
  <2>4. \A q \in 1..lastId : q > lastDelivered' => log'[q].tries = 0
    BY <1>0, <2>1, <2>2 DEF TriesInv
  <2>5. \A q \in pel' : log'[q].tries > 0
    BY <1>0, <2>1, <2>2 DEF TriesInv
  <2>6. \A q \in Passed(worker'[w]) : log'[q].tries <= MaxDeliveries
    BY <1>0, <2>1, <2>2, <2>3
  <2>. QED
    BY <1>0, <2>2, <2>4, <2>5, <2>6 DEF TriesInv
<1>5. CASE Reads(w)
  <2>1. CASE UNCHANGED streamVars /\ Turns(w, "reclaim")
    <3>1. Passed(worker'[w]) = {}
      BY <1>0, <1>5, <2>1 DEF Reads, Turns, SameBatch, Passed, At, Batched
    <3>. QED
      BY <1>2, <2>1, <3>1 DEF streamVars
  <2>2. ASSUME NEW e \in Undelivered, XReadGroup(e),
               Turns(w, "reclaim") \/ (worker'[w].pc = "load" /\ worker'[w].entry = e)
        PROVE  TriesInv'
    BY <1>4, <1>5, <2>2 DEF Turns
  <2>. QED
    BY <1>5, <2>1, <2>2 DEF Reads
<1>6. ASSUME Checks(w) \/ Picks(w) \/ Stops(w) \/ Looks(w) \/ Starts(w) \/ Drops(w)
             \/ Works(w) \/ Buries(w) \/ Acks(w) \/ Deletes(w)
      PROVE  TriesInv'
  <2>0. /\ UNCHANGED <<lastId, lastDelivered>> /\ pel' \subseteq pel
        /\ \A e \in 1..lastId : log'[e].tries = log[e].tries
    <3>1. CASE Buries(w)
      BY <1>0, <3>1 DEF Buries, XAddDead, Entry
    <3>. QED
      BY <1>6, <3>1 DEF Checks, Picks, Stops, Looks, Starts, Drops, Works, Acks, Deletes,
                        streamVars, XAck, XDel
  <2>1. \A e \in Passed(worker[w]) : e \in 1..lastId /\ log[e].tries <= MaxDeliveries
    <3>1. worker[w].pc \in {"load", "start"} => worker[w].entry \in pel
      BY <1>0 DEF Holds, Busy, WorkerPCs, Attempting
    <3>. QED
      BY <1>0, <1>1, <3>1 DEF Passed, TriesInv
  <2>2. ASSUME Passed(worker'[w]) \subseteq Passed(worker[w]) PROVE TriesInv'
    BY <1>2, <2>0, <2>1, <2>2
  <2>3. ASSUME NEW e \in worker[w].claimed, Checks(w), ~(DeliveryCount(e) > MaxDeliveries),
               worker'[w].ready = worker[w].ready \cup {e}, worker'[w].pc = "check"
        PROVE  TriesInv'
    <3>1. e \in pel /\ log[e].tries \in Nat
      BY <1>0 DEF Holds, Entry
    <3>2. log[e].tries <= MaxDeliveries
      BY <1>0, <2>3, <3>1 DEF DeliveryCount
    <3>3. Passed(worker'[w]) \subseteq Passed(worker[w]) \cup {e}
      BY <2>3 DEF Passed
    <3>. QED
      BY <1>0, <1>2, <2>0, <2>1, <3>1, <3>2, <3>3
  <2>4. CASE Checks(w)
    BY <2>2, <2>3, <2>4 DEF Checks, Turns, SameBatch, Passed, At
  <2>5. CASE Picks(w)
    BY <2>2, <2>5 DEF Picks, Turns, SameBatch, Passed, At
  <2>6. CASE Stops(w)
    BY <2>2, <2>6 DEF Stops, Booting, Stopped, Turns, SameBatch, Passed, At
  <2>7. CASE Drops(w) \/ Deletes(w)
    BY <1>0, <2>2, <2>7 DEF Drops, Deletes, Asides, Resume, SameBatch, Passed, Worker
  <2>8. CASE Looks(w) \/ Starts(w) \/ Works(w) \/ Buries(w) \/ Acks(w)
    BY <2>2, <2>8
       DEF Looks, Starts, Works, Buries, Acks, Turns, SameBatch, Passed, At, Attempting
  <2>. QED
    BY <1>6, <2>4, <2>5, <2>6, <2>7, <2>8
<1>. QED
  BY <1>3, <1>5, <1>6 DEF Moves

\* So a single worker preserves HoldInv, whatever the handlers and sweeps do.
LEMMA NextHoldInv ==
  ASSUME NEW w, Workers = {w}
  PROVE  TypeInv /\ HoldInv /\ [Next]_vars => HoldInv'
<1>. SUFFICES ASSUME TypeInv, HoldInv, [Next]_vars PROVE HoldInv'
  OBVIOUS
<1>1. CASE Moves(w)
  <2>1. Holds(worker'[w], pel') /\ Batched(worker'[w])
    BY <1>1, MovesHold DEF HoldInv
  <2>2. TriesInv'
    BY <1>1, MovesTries
  <2>. QED
    BY <2>1, <2>2 DEF HoldInv
<1>2. CASE Elsewhere
  <2>0. /\ lastId \in Nat /\ lastDelivered \in 0..lastId /\ pel \subseteq 1..lastId
        /\ log \in [1..lastId -> Entry]
    BY DEF TypeInv, TypeOK, StreamTypeOK
  <2>1. /\ UNCHANGED <<worker, pel, lastDelivered>> /\ lastId' \in Nat
        /\ \A e \in 1..lastId : log'[e] = log[e]
        /\ \A e \in 1..lastId' : e \in 1..lastId \/ log'[e].tries = 0
    BY <1>2, <2>0 DEF Elsewhere, streamVars, XAdd
  <2>2. Passed(worker[w]) \subseteq 1..lastId
    <3>1. worker[w].pc \in {"load", "start"} => worker[w].entry \in pel
      BY DEF HoldInv, Holds, Busy, WorkerPCs, Attempting
    <3>. QED
      BY <2>0, <3>1 DEF Passed, HoldInv, Holds
  <2>3. TriesInv'
    BY <2>0, <2>1, <2>2 DEF HoldInv, TriesInv
  <2>. QED
    BY <2>1, <2>3 DEF HoldInv
<1>. QED
  BY <1>1, <1>2, NextMoves
----------------------------------------------------------------------------
(* No job is lost.  The worker acknowledges an entry only once its row is  *)
(* settled, or its failure could not be recorded, or its copy is on the    *)
(* dead-letter stream; and a settled row stays settled unless the worker   *)
(* itself, while its entry is pending, sets it back to "processing".       *)

\* How the row of the job at hand stands.
JobInv ==
  /\ \A r \in Requests : api[r] # "idle" => status[r] # "absent"
  /\ \A w \in Workers :
       /\ At(w, "start") =>
            worker[w].seen = "queued" \/ status[Req(w)] \in {"processing"} \cup Settled
       /\ worker[w].pc \in Attempting => status[Req(w)] \in {"processing"} \cup Settled
       /\ At(w, "ack") => \/ worker[w].via # "buried"
                             /\ (status[Req(w)] \in Settled \/ Req(w) \in lapsed)
                          \/ log[worker[w].entry].dead > 0

\* What the single worker's steps do to the row of its job (process_job).
LEMMA MovesJob ==
  ASSUME NEW w, Workers = {w}, TypeInv, HoldInv, EntriesAdmitted, JobInv, StreamGrows, Moves(w)
  PROVE  JobInv'
<1>0. /\ w \in Workers /\ worker[w] \in Worker /\ status \in [Requests -> Statuses]
      /\ log \in [1..lastId -> Entry] /\ Batched(worker[w])
      /\ \A r \in Requests : api[r] # "idle" => status[r] # "absent"
  BY DEF TypeInv, TypeOK, StreamTypeOK, HoldInv, JobInv
<1>1. ASSUME worker[w].pc \in Busy
      PROVE  /\ worker[w].entry \in 1..lastId /\ Req(w) \in Requests /\ api[Req(w)] # "idle"
             /\ log'[worker[w].entry].req = Req(w)
  BY <1>0, <1>1, ReqTyped DEF EntriesAdmitted, Req, StreamGrows
<1>2. ASSUME api' = api,
             \/ UNCHANGED status
             \/ Req(w) \in Requests
                /\ \E s \in {"processing"} \cup Settled :
                     status' = [status EXCEPT ![Req(w)] = s],
             worker'[w].pc \notin {"start", "ack"} \cup Attempting
      PROVE  JobInv'
  BY <1>0, <1>2 DEF JobInv, At, Settled
<1>3. ASSUME QuietRows, worker'[w].pc \notin {"start", "ack"} \cup Attempting
      PROVE  JobInv'
  BY <1>2, <1>3 DEF QuietRows
<1>4. CASE (\E S \in SUBSET pel : Reclaims(w, S)) \/ Checks(w) \/ Picks(w) \/ Reads(w) \/ Stops(w)
  BY <1>3, <1>4 DEF Reclaims, Checks, Picks, Reads, Stops, Booting, Stopped, Turns, Attempting
<1>5. CASE Looks(w)
  <2>1. /\ worker[w].pc \in Busy /\ worker[w].via # "buried"
        /\ worker'[w].via = worker[w].via /\ worker'[w].entry = worker[w].entry
        /\ worker'[w].seen = status[Req(w)]
        /\ worker'[w].pc = IF status[Req(w)] \in InFlight THEN "start" ELSE "ack"
        /\ UNCHANGED <<status, api, lapsed>>
    BY <1>0, <1>5 DEF Looks, At, Batched, Busy, WorkerPCs, Attempting, QuietRows
  <2>2. status[Req(w)] \in Statuses \ {"absent"} /\ Req(w)' = Req(w)
    BY <1>0, <1>1, <2>1 DEF Req
  <2>3. /\ worker'[w].pc = "start" =>
             worker'[w].seen = "queued" \/ status[Req(w)] \in {"processing"} \cup Settled
        /\ worker'[w].pc = "ack" => status[Req(w)] \in Settled
        /\ worker'[w].pc \notin Attempting
    BY <2>1, <2>2 DEF InFlight, Statuses, Settled, Attempting
  <2>. QED
    BY <1>0, <2>1, <2>2, <2>3 DEF JobInv, At
<1>6. CASE Starts(w)
  <2>1. /\ worker[w].pc = "start" /\ worker[w].pc \in Busy
        /\ worker'[w].pc = "download" /\ worker'[w].entry = worker[w].entry
        /\ MarkStarted(w) /\ api' = api
    BY <1>6 DEF Starts, Turns, At, Busy, WorkerPCs, Attempting
  <2>2. Req(w)' = Req(w) /\ Req(w) \in Requests
    BY <1>1, <2>1 DEF Req
  <2>3. /\ status'[Req(w)] \in {"processing"} \cup Settled
        /\ \A r \in Requests : status'[r] \in {status[r], "processing"}
    BY <1>0, <2>1, <2>2 DEF MarkStarted, JobInv, At
  <2>. QED
    BY <1>0, <2>1, <2>2, <2>3 DEF JobInv, At, Attempting
<1>7. CASE Drops(w)
  <2>1. /\ worker[w].pc \in Busy /\ api' = api
        /\ worker'[w].pc \notin {"start", "ack"} \cup Attempting
        /\ UNCHANGED status \/ MarkStarted(w)
    <3>1. worker[w].pc \in {"load", "start", "recover", "ack"} /\ Asides(w)
      BY <1>7 DEF Drops, At
    <3>2. worker[w].pc \in Busy /\ Resume(w) \notin {"start", "ack"} \cup Attempting
      BY <1>0, <3>1 DEF Resume, Worker, Busy, WorkerPCs, Attempting
    <3>. QED
      BY <1>7, <3>1, <3>2 DEF Drops, Asides
  <2>. QED
    BY <1>1, <1>2, <2>1 DEF MarkStarted
<1>8. CASE Works(w)
  <2>1. /\ worker[w].pc \in Attempting /\ worker[w].pc \in Busy /\ worker[w].via # "buried"
        /\ worker'[w].via = worker[w].via /\ worker'[w].entry = worker[w].entry
        /\ api' = api /\ lapsed \subseteq lapsed'
        /\ \/ worker'[w].pc \in Attempting
           \/ /\ worker'[w].pc = "ack"
              /\ \/ \E s \in Settled : status' = [status EXCEPT ![Req(w)] = s]
                 \/ Req(w) \in lapsed'
                 \/ status[Req(w)] # "processing" /\ UNCHANGED status
        /\ UNCHANGED status \/ \E s \in Settled : status' = [status EXCEPT ![Req(w)] = s]
    BY <1>0, <1>8 DEF Works, Turns, Batched, Busy, WorkerPCs, Attempting
  <2>2. Req(w)' = Req(w) /\ Req(w) \in Requests
    BY <1>1, <2>1 DEF Req
  <2>3. status[Req(w)] \in {"processing"} \cup Settled
    BY <1>0, <2>1 DEF JobInv
  <2>4. /\ status'[Req(w)] \in {"processing"} \cup Settled
        /\ \A r \in Requests : status'[r] \in {status[r]} \cup Settled
    BY <1>0, <2>1, <2>2, <2>3
  <2>5. worker'[w].pc = "ack" => status'[Req(w)] \in Settled \/ Req(w) \in lapsed'
    BY <1>0, <2>1, <2>2, <2>3 DEF Attempting
  <2>6. /\ worker'[w].pc # "start"
        /\ \A r \in Requests : api'[r] # "idle" => status'[r] # "absent"
    BY <1>0, <2>1, <2>4 DEF Attempting, Settled
  <2>. QED
    BY <1>0, <2>1, <2>2, <2>4, <2>5, <2>6 DEF JobInv, At
<1>9. CASE Buries(w)
  <2>1. /\ worker[w].pc \in Busy /\ worker'[w].pc = "ack" /\ worker'[w].entry = worker[w].entry
        /\ UNCHANGED <<status, api>> /\ XAddDead(worker[w].entry)
    BY <1>9 DEF Buries, Turns, At, Busy, WorkerPCs, Attempting, QuietRows
  <2>2. log'[worker[w].entry].dead > 0
    BY <1>0, <1>1, <2>1 DEF XAddDead, Entry
  <2>. QED
    BY <1>0, <2>1, <2>2 DEF JobInv, At, Attempting
<1>10. CASE Acks(w) \/ Deletes(w)
  BY <1>0, <1>3, <1>10 DEF Acks, Deletes, Asides, Resume, Turns, Worker, Attempting
<1>. QED
  BY <1>4, <1>5, <1>6, <1>7, <1>8, <1>9, <1>10 DEF Moves

\* Handlers and sweeps cannot put a row out of the states that the job relies on.
LEMMA NextJobInv ==
  ASSUME NEW w, Workers = {w}
  PROVE  TypeInv /\ HoldInv /\ EntriesAdmitted /\ JobInv /\ [Next]_vars => JobInv'
<1>. SUFFICES ASSUME TypeInv, HoldInv, EntriesAdmitted, JobInv, [Next]_vars PROVE JobInv'
  OBVIOUS
<1>1. StreamGrows
  BY NextStream
<1>2. CASE Elsewhere
  <2>0. /\ w \in Workers /\ worker' = worker /\ lapsed' = lapsed
        /\ \A r \in Requests :
             /\ api[r] # "idle" => status'[r] \in {status[r], "failed"}
             /\ api[r] = "idle" /\ api'[r] # "idle" => status'[r] = "queued"
    BY <1>2 DEF Elsewhere
  <2>1. \A r \in Requests : api'[r] # "idle" => status'[r] # "absent"
    BY <2>0 DEF JobInv
  <2>2. ASSUME worker[w].pc \in Busy
        PROVE  /\ Req(w)' = Req(w) /\ status'[Req(w)] \in {status[Req(w)], "failed"}
               /\ log'[worker[w].entry].dead = log[worker[w].entry].dead
    <3>1. worker[w].entry \in 1..lastId /\ Req(w) \in Requests /\ api[Req(w)] # "idle"
      BY <2>0, <2>2, ReqTyped DEF EntriesAdmitted, Req
    <3>2. lastId \in Nat
      BY DEF TypeInv, TypeOK, StreamTypeOK
    <3>. QED
      BY <1>1, <1>2, <2>0, <3>1, <3>2 DEF StreamGrows, Req, Elsewhere, XAdd, streamVars
  <2>3. {"start", "ack"} \cup Attempting \subseteq Busy
    BY DEF Busy, WorkerPCs, Attempting
  <2>. QED
    BY <2>0, <2>1, <2>2, <2>3 DEF JobInv, At, Settled
<1>. QED
  BY <1>1, <1>2, MovesJob, NextMoves

\* An entry that is yet to be handled, or was buried.
Accounted(e) == e \in pel \cup Undelivered \/ log[e].dead > 0

\* A request with an entry is settled, or has one that is accounted for.
AliveInv ==
  \A r \in Requests : EntriesOf(r) # {} /\ r \notin lapsed =>
    status[r] \in Settled \/ \E e \in EntriesOf(r) : Accounted(e)

\* The worker keeps requests alive: it takes an entry off the pending list only
\* under JobInv's condition, and sets a row back only while its entry is pending.
LEMMA MovesAlive ==
  ASSUME NEW w, Workers = {w}, TypeInv, HoldInv, JobInv, AliveInv, StreamGrows, Moves(w)
  PROVE  AliveInv'
<1>0. /\ w \in Workers /\ lastId \in Nat /\ lastDelivered \in 0..lastId
      /\ stream \subseteq 1..lastId /\ log \in [1..lastId -> Entry]
      /\ status \in [Requests -> Statuses] /\ Holds(worker[w], pel)
      /\ \A e \in 1..lastId : log[e].dead \in Nat
  BY DEF TypeInv, TypeOK, StreamTypeOK, HoldInv, Entry
<1>1. ASSUME worker[w].pc \in Busy
      PROVE  worker[w].entry \in 1..lastDelivered /\ Req(w) \in Requests
  BY <1>0, <1>1, ReqTyped DEF TypeInv, Knows
<1>2. lastId' = lastId /\ lapsed \subseteq lapsed'
  BY DEF Moves, Reclaims, Checks, Picks, Reads, Stops, Looks, Starts, Drops, Works, Buries, Acks,
         Deletes, XAutoClaim, XReadGroup, XAddDead, XAck, XDel, streamVars, QuietRows
<1>3. \A r \in Requests : EntriesOf(r)' = EntriesOf(r)
  BY <1>2 DEF EntriesOf, StreamGrows
<1>4. \A e \in 1..lastId : Accounted(e) => Accounted(e)' \/ (Acks(w) /\ e = worker[w].entry)
  <2>1. CASE \E S \in SUBSET pel : Reclaims(w, S)
    BY <1>0, <2>1 DEF Reclaims, XAutoClaim, Accounted, Undelivered
  <2>2. CASE Reads(w) /\ \E e \in Undelivered : XReadGroup(e)
    <3>1. PICK q \in Undelivered : XReadGroup(q)
      BY <2>2
    <3>2. /\ q \in 1..lastId /\ pel' = pel \cup {q} /\ stream' = stream /\ lastDelivered' = q
          /\ \A e \in Undelivered : q <= e
          /\ \A e \in 1..lastId : log'[e].dead = log[e].dead
      BY <1>0, <3>1 DEF XReadGroup, Undelivered, Entry
    <3>. QED
      BY <1>0, <3>2 DEF Accounted, Undelivered
  <2>3. CASE UNCHANGED streamVars
    BY <2>3 DEF streamVars, Accounted, Undelivered
  <2>4. CASE Buries(w)
    BY <1>0, <2>4 DEF Buries, XAddDead, Accounted, Undelivered
  <2>5. CASE Acks(w)
    BY <2>5 DEF Acks, XAck, Accounted, Undelivered
  <2>6. CASE Deletes(w)
    <3>1. worker[w].entry \in 1..lastDelivered
      BY <1>1, <2>6 DEF Deletes, At, Busy, WorkerPCs, Attempting
    <3>. QED
      BY <1>0, <2>6, <3>1 DEF Deletes, XDel, Accounted, Undelivered
  <2>. QED
    BY <2>1, <2>2, <2>3, <2>4, <2>5, <2>6
       DEF Moves, Checks, Picks, Reads, Stops, Looks, Starts, Drops, Works
<1>5. \A r \in Requests : status[r] \in Settled =>
        status'[r] \in Settled
        \/ (worker[w].pc = "start" /\ Req(w) = r /\ UNCHANGED pel)
  <2>1. CASE UNCHANGED status
    BY <2>1
  <2>2. CASE worker[w].pc = "start" /\ MarkStarted(w) /\ UNCHANGED streamVars
    BY <1>0, <2>2 DEF MarkStarted, streamVars
  <2>3. CASE \E s \in Settled : status' = [status EXCEPT ![Req(w)] = s]
    BY <1>0, <2>3
  <2>. QED
    BY <2>1, <2>2, <2>3 DEF Moves, Reclaims, Checks, Picks, Reads, Stops, Looks, Starts, Drops,
       Works, Buries, Acks, Deletes, QuietRows, At
<1>. SUFFICES ASSUME NEW r \in Requests, EntriesOf(r) # {}, r \notin lapsed'
              PROVE  \/ status'[r] \in Settled
                     \/ \E e \in EntriesOf(r) : Accounted(e)'
  BY <1>3 DEF AliveInv, Accounted
<1>6. \/ status[r] \in Settled
      \/ \E e \in EntriesOf(r) : Accounted(e)
  BY <1>2 DEF AliveInv, Accounted
<1>7. CASE status[r] \in Settled
  <2>1. CASE worker[w].pc = "start" /\ Req(w) = r /\ pel' = pel
    <3>1. worker[w].entry \in pel /\ worker[w].entry \in EntriesOf(r)
      BY <1>0, <1>1, <2>1 DEF Holds, Busy, WorkerPCs, Attempting, EntriesOf, Req
    <3>. QED
      BY <2>1, <3>1 DEF Accounted
  <2>. QED
    BY <1>5, <1>7, <2>1
<1>8. ASSUME NEW e \in EntriesOf(r), Accounted(e) PROVE status'[r] \in Settled \/ Accounted(e)'
  <2>1. e \in 1..lastId /\ log[e].req = r
    BY DEF EntriesOf
  <2>2. CASE Acks(w) /\ e = worker[w].entry
    <3>1. worker[w].pc = "ack" /\ Req(w) = r /\ UNCHANGED <<status, lapsed>> /\ log' = log
      BY <2>1, <2>2 DEF Acks, At, Req, QuietRows, XAck
    <3>2. status[r] \in Settled \/ r \in lapsed \/ log[e].dead > 0
      BY <1>0, <2>2, <3>1 DEF JobInv, At
    <3>. QED
      BY <3>1, <3>2 DEF Accounted
  <2>. QED
    BY <1>4, <1>8, <2>1, <2>2
<1>. QED
  BY <1>6, <1>7, <1>8

\* Nor can they take an entry away; one that they add is waiting.
LEMMA NextAliveInv ==
  ASSUME NEW w, Workers = {w}
  PROVE  TypeInv /\ HoldInv /\ EntriesAdmitted /\ JobInv /\ AliveInv /\ [Next]_vars => AliveInv'
<1>. SUFFICES ASSUME TypeInv, HoldInv, EntriesAdmitted, JobInv, AliveInv, [Next]_vars
              PROVE  AliveInv'
  OBVIOUS
<1>1. StreamGrows
  BY NextStream
<1>2. CASE Elsewhere
  <2>0. /\ lastId \in Nat /\ lastDelivered \in 0..lastId /\ stream \subseteq 1..lastId
        /\ log \in [1..lastId -> Entry]
    BY DEF TypeInv, TypeOK, StreamTypeOK
  <2>1. /\ lapsed' = lapsed /\ pel' = pel /\ Undelivered \subseteq Undelivered'
        /\ \A e \in 1..lastId : log'[e] = log[e]
        /\ lastId' = lastId \/ (lastId' = lastId + 1 /\ lastId' \in Undelivered')
    BY <1>2, <2>0 DEF Elsewhere, streamVars, XAdd, Undelivered
  <2>2. ASSUME NEW r \in Requests, EntriesOf(r)' # {}, r \notin lapsed'
        PROVE  \/ status'[r] \in Settled
               \/ \E e \in EntriesOf(r)' : e \in pel' \cup Undelivered' \/ log'[e].dead > 0
    <3>1. PICK q \in EntriesOf(r)' : TRUE
      BY <2>2
    <3>2. CASE EntriesOf(r) = {}
      <4>1. q \notin 1..lastId
        BY <1>1, <3>2 DEF EntriesOf, StreamGrows
      <4>2. q = lastId'
        BY <2>0, <2>1, <3>1, <4>1 DEF EntriesOf
      <4>3. lastId' # lastId
        BY <2>0, <3>1, <4>1, <4>2 DEF EntriesOf
      <4>. QED
        BY <2>1, <3>1, <4>2, <4>3
    <3>3. CASE EntriesOf(r) # {}
      <4>1. EntriesOf(r) \subseteq EntriesOf(r)' /\ EntriesOf(r) \subseteq 1..lastId
        BY <1>1, <2>0 DEF EntriesOf, StreamGrows
      <4>2. api[r] # "idle"
        BY <3>3, <4>1 DEF EntriesAdmitted, EntriesOf
      <4>3. status'[r] \in {status[r], "failed"}
        BY <1>2, <4>2 DEF Elsewhere
      <4>4. \/ status[r] \in Settled
            \/ \E e \in EntriesOf(r) : e \in pel \cup Undelivered \/ log[e].dead > 0
        BY <2>1, <2>2, <3>3 DEF AliveInv, Accounted
      <4>. QED
        BY <2>1, <4>1, <4>3, <4>4 DEF Settled
    <3>. QED
      BY <3>2, <3>3
  <2>. QED
    BY <2>2 DEF AliveInv, Accounted
<1>. QED
  BY <1>1, <1>2, MovesAlive, NextMoves

\* With one worker the three invariants always hold.
LEMMA HoldInvariant ==
  ASSUME NEW w, Workers = {w}
  PROVE  Spec => [](TypeInv /\ HoldInv /\ EntriesAdmitted /\ JobInv /\ AliveInv)
<1>1. Init => HoldInv /\ EntriesAdmitted /\ JobInv /\ AliveInv
  <2>. SUFFICES ASSUME Init PROVE HoldInv /\ EntriesAdmitted /\ JobInv /\ AliveInv
    OBVIOUS
  <2>1. /\ lastId = 0 /\ pel = {} /\ \A v \in Workers : worker[v] = Booting
        /\ \A r \in Requests : api[r] = "idle"
    BY DEF Init, StreamInit
  <2>2. HoldInv
    BY <2>1 DEF HoldInv, Holds, Batched, TriesInv, Passed, Booting, Busy
  <2>3. JobInv
    BY <2>1 DEF JobInv, Booting, At, Attempting
  <2>4. EntriesAdmitted /\ AliveInv
    BY <2>1 DEF EntriesAdmitted, AliveInv, EntriesOf
  <2>. QED
    BY <2>2, <2>3, <2>4
<1>. QED
  BY <1>1, NextHoldInv, NextEntries, NextJobInv, NextAliveInv, InitTypeInv, NextTypeInv,
     PTL DEF Spec

\* A single worker process never drops the last entry of a request that is still
\* in flight, unless the failure itself could not be recorded: whatever crashes,
\* is lost or is delivered again (runner._handle, queue.reclaim_stale).
THEOREM SingleWorkerLosesNoJob ==
  ASSUME NEW w, Workers = {w}
  PROVE  Spec => []NoJobLost
<1>1. AliveInv => NoJobLost
  BY DEF AliveInv, Accounted, NoJobLost, InFlight, Settled
<1>. QED
  BY <1>1, HoldInvariant, PTL
----------------------------------------------------------------------------
(* Attempts are bounded.  Each delivery of an entry, up to the limit, can   *)
(* start one attempt: it is Used once the worker is no longer holding the   *)
(* entry for it, and every attempt makes one delivery Used.                 *)

Used(r) ==
  {p \in EntriesOf(r) \X (1..MaxDeliveries) :
     /\ p[2] <= log[p[1]].tries
     /\ \A w \in Workers : ~(p[1] \in Held(worker[w]) /\ p[2] = log[p[1]].tries)}

UsedInv == \A r \in Requests : attempts[r] <= Cardinality(Used(r))

\* Finitely many entries, of which at most MaxDeliveries deliveries each count.
LEMMA DeliveriesFinite ==
  ASSUME NEW n \in Nat, NEW E \in SUBSET (1..n)
  PROVE  /\ IsFiniteSet(E) /\ Cardinality(E) \in Nat
         /\ IsFiniteSet(E \X (1..MaxDeliveries))
         /\ Cardinality(E \X (1..MaxDeliveries)) = Cardinality(E) * MaxDeliveries
<1>1. IsFiniteSet(1..n)
  BY FS_Interval
<1>2. IsFiniteSet(E)
  BY <1>1, FS_Subset
<1>3. IsFiniteSet(1..MaxDeliveries) /\ Cardinality(1..MaxDeliveries) = MaxDeliveries
  <2>1. /\ IsFiniteSet(1..MaxDeliveries)
        /\ Cardinality(1..MaxDeliveries)
             = IF 1 > MaxDeliveries THEN 0 ELSE MaxDeliveries - 1 + 1
    BY MaxDeliveriesAssumption, FS_Interval
  <2>. QED
    BY <2>1, MaxDeliveriesAssumption
<1>. QED
  BY <1>2, <1>3, FS_Product, FS_CardinalityType

\* A used delivery stays used.
LEMMA UsedGrows ==
  ASSUME TypeInv, NEW w, Workers = {w}, NEW r \in Requests, StreamGrows, Counts(w)
  PROVE  Used(r) \subseteq Used(r)'
<1>1. SUFFICES ASSUME NEW p \in Used(r) PROVE p \in Used(r)'
  OBVIOUS
<1>2. /\ p \in EntriesOf(r) \X (1..MaxDeliveries) /\ p[1] \in EntriesOf(r)
      /\ p[2] \in 1..MaxDeliveries /\ p[2] <= log[p[1]].tries
      /\ ~(p[1] \in Held(worker[w]) /\ p[2] = log[p[1]].tries)
  BY DEF Used
<1>3. p[1] \in 1..lastId /\ lastId \in Nat /\ log[p[1]].tries \in Nat
  BY <1>2 DEF EntriesOf, TypeInv, TypeOK, StreamTypeOK, Entry
<1>4. /\ log'[p[1]].tries \in Nat /\ log[p[1]].tries <= log'[p[1]].tries
      /\ p[1] \in Held(worker'[w]) =>
           \/ log'[p[1]].tries > log[p[1]].tries
           \/ p[1] \in Held(worker[w]) /\ log'[p[1]].tries = log[p[1]].tries
  BY <1>3 DEF Counts
<1>5. EntriesOf(r) \subseteq EntriesOf(r)'
  BY <1>3 DEF EntriesOf, StreamGrows
<1>6. p \in EntriesOf(r)' \X (1..MaxDeliveries)
  BY <1>2, <1>5
<1>7. p[2] <= log'[p[1]].tries /\ ~(p[1] \in Held(worker'[w]) /\ p[2] = log'[p[1]].tries)
  BY <1>2, <1>3, <1>4
<1>. QED
  BY <1>6, <1>7 DEF Used

\* A step counts deliveries whoever takes it.
LEMMA NextCounts ==
  ASSUME NEW w, Workers = {w}, TypeInv, HoldInv, [Next]_vars
  PROVE  Counts(w)
<1>1. CASE Moves(w)
  BY <1>1, MovesCount DEF HoldInv
<1>2. CASE Elsewhere
  <2>1. /\ lastId \in Nat /\ log \in [1..lastId -> Entry] /\ pel \subseteq 1..lastId
        /\ w \in Workers /\ Holds(worker[w], pel)
    BY DEF TypeInv, TypeOK, StreamTypeOK, HoldInv
  <2>2. worker' = worker /\ \A e \in 1..lastId : log'[e] = log[e]
    BY <1>2, <2>1 DEF Elsewhere, XAdd, streamVars
  <2>3. worker[w].pc \in {"load", "start"} => worker[w].entry \in pel
    BY <2>1 DEF Holds, Busy, WorkerPCs, Attempting
  <2>4. Held(worker[w]) \subseteq 1..lastId
    BY <2>1, <2>3 DEF Held, Holds
  <2>5. \A e \in 1..lastId : log[e].tries \in Nat
    BY <2>1 DEF Entry
  <2>. QED
    BY <2>2, <2>4, <2>5 DEF Counts
<1>. QED
  BY <1>1, <1>2, NextMoves

\* An attempt uses the delivery of the entry it is for, which no attempt had used.
LEMMA StartUses ==
  ASSUME TypeInv, NEW w, Workers = {w}, HoldInv, StreamGrows, Starts(w)
  PROVE  LET p == <<worker[w].entry, log[worker[w].entry].tries>>
         IN  p \in Used(Req(w))' /\ p \notin Used(Req(w))
<1>. DEFINE e == worker[w].entry
            t == log[e].tries
<1>1. /\ w \in Workers /\ worker[w].pc = "start" /\ worker'[w].pc = "download"
      /\ worker'[w].entry = e /\ SameBatch(w) /\ UNCHANGED streamVars
  BY DEF Starts, At, Turns
<1>2. e \in pel /\ e \notin worker[w].claimed /\ e \notin worker[w].ready
  BY <1>1 DEF HoldInv, Holds, Busy, WorkerPCs, Attempting
<1>3. e \in 1..lastId /\ t \in Nat
  BY <1>2 DEF TypeInv, TypeOK, StreamTypeOK, Entry
<1>4. t \in 1..MaxDeliveries
  <2>1. e \in Passed(worker[w])
    BY <1>1 DEF Passed
  <2>2. t > 0 /\ t <= MaxDeliveries
    BY <1>1, <1>2, <2>1 DEF HoldInv, TriesInv
  <2>. QED
    BY <1>3, <2>2, MaxDeliveriesAssumption
<1>5. e \in Held(worker[w]) /\ e \notin Held(worker'[w])
  BY <1>1, <1>2 DEF Held, SameBatch
<1>6. log' = log /\ lastId' = lastId
  BY <1>1 DEF streamVars
<1>7. e \in EntriesOf(Req(w))
  BY <1>3 DEF EntriesOf, Req
<1>. QED
  BY <1>1, <1>3, <1>4, <1>5, <1>6, <1>7 DEF Used, EntriesOf, Req

\* So an attempt always finds a delivery of its own.
LEMMA NextUsedInv ==
  ASSUME NEW w, Workers = {w}
  PROVE  TypeInv /\ HoldInv /\ UsedInv /\ [Next]_vars => UsedInv'
<1>. SUFFICES ASSUME TypeInv, HoldInv, UsedInv, [Next]_vars, NEW r \in Requests
              PROVE  attempts'[r] <= Cardinality(Used(r)')
  BY DEF UsedInv
<1>1. StreamGrows /\ Counts(w) /\ TypeInv'
  BY NextStream, NextCounts, NextTypeInv
<1>2. /\ IsFiniteSet(Used(r)') /\ Cardinality(Used(r)') \in Nat
      /\ Used(r) \subseteq Used(r)'
  <2>1. lastId' \in Nat /\ EntriesOf(r)' \in SUBSET (1..lastId')
    BY <1>1 DEF StreamGrows, EntriesOf
  <2>2. IsFiniteSet(EntriesOf(r)' \X (1..MaxDeliveries))
    BY <2>1, DeliveriesFinite
  <2>3. Used(r)' \subseteq EntriesOf(r)' \X (1..MaxDeliveries)
    BY DEF Used
  <2>4. IsFiniteSet(Used(r)')
    BY <2>2, <2>3, FS_Subset
  <2>. QED
    BY <1>1, <2>4, UsedGrows, FS_CardinalityType
<1>3. /\ IsFiniteSet(Used(r)) /\ Cardinality(Used(r)) \in Nat
      /\ Cardinality(Used(r)) <= Cardinality(Used(r)')
  BY <1>2, FS_Subset, FS_CardinalityType
<1>4. attempts[r] \in Nat /\ attempts[r] <= Cardinality(Used(r))
  BY DEF UsedInv, TypeInv, TypeOK
<1>5. CASE attempts' = attempts
  BY <1>2, <1>3, <1>4, <1>5
<1>6. CASE Starts(w)
  <2>1. Req(w) \in Requests /\ attempts' = [attempts EXCEPT ![Req(w)] = @ + 1]
    BY <1>6, ReqTyped DEF Starts, At, Busy, WorkerPCs, Attempting
  <2>2. CASE Req(w) # r
    <3>1. attempts'[r] = attempts[r]
      BY <2>1, <2>2 DEF TypeInv, TypeOK
    <3>. QED
      BY <1>2, <1>3, <1>4, <3>1
  <2>3. CASE Req(w) = r
    <3>1. PICK p : p \in Used(Req(w))' /\ p \notin Used(Req(w))
      BY <1>1, <1>6, StartUses
    <3>2. Req(w)' = Req(w)
      BY <1>6 DEF Starts, Turns, streamVars, Req
    <3>3. p \in Used(r)' /\ p \notin Used(r)
      BY <2>3, <3>1, <3>2
    <3>4. Cardinality(Used(r) \cup {p}) = Cardinality(Used(r)) + 1
      BY <1>3, <3>3, FS_AddElement
    <3>5. Cardinality(Used(r) \cup {p}) <= Cardinality(Used(r)')
      BY <1>2, <3>3, FS_Subset
    <3>6. attempts'[r] = attempts[r] + 1
      BY <2>1, <2>3 DEF TypeInv, TypeOK
    <3>. QED
      BY <1>2, <1>3, <1>4, <3>4, <3>5, <3>6
  <2>. QED
    BY <2>2, <2>3
<1>7. attempts' = attempts \/ Starts(w)
  BY NextMoves DEF Elsewhere, Moves, Reclaims, Checks, Picks, Reads, Stops, Looks, Drops, Works,
                   Buries, Acks, Deletes, QuietRows
<1>. QED
  BY <1>5, <1>6, <1>7

\* A job that kills its worker every time is given up: the entries of a request
\* start at most MaxDeliveries attempts each (runner.main's check of the delivery
\* count, dead_letter), with a single worker process.
THEOREM SingleWorkerBoundsAttempts ==
  ASSUME NEW w, Workers = {w}
  PROVE  Spec => []AttemptsBounded
<1>1. Init => UsedInv
  <2>. SUFFICES ASSUME Init, NEW r \in Requests PROVE attempts[r] <= Cardinality(Used(r))
    BY Zenon DEF UsedInv
  <2>1. attempts[r] = 0 /\ EntriesOf(r) = {}
    BY DEF Init, StreamInit, EntriesOf
  <2>2. Used(r) = {}
    BY <2>1 DEF Used
  <2>. QED
    BY <2>1, <2>2, FS_EmptySet
<1>2. TypeInv /\ UsedInv => AttemptsBounded
  <2>. SUFFICES ASSUME TypeInv, UsedInv, NEW r \in Requests
                PROVE  attempts[r] <= MaxDeliveries * Cardinality(EntriesOf(r))
    BY Zenon DEF AttemptsBounded
  <2>. DEFINE D == EntriesOf(r) \X (1..MaxDeliveries)
  <2>1. lastId \in Nat /\ EntriesOf(r) \in SUBSET (1..lastId)
    BY DEF TypeInv, TypeOK, StreamTypeOK, EntriesOf
  <2>2. /\ IsFiniteSet(D) /\ Cardinality(D) = Cardinality(EntriesOf(r)) * MaxDeliveries
        /\ Cardinality(EntriesOf(r)) \in Nat /\ MaxDeliveries \in Nat
    BY <2>1, DeliveriesFinite, MaxDeliveriesAssumption
  <2>3. Used(r) \subseteq D
    BY DEF Used
  <2>4. /\ IsFiniteSet(Used(r)) /\ Cardinality(Used(r)) \in Nat
        /\ Cardinality(Used(r)) <= Cardinality(D)
    BY <2>2, <2>3, FS_Subset, FS_CardinalityType
  <2>5. attempts[r] \in Nat /\ attempts[r] <= Cardinality(Used(r))
    BY DEF UsedInv, TypeInv, TypeOK
  <2>6. Cardinality(D) \in Nat
    BY <2>2, FS_CardinalityType
  <2>7. attempts[r] <= Cardinality(D)
    BY <2>4, <2>5, <2>6
  <2>8. Cardinality(EntriesOf(r)) * MaxDeliveries = MaxDeliveries * Cardinality(EntriesOf(r))
    BY <2>2
  <2>. QED
    BY <2>2, <2>7, <2>8
<1>. QED
  BY <1>1, <1>2, HoldInvariant, NextUsedInv, PTL DEF Spec
=============================================================================
