--------------------------- MODULE DownloadPipeline ---------------------------
(***************************************************************************)
(* The download pipeline: the intake handler of the API commits a row and  *)
(* adds its entry to the stream; workers take entries (new ones, or ones   *)
(* left pending), run the job and record the outcome in the row; the       *)
(* housekeeping task of each worker process sweeps stale rows.  Database   *)
(* transactions and Redis commands are steps of their own, and anything    *)
(* may happen between two of them: a crash, a lost reply, another actor.   *)
(*                                                                         *)
(* Time is abstract.  An entry may be idle for QUEUE_RECLAIM_IDLE_MS (10   *)
(* minutes) as soon as its holder can have spent that long since the       *)
(* delivery, and a row may be stale as soon as nobody can be at it: an     *)
(* attempt is over within twice DOWNLOAD_TIMEOUT_SECONDS.                  *)
(***************************************************************************)
EXTENDS JobStream, FiniteSets

CONSTANTS Workers,    \* worker processes
          MaxBatch,   \* count of XAUTOCLAIM, 10 in the code
          MaxFaults   \* bound: crashes and failed calls in a behaviour

ASSUME PipelineAssumption == MaxBatch \in Nat \ {0} /\ MaxFaults \in Nat

VARIABLES
  status,    \* download_requests.status, "absent" before the insert
  api,       \* where the intake handler of a request is
  worker,    \* the main loop of each worker process
  sweeping,  \* rows the housekeeping of a worker read as stale, not yet saved
  faults,    \* crashes and failed calls so far
  sent,      \* history: files a worker delivered for a request
  booked,    \* history: downloads a worker debited for a request
  attempts,  \* history: attempts started on a request
  lapsed     \* history: requests whose failure could not be recorded

rowVars == <<status, api>>
historyVars == <<sent, booked, attempts, lapsed>>
vars == <<streamVars, rowVars, worker, sweeping, faults, historyVars>>

InFlight == {"queued", "processing"}
Settled == {"completed", "failed"}
Statuses == {"absent"} \cup InFlight \cup Settled

\* Between marking the row "processing" and recording the outcome.
Attempting == {"download", "upload", "book", "fail", "recover", "refail"}
WorkerPCs == Attempting \cup
  {"down", "reclaim", "check", "bury", "handle", "read", "load", "start", "ack", "del"}

Booting == [pc |-> "reclaim", entry |-> 0, via |-> "new", seen |-> "absent",
            claimed |-> {}, ready |-> {}]
Stopped == [Booting EXCEPT !.pc = "down"]

Worker == [pc : WorkerPCs, entry : Nat, via : {"new", "reclaimed", "buried"},
           seen : Statuses, claimed : SUBSET Nat, ready : SUBSET Nat]

TypeOK ==
  /\ StreamTypeOK
  /\ status \in [Requests -> Statuses]
  /\ api \in [Requests -> {"idle", "enqueue", "failing", "done"}]
  /\ worker \in [Workers -> Worker]
  /\ sweeping \in [Workers -> SUBSET Requests]
  /\ faults \in 0..MaxFaults
  /\ sent \in [Workers -> [Requests -> Nat]]
  /\ booked \in [Workers -> [Requests -> Nat]]
  /\ attempts \in [Requests -> Nat]
  /\ lapsed \subseteq Requests

Init ==
  /\ StreamInit
  /\ status = [r \in Requests |-> "absent"]
  /\ api = [r \in Requests |-> "idle"]
  /\ worker = [w \in Workers |-> Booting]
  /\ sweeping = [w \in Workers |-> {}]
  /\ faults = 0
  /\ sent = [w \in Workers |-> [r \in Requests |-> 0]]
  /\ booked = [w \in Workers |-> [r \in Requests |-> 0]]
  /\ attempts = [r \in Requests |-> 0]
  /\ lapsed = {}

----------------------------------------------------------------------------
Req(w) == log[worker[w].entry].req

At(w, pc) == worker[w].pc = pc

Goto(w, pc) == worker' = [worker EXCEPT ![w].pc = pc]

Fault == faults < MaxFaults /\ faults' = faults + 1

\* Where the loop continues after the entry at hand: fresh work starts a new
\* round, a reclaimed job makes room for the next of its batch, a dead-lettered
\* one for the next entry to check.
Resume(w) == CASE worker[w].via = "new" -> "reclaim"
               [] worker[w].via = "reclaimed" -> "handle"
               [] worker[w].via = "buried" -> "check"

PutAside(w) == worker' = [worker EXCEPT
  ![w] = [@ EXCEPT !.pc = Resume(w), !.entry = 0, !.via = "new", !.seen = "absent"]]

----------------------------------------------------------------------------
(* The intake handler (download_request), once admission has been granted. *)

Admit(r) ==
  /\ api[r] = "idle"
  /\ api' = [api EXCEPT ![r] = "enqueue"]
  /\ status' = [status EXCEPT ![r] = "queued"]
  /\ UNCHANGED <<streamVars, worker, sweeping, faults, historyVars>>

EnqueueOk(r) ==
  /\ api[r] = "enqueue"
  /\ XAdd(r)
  /\ api' = [api EXCEPT ![r] = "done"]
  /\ UNCHANGED <<status, worker, sweeping, faults, historyVars>>

\* enqueue raises: the XADD was not executed, or only its reply was lost.
EnqueueRaises(r) ==
  /\ api[r] = "enqueue"
  /\ Fault
  /\ XAdd(r) \/ UNCHANGED streamVars
  /\ api' = [api EXCEPT ![r] = "failing"]
  /\ UNCHANGED <<status, worker, sweeping, historyVars>>

\* The client library repeats a command whose reply was lost: a second entry.
EnqueueRepeats(r) ==
  /\ api[r] = "enqueue"
  /\ Fault
  /\ XAdd(r)
  /\ UNCHANGED <<rowVars, worker, sweeping, historyVars>>

\* Mutant of MarkEnqueueFailed: a status that is not one of the model's.
MarkEnqueueError(r) ==
  /\ api[r] = "failing"
  /\ api' = [api EXCEPT ![r] = "done"]
  /\ status' = [status EXCEPT ![r] = "error"]
  /\ UNCHANGED <<streamVars, worker, sweeping, faults, historyVars>>

\* The handler's row says "queued" whatever happened to it since, so the
\* UPDATE is blind.
MarkEnqueueFailed(r) ==
  /\ api[r] = "failing"
  /\ api' = [api EXCEPT ![r] = "done"]
  /\ status' = [status EXCEPT ![r] = "failed"]
  /\ UNCHANGED <<streamVars, worker, sweeping, faults, historyVars>>

ApiCrash(r) ==
  /\ api[r] \in {"enqueue", "failing"}
  /\ Fault
  /\ api' = [api EXCEPT ![r] = "done"]
  /\ UNCHANGED <<streamVars, status, worker, sweeping, historyVars>>

----------------------------------------------------------------------------
(* The main loop of a worker: reclaim, then read one new entry.            *)

\* Entries that cannot have been idle for long enough: their holder has only
\* just received them and has not come to any slow step.
JustDelivered(e) ==
  \E w \in Workers :
    \/ e \in worker[w].claimed
    \/ /\ worker[w].entry = e
       /\ \/ worker[w].via = "buried" /\ worker[w].pc \in {"bury", "ack", "del"}
          \/ worker[w].via = "new" /\ worker[w].pc \in {"load", "start"}

\* Mutant of Reclaim: XAUTOCLAIM is refused, and the error taken for an empty
\* answer.
ReclaimNothing(w, S) ==
  /\ At(w, "reclaim") /\ S = {}
  /\ Goto(w, "check")
  /\ UNCHANGED <<streamVars, rowVars, sweeping, faults, historyVars>>

Reclaim(w, S) ==
  /\ At(w, "reclaim")
  /\ \A e \in S : ~JustDelivered(e)
  /\ Cardinality(S) <= MaxBatch
  /\ XAutoClaim(S)
  /\ worker' = [worker EXCEPT ![w].claimed = S, ![w].pc = "check"]
  /\ UNCHANGED <<rowVars, sweeping, faults, historyVars>>

\* A worker x that has looked at its claimed entry e.
GivenUp(x, e) == [x EXCEPT !.claimed = @ \ {e}, !.entry = e, !.via = "buried", !.pc = "bury"]

Kept(x, e) == [x EXCEPT !.claimed = @ \ {e}, !.ready = @ \cup {e}]

\* Mutant of Check: the limit is compared one too late.
CheckLate(w) ==
  /\ At(w, "check")
  /\ \/ /\ worker[w].claimed = {}
        /\ Goto(w, "handle")
     \/ \E e \in worker[w].claimed :
          worker' = [worker EXCEPT
            ![w] = IF DeliveryCount(e) > MaxDeliveries + 1
                   THEN GivenUp(@, e) ELSE Kept(@, e)]
  /\ UNCHANGED <<streamVars, rowVars, sweeping, faults, historyVars>>

\* reclaim_stale asks for the delivery count of each claimed entry in turn.
Check(w) ==
  /\ At(w, "check")
  /\ \/ /\ worker[w].claimed = {}
        /\ Goto(w, "handle")
     \/ \E e \in worker[w].claimed :
          worker' = [worker EXCEPT
            ![w] = IF DeliveryCount(e) > MaxDeliveries
                   THEN GivenUp(@, e) ELSE Kept(@, e)]
  /\ UNCHANGED <<streamVars, rowVars, sweeping, faults, historyVars>>

Bury(w) ==
  /\ At(w, "bury")
  /\ XAddDead(worker[w].entry)
  /\ Goto(w, "ack")
  /\ UNCHANGED <<rowVars, sweeping, faults, historyVars>>

HandleNext(w) ==
  /\ At(w, "handle")
  /\ \/ worker[w].ready = {} /\ Goto(w, "read")
     \/ \E e \in worker[w].ready :
          worker' = [worker EXCEPT ![w].ready = @ \ {e}, ![w].entry = e,
                                   ![w].via = "reclaimed", ![w].pc = "load"]
  /\ UNCHANGED <<streamVars, rowVars, sweeping, faults, historyVars>>

ReadNew(w) ==
  /\ At(w, "read")
  /\ \/ /\ Undelivered = {}
        /\ Goto(w, "reclaim")
        /\ UNCHANGED streamVars
     \/ \E e \in Undelivered :
          /\ XReadGroup(e)
          /\ worker' = [worker EXCEPT ![w].entry = e, ![w].via = "new", ![w].pc = "load"]
  /\ UNCHANGED <<rowVars, sweeping, faults, historyVars>>

\* The entry was delivered but the reply never arrived.
ReadReplyLost(w) ==
  /\ At(w, "read")
  /\ Fault
  /\ \E e \in Undelivered : XReadGroup(e)
  /\ Goto(w, "reclaim")
  /\ UNCHANGED <<rowVars, sweeping, historyVars>>

\* An exception of a queue call inside the loop's try: the rest of the batch
\* is dropped (it stays pending) and the loop starts over.
QueueError(w) ==
  /\ \/ worker[w].pc \in {"check", "bury"}
     \/ worker[w].pc \in {"ack", "del"} /\ worker[w].via # "new"
  /\ Fault
  /\ worker' = [worker EXCEPT ![w] = Booting]
  /\ UNCHANGED <<streamVars, rowVars, sweeping, historyVars>>

----------------------------------------------------------------------------
(* process_job.                                                            *)

\* Mutants of Load: duplicates are not recognised; failed requests are tried again.
LoadAlways(w) ==
  /\ At(w, "load")
  /\ worker' = [worker EXCEPT ![w].seen = status[Req(w)], ![w].pc = "start"]
  /\ UNCHANGED <<streamVars, rowVars, sweeping, faults, historyVars>>

LoadFailed(w) ==
  /\ At(w, "load")
  /\ worker' = [worker EXCEPT
       ![w].seen = status[Req(w)],
       ![w].pc = IF status[Req(w)] # "completed" THEN "start" ELSE "ack"]
  /\ UNCHANGED <<streamVars, rowVars, sweeping, faults, historyVars>>

\* The row is read; a row that is already settled makes the job a duplicate.
Load(w) ==
  /\ At(w, "load")
  /\ worker' = [worker EXCEPT
       ![w].seen = status[Req(w)],
       ![w].pc = IF status[Req(w)] \in InFlight THEN "start" ELSE "ack"]
  /\ UNCHANGED <<streamVars, rowVars, sweeping, faults, historyVars>>

\* started_at is saved in any case, status only where it changed.
MarkStarted(w) ==
  status' = IF worker[w].seen = "queued"
            THEN [status EXCEPT ![Req(w)] = "processing"] ELSE status

Start(w) ==
  /\ At(w, "start")
  /\ MarkStarted(w)
  /\ attempts' = [attempts EXCEPT ![Req(w)] = @ + 1]
  /\ Goto(w, "download")
  /\ UNCHANGED <<streamVars, api, sweeping, faults, sent, booked, lapsed>>

\* Mutant of JobRaises: the entry is acknowledged whether the job ran or not.
JobRaisesAcked(w) ==
  /\ worker[w].pc \in {"load", "start"}
  /\ Fault
  /\ Goto(w, "ack")
  /\ UNCHANGED <<streamVars, rowVars, sweeping, historyVars>>

\* The database fails outside every try: before the attempt (with or without
\* having committed), in the generic handler's rollback, or when the session is
\* closed.  process_job raises, and _handle leaves the entry pending.
JobRaises(w) ==
  /\ \/ worker[w].pc \in {"load", "start", "recover"}
     \/ At(w, "ack") /\ worker[w].via # "buried"
  /\ Fault
  /\ \/ UNCHANGED status
     \/ At(w, "start") /\ MarkStarted(w)
  /\ PutAside(w)
  /\ UNCHANGED <<streamVars, api, sweeping, historyVars>>

\* The providers answer, or fail with an error code, or the timeout strikes.
Download(w) ==
  /\ At(w, "download")
  /\ \E next \in {"upload", "fail"} : Goto(w, next)
  /\ UNCHANGED <<streamVars, rowVars, sweeping, faults, historyVars>>

Upload(w) ==
  /\ At(w, "upload")
  /\ sent' = [sent EXCEPT ![w][Req(w)] = @ + 1]
  /\ Goto(w, "book")
  /\ UNCHANGED <<streamVars, rowVars, sweeping, faults, booked, attempts, lapsed>>

\* Mutant of UploadRaises: a failed upload is booked like a good one.
UploadRaisesBooked(w) ==
  /\ At(w, "upload")
  /\ Fault
  /\ Goto(w, "book")
  /\ UNCHANGED <<streamVars, rowVars, sweeping, historyVars>>

\* The upload raises; when only the answer was lost the chat has the file.
UploadRaises(w) ==
  /\ At(w, "upload")
  /\ Fault
  /\ \/ sent' = [sent EXCEPT ![w][Req(w)] = @ + 1]
     \/ UNCHANGED sent
  /\ Goto(w, "fail")
  /\ UNCHANGED <<streamVars, rowVars, sweeping, booked, attempts, lapsed>>

\* consume_download and the bookkeeping of the row are one transaction.
MarkCompleted(w) ==
  /\ booked' = [booked EXCEPT ![w][Req(w)] = @ + 1]
  /\ status' = [status EXCEPT ![Req(w)] = "completed"]

\* _fail, whatever the row says by now.
MarkFailed(w) ==
  /\ status' = [status EXCEPT ![Req(w)] = "failed"]
  /\ UNCHANGED booked

Book(w) ==
  /\ At(w, "book")
  /\ MarkCompleted(w)
  /\ Goto(w, "ack")
  /\ UNCHANGED <<streamVars, api, sweeping, faults, sent, attempts, lapsed>>

Fail(w) ==
  /\ worker[w].pc \in {"fail", "refail"}
  /\ MarkFailed(w)
  /\ Goto(w, "ack")
  /\ UNCHANGED <<streamVars, api, sweeping, faults, sent, attempts, lapsed>>

\* Anything unexpected during the attempt ends in the generic handler; a commit
\* that raised may have taken effect all the same.
AttemptRaises(w) ==
  /\ worker[w].pc \in {"download", "book", "fail"}
  /\ Fault
  /\ \/ UNCHANGED <<status, booked>>
     \/ At(w, "book") /\ MarkCompleted(w)
     \/ At(w, "fail") /\ MarkFailed(w)
  /\ Goto(w, "recover")
  /\ UNCHANGED <<streamVars, api, sweeping, sent, attempts, lapsed>>

\* The handler rolls back and reads the row again.
Recover(w) ==
  /\ At(w, "recover")
  /\ Goto(w, IF status[Req(w)] = "processing" THEN "refail" ELSE "ack")
  /\ UNCHANGED <<streamVars, rowVars, sweeping, faults, historyVars>>

\* The handler's own database calls fail: logged, and the job is acknowledged.
RecoverRaises(w) ==
  /\ worker[w].pc \in {"recover", "refail"}
  /\ Fault
  /\ lapsed' = lapsed \cup {Req(w)}
  /\ Goto(w, "ack")
  /\ UNCHANGED <<streamVars, rowVars, sweeping, sent, booked, attempts>>

\* Mutant of Ack: the entry is deleted first.
AckDeletesFirst(w) ==
  /\ At(w, "ack")
  /\ XDel(worker[w].entry)
  /\ Goto(w, "del")
  /\ UNCHANGED <<rowVars, sweeping, faults, historyVars>>

Ack(w) ==
  /\ At(w, "ack")
  /\ XAck(worker[w].entry)
  /\ Goto(w, "del")
  /\ UNCHANGED <<rowVars, sweeping, faults, historyVars>>

\* Mutant of Del: the finished entry is left in the stream.
DelForgets(w) ==
  /\ At(w, "del")
  /\ PutAside(w)
  /\ UNCHANGED <<streamVars, rowVars, sweeping, faults, historyVars>>

Del(w) ==
  /\ At(w, "del")
  /\ XDel(worker[w].entry)
  /\ PutAside(w)
  /\ UNCHANGED <<rowVars, sweeping, faults, historyVars>>

----------------------------------------------------------------------------
(* The process: crash (or a queue error outside the try), and restart.     *)

Crash(w) ==
  /\ ~At(w, "down")
  /\ Fault
  /\ worker' = [worker EXCEPT ![w] = Stopped]
  /\ sweeping' = [sweeping EXCEPT ![w] = {}]
  /\ UNCHANGED <<streamVars, rowVars, historyVars>>

Restart(w) ==
  /\ At(w, "down")
  /\ Goto(w, "reclaim")
  /\ UNCHANGED <<streamVars, rowVars, sweeping, faults, historyVars>>

----------------------------------------------------------------------------
(* Housekeeping: sweep_stale_requests reads the stale rows, then saves.    *)

\* Mutant of Stale: only rows in "processing" are swept.
StaleProcessing(r) ==
  /\ status[r] = "processing"
  /\ ~\E w \in Workers : worker[w].pc \in Attempting /\ Req(w) = r

Stale(r) ==
  \/ status[r] = "queued" /\ api[r] = "done"
  \/ /\ status[r] = "processing"
     /\ ~\E w \in Workers : worker[w].pc \in Attempting /\ Req(w) = r

SweepSelect(w, S) ==
  /\ ~At(w, "down")
  /\ sweeping[w] = {} /\ S # {}
  /\ \A r \in S : Stale(r)
  /\ sweeping' = [sweeping EXCEPT ![w] = S]
  /\ UNCHANGED <<streamVars, rowVars, worker, faults, historyVars>>

\* Mutant of SweepSave: stale jobs are put back in the queue.
SweepRequeues(w) ==
  /\ sweeping[w] # {}
  /\ status' = [r \in Requests |-> IF r \in sweeping[w] THEN "queued" ELSE status[r]]
  /\ sweeping' = [sweeping EXCEPT ![w] = {}]
  /\ UNCHANGED <<streamVars, api, worker, faults, historyVars>>

SweepSave(w) ==
  /\ sweeping[w] # {}
  /\ status' = [r \in Requests |-> IF r \in sweeping[w] THEN "failed" ELSE status[r]]
  /\ sweeping' = [sweeping EXCEPT ![w] = {}]
  /\ UNCHANGED <<streamVars, api, worker, faults, historyVars>>

SweepRaises(w) ==
  /\ sweeping[w] # {}
  /\ Fault
  /\ sweeping' = [sweeping EXCEPT ![w] = {}]
  /\ UNCHANGED <<streamVars, rowVars, worker, historyVars>>

----------------------------------------------------------------------------
Handler(r) == EnqueueOk(r) \/ MarkEnqueueFailed(r)

HandlerFault(r) == EnqueueRaises(r) \/ EnqueueRepeats(r) \/ ApiCrash(r)

WorkerStep(w) ==
  \/ \E S \in SUBSET pel : Reclaim(w, S)
  \/ Check(w) \/ Bury(w) \/ HandleNext(w) \/ ReadNew(w)
  \/ Load(w) \/ Start(w) \/ Download(w) \/ Upload(w) \/ Book(w)
  \/ Fail(w) \/ Recover(w) \/ Ack(w) \/ Del(w) \/ Restart(w)

WorkerFault(w) ==
  \/ ReadReplyLost(w) \/ QueueError(w) \/ JobRaises(w) \/ UploadRaises(w)
  \/ AttemptRaises(w) \/ RecoverRaises(w) \/ Crash(w)

Sweep(w) ==
  \/ \E S \in SUBSET Requests : SweepSelect(w, S)
  \/ SweepSave(w) \/ SweepRaises(w)

Next ==
  \/ \E r \in Requests : Admit(r) \/ Handler(r) \/ HandlerFault(r)
  \/ \E w \in Workers : WorkerStep(w) \/ WorkerFault(w) \/ Sweep(w)

Spec == Init /\ [][Next]_vars

\* Processes are restarted (restart: unless-stopped) and keep running; an entry
\* left pending becomes idle at last, and every round claims from the oldest
\* id; housekeeping comes back every 300 seconds, and rows grow stale.
Fairness ==
  /\ \A r \in Requests : WF_vars(Handler(r))
  /\ \A w \in Workers :
       /\ WF_vars(WorkerStep(w))
       /\ WF_vars(SweepSave(w))
       /\ \A r \in Requests :
            /\ SF_vars(\E S \in SUBSET pel :
                         (\E e \in S : log[e].req = r) /\ Reclaim(w, S))
            /\ WF_vars(\E S \in SUBSET Requests : r \in S /\ SweepSelect(w, S))

FairSpec == Spec /\ Fairness

----------------------------------------------------------------------------
(* What the pipeline guarantees.                                           *)

EntriesOf(r) == {e \in 1..lastId : log[e].req = r}

\* Every pending entry can still be read from the stream: XDEL never comes
\* before the XACK, so no reclaim ever finds an entry without its payload
\* (ack_and_remove, reclaim_stale).
PendingReadable == pel \subseteq stream

\* An admitted request whose entry was added is never dropped while its row is
\* in flight: its entry is waiting, pending or dead-lettered, unless the very
\* failure could not be recorded (runner._handle, queue.reclaim_stale).
NoJobLost ==
  \A r \in Requests :
    /\ status[r] \in InFlight /\ api[r] = "done"
    /\ EntriesOf(r) # {} /\ r \notin lapsed
    => \E e \in EntriesOf(r) : e \in pel \cup Undelivered \/ log[e].dead > 0

\* A worker debits only files it has itself delivered, however its attempts,
\* crashes and the other workers interleave (the accounting invariant of
\* subscription_service: strictly after a successful upload).
NoDebitWithoutDelivery ==
  \A w \in Workers, r \in Requests : booked[w][r] <= sent[w][r]

\* What has been debited stays settled: no crash, redelivery, late write of the
\* handler or sweep puts a debited request back in flight, where its capacity
\* would be taken a second time (process_job, sweep_stale_requests).
DebitedStaysSettled ==
  \A w \in Workers, r \in Requests : booked[w][r] > 0 => status[r] \in Settled

\* One worker process never debits a request twice, whatever is redelivered.
DebitedOnce == \A w \in Workers, r \in Requests : booked[w][r] <= 1

\* Once a delivery has been booked no further file is sent for the request by
\* that worker, even when its entry comes back (the settled-row check).
NoResendAfterBooking ==
  [][\A w \in Workers, r \in Requests :
       booked[w][r] > 0 => sent'[w][r] = sent[w][r]]_vars

\* A job that kills its worker every time is given up: an entry starts at most
\* MaxDeliveries attempts (dead_letter).
AttemptsBounded ==
  \A r \in Requests : attempts[r] <= MaxDeliveries * Cardinality(EntriesOf(r))

\* XLEN overstates the backlog by at most one finished entry for each fault: an
\* entry that is neither waiting nor pending is about to be deleted, or was
\* stranded by a crash or error after its XACK (ack_and_remove, queue_length).
BacklogOffByFaults ==
  Cardinality({e \in stream \ (pel \cup Undelivered) :
                 ~\E w \in Workers : At(w, "del") /\ worker[w].entry = e}) <= faults

\* Every admitted request settles in the end, whatever crashed or was lost on
\* the way; otherwise it would occupy its entitlement for ever.
EveryRequestSettles ==
  \A r \in Requests : status[r] \in InFlight ~> status[r] \in Settled

\* Every request's entries leave the queue: none is pending or waiting for ever.
EveryEntryLeaves ==
  \A r \in Requests :
    []<>(EntriesOf(r) \cap (pel \cup Undelivered) = {})
=============================================================================
