------------------------------- MODULE Payments -------------------------------
(***************************************************************************)
(* The money core, apps/api/app/services/payment_service.py: payments are  *)
(* created pending, and verified by gateway callbacks (one API handler     *)
(* each, repeated at will by the payer's browser) and by the worker's      *)
(* reconciliation of old pending payments.  A verification is a database   *)
(* transaction that locks the payment row, asks the gateway while holding  *)
(* the lock, and commits or rolls back.                                    *)
(***************************************************************************)
EXTENDS Integers, FiniteSets

CONSTANTS Payments,       \* payment rows, one gateway authority each
          Handlers,       \* concurrent callback handlers of the API
          Reconciler,     \* the housekeeping task of the worker
          NoCaller,       \* the row lock is free
          RowLock,        \* what the database makes of SELECT ... FOR UPDATE
          MaxCandidates,  \* LIMIT of the reconciliation query, 50 in the code
          MaxFaults,      \* bound: gateway errors and crashes in a behaviour
          MaxEdits,       \* bound: changes of plan scope in a behaviour
          MaxMisled       \* bound: payments of which a callback says what is not so

\* PostgreSQL refuses the statement as the ORM emits it, with the plan joined in by
\* an outer join; it would take the lock for the payment alone.  SQLite, which the
\* tests use, ignores the clause.
ASSUME PaymentsAssumption ==
  /\ Reconciler \notin Handlers
  /\ NoCaller \notin Handlers \cup {Reconciler}
  /\ RowLock \in {"taken", "ignored", "refused"}
  /\ Payments # {} /\ MaxCandidates \in Nat \ {0}
  /\ MaxFaults \in Nat /\ MaxEdits \in Nat /\ MaxMisled \in Nat

VARIABLES
  status,     \* payments.status, "absent" before the insert
  subs,       \* number of subscriptions whose payment_id is the payment
  gateway,    \* the gateway session: requested by the API, then the payer's
  age,        \* of the payment, against the reconciliation window
  scopeOk,    \* the plan's scope still fits the owner the payment records
  lock,       \* holder of the row lock
  call,       \* the verification each caller is in
  batch,      \* candidates the reconciler has still to verify
  confirmed,  \* history: confirmation messages sent by the reconciler
  refused,    \* history: paid sessions the gateway refused to verify
  misled,     \* history: payments of which a callback said what was not so
  faults, edits

money == <<status, subs>>
outside == <<gateway, age, scopeOk, edits>>
history == <<confirmed, refused, misled>>
vars == <<money, outside, lock, call, batch, history, faults>>

Callers == Handlers \cup {Reconciler}
Settled == {"success", "failed"}

\* reply: what the callback's Status parameter says; a reconciliation has none.
\* fits: whether the scope of the plan fitted when it was loaded with the row.
Call == [pc : {"idle", "lock", "verify", "credit", "reject", "confirm"},
         pay : Payments, reply : {"OK", "NOK", "none"}, fits : BOOLEAN]

\* The payment of a caller in no verification means nothing.
Idle == [pc |-> "idle", pay |-> CHOOSE p \in Payments : TRUE, reply |-> "none", fits |-> TRUE]

TypeOK ==
  /\ status \in [Payments -> {"absent", "pending"} \cup Settled]
  /\ subs \in [Payments -> Nat]
  /\ gateway \in [Payments -> {"none", "requested", "open", "paid", "cancelled"}]
  /\ age \in [Payments -> {"young", "due", "old"}]
  /\ scopeOk \in [Payments -> BOOLEAN]
  /\ lock \in [Payments -> Callers \cup {NoCaller}]
  /\ call \in [Callers -> Call]
  /\ batch \subseteq Payments
  /\ confirmed \in [Payments -> Nat]
  /\ refused \subseteq Payments /\ misled \subseteq Payments
  /\ faults \in 0..MaxFaults
  /\ edits \in 0..MaxEdits

Init ==
  /\ status = [p \in Payments |-> "absent"]
  /\ subs = [p \in Payments |-> 0]
  /\ gateway = [p \in Payments |-> "none"]
  /\ age = [p \in Payments |-> "young"]
  /\ scopeOk = [p \in Payments |-> TRUE]
  /\ lock = [p \in Payments |-> NoCaller]
  /\ call = [c \in Callers |-> Idle]
  /\ batch = {}
  /\ confirmed = [p \in Payments |-> 0]
  /\ refused = {} /\ misled = {}
  /\ faults = 0 /\ edits = 0

----------------------------------------------------------------------------
Fault == faults < MaxFaults /\ faults' = faults + 1

At(c, pc) == call[c].pc = pc

Goto(c, pc) == call' = [call EXCEPT ![c].pc = pc]

Done(c) == call' = [call EXCEPT ![c] = Idle]

Pay(c) == call[c].pay

\* The transaction of c ends: its row lock, if it has one, is released.
Release(c) == lock' = [p \in Payments |-> IF lock[p] = c THEN NoCaller ELSE lock[p]]

----------------------------------------------------------------------------
(* Creation, the payer, the passing of time, and the plans page.           *)

\* payments_create flushes a pending row for a plan that is for sale and asks the
\* gateway for a session, in a transaction that nobody sees.
RequestSession(p) ==
  /\ gateway[p] = "none"
  /\ gateway' = [gateway EXCEPT ![p] = "requested"]
  /\ scopeOk' = [scopeOk EXCEPT ![p] = TRUE]
  /\ UNCHANGED <<money, history, age, lock, call, batch, faults, edits>>

\* The authority is written and the row committed; the payer gets his URL.
Create(p) ==
  /\ gateway[p] = "requested"
  /\ status' = [status EXCEPT ![p] = "pending"]
  /\ gateway' = [gateway EXCEPT ![p] = "open"]
  /\ UNCHANGED <<history, subs, age, scopeOk, lock, call, batch, faults, edits>>

\* The amount is no whole number of Rials, the gateway is out of reach, answers
\* nonsense or refuses, or the process dies: no row, and no URL for the payer.
CreateFails(p) ==
  /\ gateway[p] = "requested"
  /\ Fault
  /\ gateway' = [gateway EXCEPT ![p] = "none"]
  /\ UNCHANGED <<money, history, age, scopeOk, lock, call, batch, edits>>

\* The payer pays or gives up on the gateway's page; the gateway takes no money
\* after its payment window, which is shorter than RECONCILE_MIN_AGE.
Payer(p) ==
  /\ gateway[p] = "open"
  /\ \/ /\ age[p] = "young"
        /\ gateway' = [gateway EXCEPT ![p] = "paid"]
     \/ gateway' = [gateway EXCEPT ![p] = "cancelled"]
  /\ UNCHANGED <<money, history, age, scopeOk, lock, call, batch, faults, edits>>

\* created_at crosses RECONCILE_MIN_AGE, then RECONCILE_MAX_AGE.
GrowOld(p) ==
  /\ status[p] # "absent" /\ age[p] # "old"
  /\ age' = [age EXCEPT ![p] = IF @ = "young" THEN "due" ELSE "old"]
  /\ UNCHANGED <<money, history, gateway, scopeOk, lock, call, batch, faults, edits>>

\* patch_plan, at any moment after the scope was looked at.
EditPlan(p) ==
  /\ edits < MaxEdits /\ gateway[p] # "none"
  /\ edits' = edits + 1
  /\ scopeOk' = [scopeOk EXCEPT ![p] = ~@]
  /\ UNCHANGED <<money, history, gateway, age, lock, call, batch, faults>>

----------------------------------------------------------------------------
(* Verification: zarinpal_callback and reconcile_pending_payments call      *)
(* verify_and_activate.                                                     *)

\* What the gateway itself tells the payer's browser to say.
Truth(p) == IF gateway[p] = "paid" THEN "OK" ELSE "NOK"

\* The gateway sends the payer back, and reloading the page calls again.  It is a
\* public GET, whose Status is what the client says, at any time.
Callback(h, p, reply) ==
  /\ At(h, "idle")
  /\ gateway[p] \in {"open", "paid", "cancelled"}
  /\ call' = [call EXCEPT ![h] = [pc |-> "lock", pay |-> p, reply |-> reply, fits |-> TRUE]]
  /\ misled' = IF gateway[p] = "open" \/ reply # Truth(p) THEN misled \cup {p} ELSE misled
  /\ Cardinality(misled') <= MaxMisled
  /\ UNCHANGED <<money, outside, confirmed, refused, lock, batch, faults>>

\* Mutant of Candidates: the reconciler does not wait for the payment window to
\* pass.
CandidatesAtOnce == {p \in Payments : status[p] = "pending" /\ age[p] # "old"}

Candidates == {p \in Payments : status[p] = "pending" /\ age[p] = "due"}

\* The query has a LIMIT and no ORDER BY.
SelectCandidates(B) ==
  /\ At(Reconciler, "idle") /\ batch = {}
  /\ B \subseteq Candidates /\ B # {}
  /\ \/ B = Candidates
     \/ Cardinality(B) = MaxCandidates
  /\ Cardinality(B) <= MaxCandidates
  /\ batch' = B
  /\ UNCHANGED <<money, outside, history, lock, call, faults>>

NextCandidate(p) ==
  /\ At(Reconciler, "idle") /\ p \in batch
  /\ batch' = batch \ {p}
  /\ call' = [call EXCEPT
       ![Reconciler] = [pc |-> "lock", pay |-> p, reply |-> "none", fits |-> TRUE]]
  /\ UNCHANGED <<money, outside, history, lock, faults>>

\* The branch on the status of the row just read, its plan loaded with it.
Branch(c) ==
  IF status[Pay(c)] = "pending"
  THEN call' = [call EXCEPT ![c] =
                  [pc |-> IF call[c].reply = "NOK" THEN "reject" ELSE "verify",
                   pay |-> Pay(c), reply |-> call[c].reply, fits |-> scopeOk[Pay(c)]]]
  ELSE Done(c)

\* Mutants of LockRow: the row is read without a lock; a failed payment is
\* verified again.
LockRowUnlocked(c) ==
  /\ At(c, "lock")
  /\ Branch(c)
  /\ UNCHANGED <<money, outside, history, lock, batch, faults>>

LockRowAnyStatus(c) ==
  /\ At(c, "lock")
  /\ lock[Pay(c)] = NoCaller
  /\ IF status[Pay(c)] # "success"
     THEN /\ lock' = [lock EXCEPT ![Pay(c)] = c]
          /\ Goto(c, IF call[c].reply = "NOK" THEN "reject" ELSE "verify")
     ELSE /\ Done(c)
          /\ UNCHANGED lock
  /\ UNCHANGED <<money, outside, history, batch, faults>>

\* SELECT ... FOR UPDATE answers; a settled row ends the transaction at once.
LockRow(c) ==
  /\ At(c, "lock") /\ RowLock # "refused"
  /\ RowLock = "taken" => lock[Pay(c)] = NoCaller
  /\ Branch(c)
  /\ lock' = IF RowLock = "taken" /\ status[Pay(c)] = "pending"
             THEN [lock EXCEPT ![Pay(c)] = c] ELSE lock
  /\ UNCHANGED <<money, outside, history, batch, faults>>

\* The statement raises, always or by a failure of the database, outside every
\* try: the callback answers 500; the reconciler's round is over.
LockRaises(c) ==
  /\ At(c, "lock")
  /\ IF RowLock = "refused" THEN UNCHANGED faults ELSE Fault
  /\ Done(c)
  /\ batch' = IF c = Reconciler THEN {} ELSE batch
  /\ UNCHANGED <<money, outside, history, lock>>

\* Mutant of Verify: the verdict of the gateway is not looked at.
VerifyAnything(c) ==
  /\ At(c, "verify")
  /\ Goto(c, "credit")
  /\ UNCHANGED <<money, outside, history, lock, batch, faults>>

\* verify_payment: codes 100 and 101 for a paid session, a refusal otherwise.
Verify(c) ==
  /\ At(c, "verify")
  /\ Goto(c, IF gateway[Pay(c)] = "paid" THEN "credit" ELSE "reject")
  /\ UNCHANGED <<money, outside, history, lock, batch, faults>>

\* The gateway refuses a paid session for reasons of its own: any readable
\* answer without code 100 or 101 is a refusal.
Refuse(c) ==
  /\ At(c, "verify")
  /\ Fault
  /\ Goto(c, "reject")
  /\ refused' = refused \cup {Pay(c)}
  /\ UNCHANGED <<money, outside, lock, batch, confirmed, misled>>

\* PaymentGatewayError, or the process dies: the transaction is rolled back; a
\* dead reconciler also forgets the rest of its candidates.
Rollback(c) ==
  /\ call[c].pc \in {"verify", "credit", "reject"}
  /\ Fault
  /\ Release(c)
  /\ Done(c)
  /\ batch' \in {batch} \cup {IF c = Reconciler THEN {} ELSE batch}
  /\ UNCHANGED <<money, outside, history>>

\* Mutant of Reject: a status the branches of LockRow do not know.
RejectCancelled(c) ==
  /\ At(c, "reject")
  /\ status' = [status EXCEPT ![Pay(c)] = "cancelled"]
  /\ Release(c)
  /\ Done(c)
  /\ UNCHANGED <<outside, history, subs, batch, faults>>

Reject(c) ==
  /\ At(c, "reject")
  /\ status' = [status EXCEPT ![Pay(c)] = "failed"]
  /\ Release(c)
  /\ Done(c)
  /\ UNCHANGED <<outside, history, subs, batch, faults>>

\* activate_subscription and the commit.  UNIQUE(transaction_id) cannot trip:
\* a repeated verification of an authority writes the same id to the same row.
Credit(c) ==
  /\ At(c, "credit")
  /\ call[c].fits
  /\ status' = [status EXCEPT ![Pay(c)] = "success"]
  /\ subs' = [subs EXCEPT ![Pay(c)] = @ + 1]
  /\ Release(c)
  /\ IF c = Reconciler THEN Goto(c, "confirm") ELSE Done(c)
  /\ UNCHANGED <<outside, history, batch, faults>>

\* Mutants of CreditBlocked: the transaction is committed all the same; the payer
\* is told of a subscription that was refused.
CreditBlockedCommits(c) ==
  /\ At(c, "credit")
  /\ ~call[c].fits
  /\ status' = [status EXCEPT ![Pay(c)] = "success"]
  /\ Release(c)
  /\ Done(c)
  /\ UNCHANGED <<outside, history, subs, batch, faults>>

CreditBlockedConfirms(c) ==
  /\ At(c, "credit")
  /\ ~call[c].fits
  /\ Release(c)
  /\ IF c = Reconciler THEN Goto(c, "confirm") ELSE Done(c)
  /\ UNCHANGED <<money, outside, history, batch, faults>>

\* The scope did not fit any more: activation_blocked, still pending.
CreditBlocked(c) ==
  /\ At(c, "credit")
  /\ ~call[c].fits
  /\ Release(c)
  /\ Done(c)
  /\ UNCHANGED <<money, outside, history, batch, faults>>

\* Only the reconciler writes to the payer; a callback answers with a page.
Confirm ==
  /\ At(Reconciler, "confirm")
  /\ confirmed' = [confirmed EXCEPT ![Pay(Reconciler)] = @ + 1]
  /\ Done(Reconciler)
  /\ UNCHANGED <<money, outside, lock, batch, refused, misled, faults>>

\* The worker dies between two payments, or before the message.
ReconcilerCrash ==
  /\ call[Reconciler].pc \in {"idle", "confirm"} /\ (batch # {} \/ At(Reconciler, "confirm"))
  /\ Fault
  /\ batch' = {}
  /\ Done(Reconciler)
  /\ UNCHANGED <<money, outside, history, lock>>

----------------------------------------------------------------------------
Verification(c) ==
  LockRow(c) \/ Verify(c) \/ Reject(c) \/ Credit(c) \/ CreditBlocked(c)

Reconcile ==
  \/ \E p \in Payments : NextCandidate(p)
  \/ Confirm

Next ==
  \/ \E p \in Payments :
       RequestSession(p) \/ Create(p) \/ CreateFails(p) \/ Payer(p) \/ GrowOld(p) \/ EditPlan(p)
  \/ \E h \in Handlers, p \in Payments, reply \in {"OK", "NOK"} : Callback(h, p, reply)
  \/ \E B \in SUBSET Candidates : SelectCandidates(B)
  \/ \E c \in Callers : Verification(c) \/ LockRaises(c) \/ Refuse(c) \/ Rollback(c)
  \/ Reconcile
  \/ ReconcilerCrash

Spec == Init /\ [][Next]_vars

\* A transaction under way goes on, and a lock that keeps coming free is granted
\* in the end; the housekeeping loop comes back every 300 seconds.  Neither the
\* payer, nor time, nor the gateway's redirection owes us anything.
Fairness ==
  /\ \A c \in Callers :
       SF_vars(Verification(c)) /\ (RowLock = "refused" => WF_vars(LockRaises(c)))
  /\ WF_vars(Reconcile)
  /\ WF_vars(\E B \in SUBSET Candidates : SelectCandidates(B))

FairSpec == Spec /\ Fairness

----------------------------------------------------------------------------
\* The detailed verification implements the ledger it promises.
Ledger == INSTANCE PaymentLedger WITH
            state <- status, credits <- subs,
            received <- {p \in Payments : gateway[p] = "paid"}

LedgerSpec == Ledger!Spec

\* A payment yields at most one subscription, however many callbacks,
\* reconciliations and crashes overlap (verify_and_activate, invariant #2).
AtMostOneSubscription == \A p \in Payments : subs[p] <= 1

\* The row says "success" exactly when the subscription exists: both are saved
\* in one transaction (verify_and_activate, activate_subscription).
CreditedIffSuccess == \A p \in Payments : status[p] = "success" <=> subs[p] = 1

\* Nobody holds a settled row's lock with a decision still to be written: a
\* verdict is only ever taken on a payment that is still pending.
VerdictOnPending ==
  \A c \in Callers :
    call[c].pc \in {"verify", "credit", "reject"} => status[Pay(c)] = "pending"

\* A payer is told once at most, and only of a subscription that exists.
ConfirmedOnce == \A p \in Payments : confirmed[p] <= subs[p]

\* Somebody who has paid finds his payment failed only if the gateway itself
\* refused to verify it, or a callback came for it too early or with another
\* Status than the gateway's, which the code takes at its word: no crash, no
\* overlap and not the reconciler's clock does that (RECONCILE_MIN_AGE).
PaidNotFailed ==
  \A p \in Payments :
    gateway[p] = "paid" /\ status[p] = "failed" => p \in refused \cup misled

\* runner.py:285-287: reconciliation "is what makes the callback page's
\* 'verification will be retried' true".  A paid payment, once it is old enough to
\* be reconciled, settles, unless it outlives the window or its plan no longer fits.
PaidSettles ==
  \A p \in Payments :
    gateway[p] = "paid" /\ status[p] = "pending" /\ age[p] = "due"
      ~> status[p] \in Settled \/ age[p] = "old" \/ ~scopeOk[p]
=============================================================================
