---------------------------- MODULE PaymentsProofs ----------------------------
(***************************************************************************)
(* Theorems about Payments, for any number of payments, callbacks, faults  *)
(* and plan edits.  Those on money hold of a database that takes the lock  *)
(* of FOR UPDATE or refuses the statement, not of one that ignores it.     *)
(***************************************************************************)
EXTENDS Payments, TLAPS

----------------------------------------------------------------------------
(* Type correctness.                                                       *)

\* An idle caller's record is typed like any other.
LEMMA IdleCall == Idle \in Call /\ Idle.pc = "idle"
BY PaymentsAssumption DEF Idle, Call

\* A caller that goes on, or is done, keeps a typed record, and the others theirs.
Calling == {"idle", "lock", "verify", "credit", "reject", "confirm"}

LEMMA CallTyped ==
  ASSUME call \in [Callers -> Call], NEW c \in Callers,
         Done(c) \/ \E pc \in Calling : Goto(c, pc)
  PROVE  call' \in [Callers -> Call]
<1>1. CASE Done(c)
  BY <1>1, IdleCall DEF Done
<1>2. ASSUME NEW pc \in Calling, Goto(c, pc) PROVE call' \in [Callers -> Call]
  BY <1>2 DEF Goto, Call, Calling
<1>. QED
  BY <1>1, <1>2

\* The initial states are typed.
LEMMA InitTypeOK == Init => TypeOK
BY IdleCall, PaymentsAssumption DEF Init, TypeOK, Callers, Settled

\* Every verification step, whoever takes it, keeps the types.
LEMMA VerificationTypeOK ==
  ASSUME NEW c \in Callers, TypeOK, Verification(c) \/ LockRaises(c) \/ Refuse(c) \/ Rollback(c)
  PROVE  TypeOK'
<1>1. call' \in [Callers -> Call]
  <2>1. ASSUME Branch(c) PROVE call' \in [Callers -> Call]
    <3>1. CASE status[Pay(c)] = "pending"
      BY <2>1, <3>1 DEF TypeOK, Branch, Call, Pay
    <3>2. CASE status[Pay(c)] # "pending"
      BY <2>1, <3>2, CallTyped DEF TypeOK, Branch
    <3>. QED
      BY <3>1, <3>2
  <2>2. Branch(c) \/ Done(c) \/ \E pc \in Calling : Goto(c, pc)
    BY DEF Verification, LockRow, Verify, Reject, Credit, CreditBlocked, LockRaises, Refuse,
           Rollback, Calling
  <2>. QED
    BY <2>1, <2>2, CallTyped DEF TypeOK
<1>2. Pay(c) \in Payments
  BY DEF TypeOK, Call, Pay
<1>. USE PaymentsAssumption, <1>1, <1>2 DEF TypeOK, Settled, Release, Fault, money, outside, history
<1>3. CASE LockRow(c)
  BY <1>3 DEF LockRow
<1>4. CASE LockRaises(c)
  BY <1>4 DEF LockRaises
<1>5. CASE Verify(c) \/ Refuse(c)
  BY <1>5 DEF Verify, Refuse
<1>6. CASE Reject(c) \/ Credit(c) \/ CreditBlocked(c)
  BY <1>6 DEF Reject, Credit, CreditBlocked
<1>7. CASE Rollback(c)
  BY <1>7 DEF Rollback
<1>. QED
  BY <1>3, <1>4, <1>5, <1>6, <1>7 DEF Verification

\* So do the other actions.
LEMMA NextTypeOK == TypeOK /\ [Next]_vars => TypeOK'
<1>. SUFFICES ASSUME TypeOK, [Next]_vars PROVE TypeOK'
  OBVIOUS
<1>0. ASSUME Done(Reconciler) PROVE call' \in [Callers -> Call]
  BY <1>0, CallTyped DEF TypeOK, Callers
<1>. USE PaymentsAssumption, <1>0 DEF TypeOK, Settled, Call, Callers, At, Goto, Pay, Fault,
                                 money, outside, history
<1>19. ASSUME NEW p \in Payments, RequestSession(p) PROVE TypeOK'
  BY <1>19 DEF RequestSession
<1>18. ASSUME NEW p \in Payments, CreateFails(p) PROVE TypeOK'
  BY <1>18 DEF CreateFails
<1>1. ASSUME NEW p \in Payments, Create(p) PROVE TypeOK'
  BY <1>1 DEF Create
<1>2. ASSUME NEW p \in Payments, Payer(p) PROVE TypeOK'
  BY <1>2 DEF Payer
<1>3. ASSUME NEW p \in Payments, GrowOld(p) PROVE TypeOK'
  BY <1>3 DEF GrowOld
<1>4. ASSUME NEW p \in Payments, EditPlan(p) PROVE TypeOK'
  BY <1>4 DEF EditPlan
<1>5. ASSUME NEW h \in Handlers, NEW p \in Payments, NEW reply \in {"OK", "NOK"},
             Callback(h, p, reply)
      PROVE  TypeOK'
  BY <1>5 DEF Callback
<1>6. ASSUME NEW B \in SUBSET Candidates, SelectCandidates(B) PROVE TypeOK'
  BY <1>6 DEF SelectCandidates, Candidates
<1>7. ASSUME NEW p \in Payments, NextCandidate(p) PROVE TypeOK'
  BY <1>7 DEF NextCandidate
<1>8. CASE Confirm
  BY <1>8 DEF Confirm
<1>9. CASE ReconcilerCrash
  BY <1>9 DEF ReconcilerCrash
<1>10. CASE UNCHANGED vars
  BY <1>10 DEF vars
<1>. QED
  BY <1>19, <1>18, <1>1, <1>2, <1>3, <1>4, <1>5, <1>6, <1>7, <1>8, <1>9, <1>10, VerificationTypeOK
     DEF Next, Reconcile

\* Every variable keeps its type, with or without row locks.
THEOREM TypeCorrect == Spec => []TypeOK
BY InitTypeOK, NextTypeOK, PTL DEF Spec

----------------------------------------------------------------------------
(* The inductive invariant of the money core.                              *)

Transacting(c) == call[c].pc \in {"verify", "credit", "reject"}

\* Whoever decides on a payment holds its row, and nobody has decided yet.
RowHeld == \A c \in Callers :
  Transacting(c) => lock[Pay(c)] = c /\ status[Pay(c)] = "pending"

CreditExact == \A p \in Payments : subs[p] = IF status[p] = "success" THEN 1 ELSE 0

\* A payment is only credited when the gateway has the money.
CreditPaid == \A c \in Callers : At(c, "credit") => gateway[Pay(c)] = "paid"

\* A confirmation still to be sent counts as sent.
Confirmations(p) ==
  confirmed[p] + (IF At(Reconciler, "confirm") /\ Pay(Reconciler) = p THEN 1 ELSE 0)

ConfirmedCredit == \A p \in Payments : Confirmations(p) <= subs[p]

\* No money has come and none will: the session is closed, or its payment
\* window is over.
NoMoney(p) ==
  /\ gateway[p] # "paid"
  /\ gateway[p] = "open" => age[p] # "young"

\* A session is open once its row is saved; callbacks say how it was closed, unless
\* they mislead; reconciliations look at old payments; a rejection under way has
\* its reason.
Justified ==
  /\ \A p \in Payments : status[p] = "absent" <=> gateway[p] \in {"none", "requested"}
  /\ \A h \in Handlers : ~At(h, "idle") =>
       \/ Pay(h) \in misled
       \/ gateway[Pay(h)] = IF call[h].reply = "NOK" THEN "cancelled" ELSE "paid"
  /\ \A p \in batch : age[p] # "young"
  /\ ~At(Reconciler, "idle") =>
       age[Pay(Reconciler)] # "young" /\ call[Reconciler].reply = "none"
  /\ \A c \in Callers : At(c, "reject") => NoMoney(Pay(c)) \/ Pay(c) \in refused \cup misled

FailedJustly == \A p \in Payments : status[p] = "failed" => NoMoney(p) \/ p \in refused \cup misled

MoneyInv ==
  /\ TypeOK
  /\ RowHeld /\ CreditExact /\ CreditPaid /\ ConfirmedCredit
  /\ Justified /\ FailedJustly

\* It holds at first.
LEMMA InitMoneyInv == Init => MoneyInv
BY InitTypeOK, IdleCall, PaymentsAssumption
   DEF Init, MoneyInv, RowHeld, CreditExact, CreditPaid, ConfirmedCredit, Confirmations,
       Justified, FailedJustly, Transacting, At, Callers

\* It is preserved by every step if row locks are granted to one caller at a time.
LEMMA NextMoneyInv == ASSUME RowLock # "ignored" PROVE MoneyInv /\ [Next]_vars => MoneyInv'
<1>. SUFFICES ASSUME MoneyInv, [Next]_vars PROVE MoneyInv'
  OBVIOUS
<1>. TypeOK'
  BY NextTypeOK DEF MoneyInv
<1>. USE IdleCall, PaymentsAssumption, RowLock # "ignored"
     DEF MoneyInv, TypeOK, RowHeld, CreditExact, CreditPaid, ConfirmedCredit, Confirmations,
         Justified, FailedJustly, NoMoney, Transacting, Callers, Call, Settled, At, Goto, Done, Pay,
         Release, Fault, money, outside, history
<1>0. ASSUME NEW p \in Payments, RequestSession(p) PROVE MoneyInv'
  BY <1>0 DEF RequestSession
<1>18. ASSUME NEW p \in Payments, CreateFails(p) PROVE MoneyInv'
  BY <1>18 DEF CreateFails
<1>1. ASSUME NEW p \in Payments, Create(p) PROVE MoneyInv'
  BY <1>1 DEF Create
<1>2. ASSUME NEW p \in Payments, Payer(p) PROVE MoneyInv'
  BY <1>2 DEF Payer
<1>3. ASSUME NEW p \in Payments, GrowOld(p) PROVE MoneyInv'
  BY <1>3 DEF GrowOld
<1>4. ASSUME NEW p \in Payments, EditPlan(p) PROVE MoneyInv'
  BY <1>4 DEF EditPlan
<1>5. ASSUME NEW h \in Handlers, NEW p \in Payments, NEW reply \in {"OK", "NOK"},
             Callback(h, p, reply)
      PROVE  MoneyInv'
  BY <1>5 DEF Callback, Truth
<1>6. ASSUME NEW B \in SUBSET Candidates, SelectCandidates(B) PROVE MoneyInv'
  BY <1>6 DEF SelectCandidates, Candidates
<1>7. ASSUME NEW p \in Payments, NextCandidate(p) PROVE MoneyInv'
  BY <1>7 DEF NextCandidate
<1>8. CASE Confirm
  <2>1. RowHeld' /\ CreditExact' /\ CreditPaid' /\ ConfirmedCredit'
    BY <1>8 DEF Confirm
  <2>2. Justified' /\ FailedJustly'
    BY <1>8 DEF Confirm
  <2>. QED
    BY <2>1, <2>2
<1>9. CASE ReconcilerCrash
  BY <1>9 DEF ReconcilerCrash
<1>10. CASE UNCHANGED vars
  BY <1>10 DEF vars
<1>19. ASSUME NEW c \in Callers, LockRaises(c) PROVE MoneyInv'
  <2>1. RowHeld'
    BY <1>19 DEF LockRaises
  <2>2. CreditExact' /\ CreditPaid' /\ ConfirmedCredit'
    BY <1>19 DEF LockRaises
  <2>3. Justified' /\ FailedJustly'
    BY <1>19 DEF LockRaises
  <2>. QED
    BY <2>1, <2>2, <2>3
<1>11. ASSUME NEW c \in Callers, LockRow(c) PROVE MoneyInv'
  <2>1. RowHeld'
    BY <1>11 DEF LockRow, Branch
  <2>2. CreditExact' /\ CreditPaid' /\ ConfirmedCredit'
    BY <1>11 DEF LockRow, Branch
  <2>3. Justified' /\ FailedJustly'
    BY <1>11 DEF LockRow, Branch
  <2>. QED
    BY <2>1, <2>2, <2>3
<1>12. ASSUME NEW c \in Callers, Verify(c) PROVE MoneyInv'
  <2>1. RowHeld'
    BY <1>12 DEF Verify
  <2>2. CreditExact' /\ CreditPaid' /\ ConfirmedCredit'
    BY <1>12 DEF Verify
  <2>5. At(c, "reject")' => NoMoney(Pay(c)) \/ Pay(c) \in misled
    <3>1. CASE c = Reconciler
      BY <1>12, <3>1 DEF Verify
    <3>2. CASE c \in Handlers
      BY <1>12, <3>2 DEF Verify
    <3>. QED
      BY <3>1, <3>2
  <2>3. Justified'
    <3>0. /\ UNCHANGED <<gateway, age, misled, refused>>
          /\ \A d \in Callers : Pay(d)' = Pay(d) /\ (d # c => call'[d] = call[d])
      BY <1>12 DEF Verify
    <3>3. \A d \in Callers : At(d, "reject")' => NoMoney(Pay(d)) \/ Pay(d) \in refused \cup misled
      BY <2>5, <3>0
    <3>4. \A d \in Callers : At(d, "reject")' => NoMoney(Pay(d))' \/ Pay(d)' \in refused' \cup misled'
      BY <3>0, <3>3
    <3>1. /\ \A p \in Payments : status'[p] = "absent" <=> gateway'[p] \in {"none", "requested"}
          /\ \A p \in batch' : age'[p] # "young"
      BY <1>12 DEF Verify
    <3>2. /\ \A h \in Handlers : ~At(h, "idle")' =>
               \/ Pay(h)' \in misled'
               \/ gateway'[Pay(h)'] = IF call'[h].reply = "NOK" THEN "cancelled" ELSE "paid"
          /\ ~At(Reconciler, "idle")' =>
               age'[Pay(Reconciler)'] # "young" /\ call'[Reconciler].reply = "none"
      BY <1>12 DEF Verify
    <3>. QED
      BY <3>1, <3>2, <3>4
  <2>4. FailedJustly'
    BY <1>12 DEF Verify
  <2>. QED
    BY <2>1, <2>2, <2>3, <2>4
<1>13. ASSUME NEW c \in Callers, Reject(c) PROVE MoneyInv'
  <2>1. RowHeld'
    BY <1>13 DEF Reject
  <2>2. CreditExact' /\ CreditPaid' /\ ConfirmedCredit'
    BY <1>13 DEF Reject
  <2>3. Justified'
    BY <1>13 DEF Reject
  <2>4. FailedJustly'
    BY <1>13 DEF Reject
  <2>. QED
    BY <2>1, <2>2, <2>3, <2>4
<1>14. ASSUME NEW c \in Callers, Credit(c) PROVE MoneyInv'
  <2>1. \A d \in Callers \ {c} : Transacting(d) => Pay(d) # Pay(c)
    BY <1>14 DEF Credit
  <2>2. RowHeld'
    BY <1>14, <2>1 DEF Credit
  <2>3. status[Pay(c)] = "pending" /\ subs[Pay(c)] = 0 /\ confirmed[Pay(c)] = 0
    BY <1>14 DEF Credit
  <2>4. CreditExact' /\ ConfirmedCredit'
    BY <1>14, <2>3 DEF Credit
  <2>5. CreditPaid' /\ FailedJustly'
    BY <1>14 DEF Credit
  <2>6. Justified'
    BY <1>14 DEF Credit
  <2>. QED
    BY <2>2, <2>4, <2>5, <2>6
<1>15. ASSUME NEW c \in Callers, CreditBlocked(c) PROVE MoneyInv'
  <2>1. RowHeld'
    BY <1>15 DEF CreditBlocked
  <2>2. CreditExact' /\ CreditPaid' /\ ConfirmedCredit'
    BY <1>15 DEF CreditBlocked
  <2>3. Justified' /\ FailedJustly'
    BY <1>15 DEF CreditBlocked
  <2>. QED
    BY <2>1, <2>2, <2>3
<1>16. ASSUME NEW c \in Callers, Refuse(c) PROVE MoneyInv'
  <2>1. RowHeld'
    BY <1>16 DEF Refuse
  <2>2. CreditExact' /\ CreditPaid' /\ ConfirmedCredit'
    BY <1>16 DEF Refuse
  <2>3. Justified' /\ FailedJustly'
    BY <1>16 DEF Refuse
  <2>. QED
    BY <2>1, <2>2, <2>3
<1>17. ASSUME NEW c \in Callers, Rollback(c) PROVE MoneyInv'
  <2>1. RowHeld'
    BY <1>17 DEF Rollback
  <2>2. CreditExact' /\ CreditPaid' /\ ConfirmedCredit'
    BY <1>17 DEF Rollback
  <2>3. Justified' /\ FailedJustly'
    BY <1>17 DEF Rollback
  <2>. QED
    BY <2>1, <2>2, <2>3
<1>20. ASSUME NEW c \in Callers, Verification(c) \/ LockRaises(c) \/ Refuse(c) \/ Rollback(c)
       PROVE  MoneyInv'
  BY <1>11, <1>12, <1>13, <1>14, <1>15, <1>16, <1>17, <1>19, <1>20, Zenon DEF Verification
<1>. HIDE IdleCall, PaymentsAssumption
     DEF MoneyInv, TypeOK, RowHeld, CreditExact, CreditPaid, ConfirmedCredit, Confirmations,
         Justified, FailedJustly, NoMoney, Transacting, Callers, Call, Settled, At, Goto, Done, Pay,
         Release, Fault, money, outside, history
<1>. QED
  BY <1>0, <1>18, <1>1, <1>2, <1>3, <1>4, <1>5, <1>6, <1>7, <1>8, <1>9, <1>10, <1>20
     DEF Next, Reconcile

\* With row locks the inductive invariant always holds.
LEMMA MoneyInvariant == ASSUME RowLock # "ignored" PROVE Spec => []MoneyInv
BY InitMoneyInv, NextMoneyInv, PTL DEF Spec

----------------------------------------------------------------------------
(* The safety properties of the money core.                                *)

\* No payment is ever credited twice (verify_and_activate).
THEOREM CreditedAtMostOnce == ASSUME RowLock # "ignored" PROVE Spec => []AtMostOneSubscription
<1>1. MoneyInv => AtMostOneSubscription
  BY DEF MoneyInv, CreditExact, AtMostOneSubscription
<1>. QED
  BY <1>1, MoneyInvariant, PTL

\* The row and the subscription are saved together or not at all
\* (activate_subscription).
THEOREM CreditedWithSuccess == ASSUME RowLock # "ignored" PROVE Spec => []CreditedIffSuccess
<1>1. MoneyInv => CreditedIffSuccess
  BY DEF MoneyInv, CreditExact, CreditedIffSuccess
<1>. QED
  BY <1>1, MoneyInvariant, PTL

\* Whoever still has to write a verdict works on a pending payment (the branch on
\* the status, after the lock).
THEOREM VerdictsOnPending == ASSUME RowLock # "ignored" PROVE Spec => []VerdictOnPending
<1>1. MoneyInv => VerdictOnPending
  BY DEF MoneyInv, RowHeld, Transacting, VerdictOnPending
<1>. QED
  BY <1>1, MoneyInvariant, PTL

\* The payer is told at most once, and of a subscription that exists
\* (reconcile_pending_payments).
THEOREM ConfirmedAtMostOnce == ASSUME RowLock # "ignored" PROVE Spec => []ConfirmedOnce
<1>1. MoneyInv => ConfirmedOnce
  BY DEF MoneyInv, TypeOK, ConfirmedCredit, Confirmations, ConfirmedOnce
<1>. QED
  BY <1>1, MoneyInvariant, PTL

\* Only a refusal of the gateway, or a callback that comes too early or says what
\* is not so, marks a paid payment failed (RECONCILE_MIN_AGE).
THEOREM PaidFailsByAnswer == ASSUME RowLock # "ignored" PROVE Spec => []PaidNotFailed
<1>1. MoneyInv => PaidNotFailed
  BY DEF MoneyInv, FailedJustly, NoMoney, PaidNotFailed
<1>. QED
  BY <1>1, MoneyInvariant, PTL

----------------------------------------------------------------------------
(* Refinement.                                                             *)

\* Every step of the money core is a step of the ledger, or leaves it alone.
LEMMA StepRefines == MoneyInv /\ [Next]_vars => [Ledger!Next]_(Ledger!ledger)
<1>. SUFFICES ASSUME MoneyInv, [Next]_vars PROVE [Ledger!Next]_(Ledger!ledger)
  OBVIOUS
<1>. USE DEF MoneyInv, TypeOK, Callers, Call, At, Pay, money, outside, history,
             Ledger!Next, Ledger!ledger
<1>1. ASSUME NEW p \in Payments, Create(p) PROVE Ledger!Open(p)
  BY <1>1 DEF Create, Justified, Ledger!Open
<1>2. ASSUME NEW p \in Payments, Payer(p) PROVE Ledger!Receive(p) \/ UNCHANGED Ledger!ledger
  BY <1>2 DEF Payer, Ledger!Receive
<1>3. ASSUME NEW c \in Callers, Credit(c) PROVE Ledger!Credit(Pay(c))
  BY <1>3 DEF Credit, RowHeld, Transacting, CreditPaid, Ledger!Credit
<1>4. ASSUME NEW c \in Callers, Reject(c) PROVE Ledger!Reject(Pay(c))
  BY <1>4 DEF Reject, RowHeld, Transacting, Ledger!Reject
<1>5. ASSUME NEW p \in Payments, GrowOld(p) \/ EditPlan(p) \/ NextCandidate(p)
      PROVE  UNCHANGED Ledger!ledger
  BY <1>5 DEF GrowOld, EditPlan, NextCandidate
<1>6. ASSUME NEW h \in Handlers, NEW p \in Payments, NEW reply \in {"OK", "NOK"},
             Callback(h, p, reply)
      PROVE  UNCHANGED Ledger!ledger
  BY <1>6 DEF Callback
<1>7. ASSUME NEW c \in Callers,
             LockRow(c) \/ LockRaises(c) \/ Verify(c) \/ CreditBlocked(c) \/ Refuse(c) \/ Rollback(c)
      PROVE  UNCHANGED Ledger!ledger
  BY <1>7 DEF LockRow, LockRaises, Verify, CreditBlocked, Refuse, Rollback
<1>8. ASSUME (\E B \in SUBSET Candidates : SelectCandidates(B)) \/ Confirm \/ ReconcilerCrash
      PROVE  UNCHANGED Ledger!ledger
  BY <1>8 DEF SelectCandidates, Confirm, ReconcilerCrash
<1>9. CASE UNCHANGED vars
  BY <1>9 DEF vars
<1>10. ASSUME NEW p \in Payments, RequestSession(p) \/ CreateFails(p)
      PROVE  UNCHANGED Ledger!ledger
  BY <1>10 DEF RequestSession, CreateFails
<1>. QED
  BY <1>1, <1>2, <1>3, <1>4, <1>5, <1>6, <1>7, <1>8, <1>9, <1>10 DEF Next, Verification, Reconcile

\* The money core keeps the promise of its documents: every payment settles at
\* most once, is credited at most once, and only if it was paid.
THEOREM ImplementsLedger == ASSUME RowLock # "ignored" PROVE Spec => LedgerSpec
<1>1. Init => Ledger!Init
  BY DEF Init, Ledger!Init
<1>. QED
  BY <1>1, StepRefines, MoneyInvariant, PTL DEF Spec, LedgerSpec, Ledger!Spec
=============================================================================
