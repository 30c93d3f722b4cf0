----------------------------- MODULE PaymentLedger -----------------------------
(***************************************************************************)
(* What the money core promises (docs/PAYMENTS.md, invariants 1 to 3),     *)
(* without callbacks, locks, retries or crashes: a payment is opened once, *)
(* settles once, and yields exactly one subscription if it succeeds, which *)
(* it only does when the gateway has received the money.                   *)
(***************************************************************************)
EXTENDS Integers

CONSTANT Payments

VARIABLES state,     \* of each payment
          received,  \* payments whose money the gateway holds
          credits    \* subscriptions granted for each payment

ledger == <<state, received, credits>>

Init ==
  /\ state = [p \in Payments |-> "absent"]
  /\ received = {}
  /\ credits = [p \in Payments |-> 0]

Open(p) ==
  /\ state[p] = "absent"
  /\ state' = [state EXCEPT ![p] = "pending"]
  /\ UNCHANGED <<received, credits>>

Receive(p) ==
  /\ received' = received \cup {p}
  /\ UNCHANGED <<state, credits>>

Credit(p) ==
  /\ state[p] = "pending" /\ p \in received
  /\ state' = [state EXCEPT ![p] = "success"]
  /\ credits' = [credits EXCEPT ![p] = @ + 1]
  /\ UNCHANGED received

Reject(p) ==
  /\ state[p] = "pending"
  /\ state' = [state EXCEPT ![p] = "failed"]
  /\ UNCHANGED <<received, credits>>

Next == \E p \in Payments : Open(p) \/ Receive(p) \/ Credit(p) \/ Reject(p)

Spec == Init /\ [][Next]_ledger
=============================================================================
