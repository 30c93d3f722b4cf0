------------------------------- MODULE MCQuota -------------------------------
(* Finite instances of Quota for TLC. *)
EXTENDS Quota, TLC

CONSTANTS r1, r2, r3, u1, u2

\* Some user may buy one download, the group one as well.
TwoSubs == 1..2
Owners == 1 :> u1 @@ 2 :> Chat
Limits == [s \in TwoSubs |-> 1]

\* Its first member sends all but the last request.
Senders == [r \in Requests |-> IF r = r3 THEN u2 ELSE u1]

\* The group has a limit on the first day, and none afterwards.
GroupLimits == [d \in 0..LastDay |-> IF d = 0 THEN 1 ELSE NoLimit]

\* Requests of one sender are interchangeable, and so are handlers.
Symmetry == Permutations(Requests \ {r3}) \cup Permutations(Handlers)
=============================================================================
