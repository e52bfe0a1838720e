------------------------------ MODULE HomeOnce ------------------------------
(***************************************************************************)
(* What provisioning promises a user: one home, given once and complete.   *)
(***************************************************************************)
CONSTANTS User, Home, None

VARIABLE home \* [User -> Home \cup {None}]

Init == home = [u \in User |-> None]

Give(u) ==
  /\ home[u] = None
  /\ \E h \in Home \ {home[v] : v \in User} : home' = [home EXCEPT ![u] = h]

Next == \E u \in User : Give(u)

Spec == Init /\ [][Next]_home
=============================================================================
