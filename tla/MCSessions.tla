----------------------------- MODULE MCSessions -----------------------------
(* Instances of Sessions for TLC. *)
EXTENDS Sessions

CONSTANTS c1, c2, c3

(* Two devices are logged in; the first has refreshed once. *)
Row(known, revoked, next, login) == [known |-> known, revoked |-> revoked,
                                     replacedBy |-> next, login |-> login]
TwoDevices == [t \in Token |->
  CASE t = 1 -> Row(TRUE, TRUE, 2, 1)
    [] t = 2 -> Row(TRUE, FALSE, NoToken, 1)
    [] t = 3 -> Row(TRUE, FALSE, NoToken, 3)
    [] OTHER -> Row(FALSE, FALSE, NoToken, NoToken)]
(* ... or twice. *)
RefreshedTwice == [t \in Token |->
  CASE t = 1 -> Row(TRUE, TRUE, 2, 1)
    [] t = 2 -> Row(TRUE, TRUE, 3, 1)
    [] t = 3 -> Row(TRUE, FALSE, NoToken, 1)
    [] t = 4 -> Row(TRUE, FALSE, NoToken, 4)
    [] OTHER -> Row(FALSE, FALSE, NoToken, NoToken)]
=============================================================================
