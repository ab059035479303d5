-------------------------- MODULE MCNotifications --------------------------
(* Instances of Notifications for TLC.                                     *)
EXTENDS Notifications

CONSTANTS s1, alice, bob

OneOwner == [s \in Submissions |-> alice]
BobFollowsAlice == {<<bob, alice>>}
=============================================================================
