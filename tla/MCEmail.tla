------------------------------ MODULE MCEmail ------------------------------
(* Instances of Email for TLC.                                             *)
EXTENDS Email

\* One column the default answer names, one it does not.
MCChanges == {[contestUpdates |-> FALSE], [unsubscribedAll |-> TRUE]}
=============================================================================
