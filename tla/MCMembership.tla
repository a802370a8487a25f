---------------------------- MODULE MCMembership ----------------------------
(* Small instances of Membership for TLC: the cfg gives every constant. *)
EXTENDS Membership
=============================================================================
