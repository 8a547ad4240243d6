---------------------------- MODULE MCStoreReset ----------------------------
(***************************************************************************)
(* StoreReset with three UIDVALIDITY values, enough for a mailbox that     *)
(* changes twice and for one that comes back to an earlier value.          *)
(***************************************************************************)
EXTENDS StoreReset

ThreeUids == 1..3
TwoUids == 1..2

=============================================================================
