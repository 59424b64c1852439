---------------------------- MODULE MCBroadcast ----------------------------
(* Small instances of the broadcast bill for TLC. *)
EXTENDS BroadcastBilling

\* Two batches of one message, or one batch of two.
TwoRecipients == 1..2
=============================================================================
