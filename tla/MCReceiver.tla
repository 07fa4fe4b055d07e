----------------------------- MODULE MCReceiver -----------------------------
(* Instances of Receiver for TLC. *)
EXTENDS Receiver, TLC

=============================================================================
