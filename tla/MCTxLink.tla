------------------------------ MODULE MCTxLink ------------------------------
(* Instances of TxLink for TLC. *)
EXTENDS TxLink, TLC

=============================================================================
