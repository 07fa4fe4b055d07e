---------------------------- MODULE MCTwoStations ---------------------------
(* Instances of TwoStations for TLC. *)
EXTENDS TwoStations, TLC

=============================================================================
