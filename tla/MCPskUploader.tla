--------------------------- MODULE MCPskUploader ----------------------------
(* An instance of PskUploader for TLC. *)
EXTENDS PskUploader
=============================================================================
