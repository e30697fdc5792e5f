-------------------------- MODULE MCHistoryWriter --------------------------
(***************************************************************************)
(* Small instances of HistoryWriter for TLC.                               *)
(***************************************************************************)
EXTENDS HistoryWriter

=============================================================================
