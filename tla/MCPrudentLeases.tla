--------------------------- MODULE MCPrudentLeases ---------------------------
(***************************************************************************)
(* Small instances of PrudentLeases for TLC.                               *)
(***************************************************************************)
EXTENDS PrudentLeases
=============================================================================
