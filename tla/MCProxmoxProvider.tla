------------------------- MODULE MCProxmoxProvider -------------------------
(***************************************************************************)
(* ProxmoxProvider for TLC.                                                *)
(***************************************************************************)
EXTENDS ProxmoxProvider, TLC

=============================================================================
