----------------------------- MODULE MCDesktop -----------------------------
(***************************************************************************)
(* The window manager for TLC: see Desktop.cfg.                            *)
(***************************************************************************)
EXTENDS Desktop

=============================================================================
