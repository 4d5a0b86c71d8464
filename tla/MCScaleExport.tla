---------------------------- MODULE MCScaleExport ----------------------------
(* Small instances of ScaleExport for TLC: every constant is given in a .cfg. *)
EXTENDS ScaleExport
=============================================================================
