---------------------------- MODULE MCAcquisition ----------------------------
(* An instance of Acquisition for TLC. *)
EXTENDS Acquisition

CONSTANTS r1          \* the record of the first page
=============================================================================
