---------------------------- MODULE MCDemoStream ----------------------------
(* Instances of DemoStream for TLC.                                        *)
EXTENDS DemoStream, TLC
=============================================================================
