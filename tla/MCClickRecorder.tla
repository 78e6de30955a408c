---------------------------- MODULE MCClickRecorder ----------------------------
(* An instance of ClickRecorder for TLC.                                   *)
EXTENDS ClickRecorder
===============================================================================
