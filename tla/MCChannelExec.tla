---------------------------- MODULE MCChannelExec ----------------------------
(* Small instances of ChannelExec for TLC. *)
EXTENDS ChannelExec

\* Every pair of streams, each of which may outgrow the window.
LargeOutputs == [Streams -> 0..(Window + 1)]
=============================================================================
