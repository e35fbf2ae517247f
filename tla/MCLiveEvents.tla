---------------------------- MODULE MCLiveEvents ----------------------------
(* Instances of LiveEvents for TLC.                                         *)
EXTENDS LiveEvents, TLC

Streams == Permutations(Stream)
=============================================================================
