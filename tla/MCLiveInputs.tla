---------------------------- MODULE MCLiveInputs ----------------------------
(* Instances of LiveInputs for TLC: the websocket, the webhook server, both. *)
EXTENDS LiveInputs

Ways == {<<TRUE, FALSE>>, <<FALSE, TRUE>>, <<TRUE, TRUE>>}
=============================================================================
