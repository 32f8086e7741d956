----------------------------- MODULE MCChatRun -----------------------------
(* The chat over a few requests, Stops, refused messages and panics. *)
EXTENDS ChatRun
=============================================================================
