--------------------------- MODULE MCFeedbackSend ---------------------------
(* A small instance of FeedbackSend for TLC. *)
EXTENDS FeedbackSend
=============================================================================
