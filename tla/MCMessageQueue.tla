--------------------------- MODULE MCMessageQueue ---------------------------
(* MessageQueue on rings of two or three slots, which hold one or two      *)
(* messages, so that writers find it full and readers find it empty.       *)
EXTENDS MessageQueue
=============================================================================
