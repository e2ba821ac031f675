---------------------------- MODULE MCCallbacks ----------------------------
(* Two clients register two names, or one of them twice, while two events  *)
(* posted from one buffer are on their way.                                *)
EXTENDS Callbacks
=============================================================================
