---------------------------- MODULE MCChatSync ----------------------------
(* Model-checking instances of ChatSync.                                   *)
EXTENDS ChatSync
=============================================================================
