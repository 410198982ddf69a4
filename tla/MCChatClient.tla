---------------------------- MODULE MCChatClient ----------------------------
(* An instance of ChatClient for TLC.                                       *)
EXTENDS ChatClient, TLC

CONSTANTS hi, you
=============================================================================
