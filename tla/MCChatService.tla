---------------------------- MODULE MCChatService ----------------------------
(* ChatService on small instances.                                         *)
EXTENDS ChatService

=============================================================================
