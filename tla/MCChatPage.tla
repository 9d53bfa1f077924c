------------------------------- MODULE MCChatPage -------------------------------
(***************************************************************************)
(* A page that has shown nothing yet and no thread stored; the user acts four   *)
(* times, which makes up to two questions.                                      *)
(***************************************************************************)
EXTENDS ChatPage
=============================================================================
