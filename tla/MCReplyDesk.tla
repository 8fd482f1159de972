---------------------------- MODULE MCReplyDesk ----------------------------
(* A thread of two messages, of a friend and of the reader himself; one     *)
(* generation of drafts or two, of two drafts each.                         *)
EXTENDS ReplyDesk, MCPrompting

Generations == 1..2
Sends == 1..2

Mail(from, to, outbound) ==
  [from |-> from, to |-> to, replyTo |-> "absent", isOutbound |-> outbound]

Letters == {Mail("friend", <<"me">>, FALSE), Mail("me", <<"me">>, TRUE)}
Others == {Mail("friend", <<"me">>, FALSE), Mail("me", <<"cousin", "me">>, TRUE)}
=============================================================================
