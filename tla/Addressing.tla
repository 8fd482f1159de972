----------------------------- MODULE Addressing -----------------------------
(***************************************************************************)
(* Whom a reply goes to and which messages it answers (services/send.ts).  *)
(* An address as it is stored is an address, or Unreadable; a missing one  *)
(* is Absent.                                                              *)
(***************************************************************************)
EXTENDS Integers, Sequences

CONSTANTS
  Mailbox,     \* the address of the reader
  Unreadable,  \* what parseFormattedAddress cannot make an address of
  Absent,
  Nobody       \* there is nobody to reply to

\* replyRecipients: the other readers of one's own message, else its Reply-To,
\* else its sender; never oneself.
Recipients(m) ==
  LET Other(a) == a \notin {Mailbox, Unreadable}
      others == SelectSeq(m.to, Other)
  IN IF m.isOutbound /\ others # <<>> THEN others
     ELSE IF m.replyTo \notin {Absent, Unreadable, Mailbox} THEN <<m.replyTo>>
     ELSE IF m.from = Mailbox THEN Nobody
     ELSE <<m.from>>

MaxChain == 20
Oldest == 3

\* referencesChain: the parent's chain and the parent, cut in the middle.
Chain(references, parent) ==
  LET whole == IF parent = Absent THEN references ELSE Append(references, parent)
      n == Len(whole)
  IN IF n <= MaxChain THEN whole
     ELSE SubSeq(whole, 1, Oldest) \o SubSeq(whole, n - (MaxChain - Oldest) + 1, n)
=============================================================================
