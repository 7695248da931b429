------------------------------- MODULE Removal -------------------------------
(***************************************************************************)
(* A queue without the messages of one kind, the others in their order.    *)
(* MessageQueue says with it what its list should hold; no step of the     *)
(* models is made of it: what msg_queue_remove does is in MessageQueue, to *)
(* the linked list, and in Player, to the messages the list leads to.      *)
(***************************************************************************)
EXTENDS Naturals, Sequences

\* The sequence s without the elements that are in the set dropped.
Without(s, dropped) ==
  LET retained[i \in 0 .. Len(s)] ==
        IF i = 0 THEN <<>>
        ELSE IF s[i] \in dropped THEN retained[i - 1]
        ELSE Append(retained[i - 1], s[i])
  IN retained[Len(s)]

=============================================================================
