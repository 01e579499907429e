---------------------------- MODULE BoundedFifo ----------------------------
(***************************************************************************)
(* What the queue of incoming MIDI messages promises to the one thread     *)
(* that fills it and the one that empties it: first in, first out, nothing *)
(* twice, and a message is refused only at a moment when Capacity messages *)
(* are waiting.                                                            *)
(***************************************************************************)
EXTENDS Naturals, Sequences

CONSTANTS Message, NoMessage, Capacity

VARIABLES
  content,  \* the messages waiting, oldest first
  offered,  \* the message the producer is about to put in, or NoMessage
  taken     \* what the consumer got last, or NoMessage

fvars == <<content, offered, taken>>

Init == content = <<>> /\ offered = NoMessage /\ taken = NoMessage

Offer ==
  /\ offered = NoMessage
  /\ offered' \in Message
  /\ UNCHANGED <<content, taken>>

Accept ==
  /\ offered # NoMessage /\ Len(content) < Capacity
  /\ content' = Append(content, offered)
  /\ offered' = NoMessage
  /\ UNCHANGED taken

Refuse ==
  /\ offered # NoMessage /\ Len(content) = Capacity
  /\ offered' = NoMessage
  /\ UNCHANGED <<content, taken>>

Take ==
  /\ content # <<>>
  /\ taken' = Head(content)
  /\ content' = Tail(content)
  /\ UNCHANGED offered

TakeNothing ==
  /\ content = <<>>
  /\ taken' = NoMessage
  /\ UNCHANGED <<content, offered>>

Next == Offer \/ Accept \/ Refuse \/ Take \/ TakeNothing

Spec == Init /\ [][Next]_fvars

=============================================================================
