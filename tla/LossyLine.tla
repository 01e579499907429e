------------------------------ MODULE LossyLine ------------------------------
(***************************************************************************)
(* What a connection of midiPool promises of the messages broadcast on it: *)
(* they arrive in the order in which they were sent, none twice, none made *)
(* up.  Of the messages that arrive together only the first may be used.   *)
(***************************************************************************)
EXTENDS Naturals, Sequences

CONSTANT Content

VARIABLES
  sent,    \* the messages broadcast, in order
  passed,  \* how many of them have arrived, used or not
  used     \* those the receiver has used

lvars == <<sent, passed, used>>

Init == sent = <<>> /\ passed = 0 /\ used = <<>>

Send == \E c \in Content : sent' = Append(sent, c) /\ UNCHANGED <<passed, used>>

Arrive ==
  /\ passed' \in passed + 1 .. Len(sent)
  /\ used' \in {used, Append(used, sent[passed + 1])}
  /\ UNCHANGED sent

Next == Send \/ Arrive

Spec == Init /\ [][Next]_lvars

=============================================================================
