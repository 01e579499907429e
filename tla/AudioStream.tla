---------------------------- MODULE AudioStream ----------------------------
(***************************************************************************)
(* What becomes of the frames a client's device records, numbered as they  *)
(* are recorded.  They are given to the sender one after the other, each   *)
(* at most once and none before it was recorded, and some are left out;    *)
(* only at places noted as amiss before they are given may there be        *)
(* anything else.  The sender's bytes, cut into frames of the network,     *)
(* are played in order, each frame at most once, and some are left out.    *)
(***************************************************************************)
EXTENDS Integers, Sequences

CONSTANTS
  DeviceFrame, SenderFrame  \* the bytes of a frame of the device, of the network

VARIABLES
  recorded,  \* frames recorded so far
  given,     \* the number of the frame at each place, 0 for anything else
  amiss,     \* places, counted from 0, that did not get a frame of their own
  heard      \* the numbers of the network's frames played

svars == <<recorded, given, amiss, heard>>

Init == recorded = 0 /\ given = <<>> /\ amiss = {} /\ heard = <<>>

Record ==
  /\ recorded' \in Nat /\ recorded' > recorded
  /\ UNCHANGED <<given, amiss, heard>>

\* Places not given yet may go amiss.
PassOver ==
  /\ amiss \subseteq amiss' /\ \A p \in amiss' \ amiss : p >= Len(given)
  /\ UNCHANGED <<recorded, given, heard>>

\* The places whose frame is their own.
Own(f) == {i \in DOMAIN f : i - 1 \notin amiss}

Give ==
  /\ Len(given') >= Len(given) /\ \A i \in DOMAIN given : given'[i] = given[i]
  /\ \A i \in Own(given') : given'[i] \in 1 .. recorded
  /\ \A i, j \in Own(given') : i < j => given'[i] < given'[j]
  /\ UNCHANGED <<recorded, amiss, heard>>

\* A frame of the network, whole and behind all those played before.
Hear ==
  /\ \E n \in 1 .. (Len(given) * DeviceFrame) \div SenderFrame :
       /\ \A i \in DOMAIN heard : heard[i] < n
       /\ heard' = Append(heard, n)
  /\ UNCHANGED <<recorded, given, amiss>>

Next == Record \/ PassOver \/ Give \/ Hear

Spec == Init /\ [][Next]_svars

=============================================================================
