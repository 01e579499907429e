---------------------------- MODULE MCAudioPath ----------------------------
(* AudioPath for TLC. *)
EXTENDS AudioPath

CONSTANT MaxPlayed  \* bound: frames recorded if they go on from the sender

(***************************************************************************)
(* The playback side sees nothing of a frame but its number in what the    *)
(* sender was given.  So once frames go on from the sender, few and good   *)
(* recordings are enough; until then, the capture side is taken further,   *)
(* with all its errors.                                                    *)
(***************************************************************************)
Focus ==
  \/ recorded' <= MaxPlayed /\ amiss' = {}
  \/ senders' = <<>> /\ forwarder' = Forward!Waiting /\ ~PacketLost

=============================================================================
