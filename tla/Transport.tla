----------------------------- MODULE Transport -----------------------------
(***************************************************************************)
(* What a clock slave may see on the client's virtual MIDI port: playing   *)
(* begins with START, CONTINUE comes only while playing, and a jump to the *)
(* start of the loop is always the same four messages in a row, SONG_POS,  *)
(* SONG_POS, STOP, START, with at most one clock tick while stopped.       *)
(***************************************************************************)
EXTENDS Naturals

VARIABLES
  phase,   \* what the transport commands sent so far have put the slave into
  late     \* clock ticks since the last STOP, while stopped

tvars == <<phase, late>>

Playing == {"started", "continued"}

Init == phase = "silent" /\ late = 0

Play ==
  /\ phase \in Playing \cup {"silent", "stopped"}
  /\ phase' = "started"
  /\ late' = 0

Continue == phase \in Playing /\ phase' = "continued" /\ UNCHANGED late

Locate ==
  /\ \/ phase \in Playing \cup {"silent"} /\ phase' = "locating"
     \/ phase = "locating" /\ phase' = "located"
  /\ UNCHANGED late

Halt == phase = "located" /\ phase' = "stopped" /\ UNCHANGED late

LateTick == phase = "stopped" /\ late = 0 /\ late' = 1 /\ UNCHANGED phase

Next == Play \/ Continue \/ Locate \/ Halt \/ LateTick

Spec == Init /\ [][Next]_tvars

=============================================================================
