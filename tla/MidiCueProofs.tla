--------------------------- MODULE MidiCueProofs ---------------------------
(***************************************************************************)
(* Proofs about MidiCue, for any tick interval, buffer, delay and bounds.  *)
(* CueInv is TypeOK with what makes it inductive: room is left for the     *)
(* message being cued, its bytes are there, and a message being handled    *)
(* stays inside midi_messages_.  HaltInv adds why a stopped slave gets one *)
(* tick at most: clock_rate is 0 from before the STOP until after the      *)
(* START, so send_clock() can only send what it had committed to.          *)
(* NotedInv is why the first erase() of a scan is right: until it, the     *)
(* vector has only been appended to.  The three hold at any speed of the   *)
(* threads.                                                                *)
(*                                                                         *)
(* CuedInv and SlaveInv hold if the spooler keeps up (KeepsUp): all cued   *)
(* messages but the last are stale, so a scan takes up the last one or     *)
(* none, while reader() still sleeps over its bytes.  Hence the slave is   *)
(* where the next command finds it.                                        *)
(***************************************************************************)
EXTENDS MidiCue, SequenceTheorems, TLAPS

CueInv ==
  /\ TypeOK
  /\ reader.pc \in {"parsed", "cueing"} =>
       slot \in Command /\ Len(midi_messages_) < MaxCued
  /\ Handling => spooler.k <= Len(midi_messages_)

HaltInv ==
  /\ spooler.pc \in {"sendThird", "stop"} => clock_rate = 0
  /\ port.last = "STOP" =>
       /\ spooler.pc = "start" /\ clock_rate = 0
       /\ port.ticks <= 1
       /\ ticker = "send" => port.ticks = 0

\* The first erase() of the scan is still to come.
NothingErased == spooler.pc # "sleep" /\ (spooler.pc = "erase" => spooler.k = 1)

\* What a scan handles or has noted was due, and where it was until the first erase().
NotedInv ==
  /\ Handling => ~(midi_messages_[spooler.k].ts < spooler.cur)
  /\ NothingErased =>
       \A j \in 1 .. Len(spooler.idx) :
         /\ spooler.idx[j] \in 1 .. Len(midi_messages_)
         /\ ~(midi_messages_[spooler.idx[j]].ts < spooler.cur)

\* A message that no scan will take any more, the one under way included.
Stale(m) == m.ts < now /\ (spooler.pc # "sleep" => m.ts < spooler.cur)

\* All messages are stale but the last, and the last while its bytes are in slot.
OnlyLastIsFresh ==
  \A i \in 1 .. Len(midi_messages_) :
    \/ Stale(midi_messages_[i])
    \/ i = Len(midi_messages_) /\ reader.pc = "sleeping" /\ midi_messages_[i].cmd = slot

\* A scan handles a message that is not stale, the first it meets.
HandlesFresh ==
  Handling => ~(midi_messages_[spooler.k].ts < spooler.cur) /\ spooler.idx = <<>>

\* The one index that is noted is that of the last message, until it is erased.
ErasesLast ==
  /\ spooler.pc = "sleep" => spooler.idx = <<>>
  /\ spooler.idx # <<>> =>
       \/ spooler.pc = "erase" /\ spooler.k > 1 /\ Len(spooler.idx) = 1
       \/ /\ spooler.idx = <<Len(midi_messages_)>> /\ Len(midi_messages_) > 0
          /\ ~(midi_messages_[Len(midi_messages_)].ts < spooler.cur)
          /\ spooler.pc = "scan" => spooler.k > Len(midi_messages_)
          /\ spooler.pc = "erase" => spooler.k = 1

\* What holds as long as the spooler keeps up with the reader.
CuedInv == OnlyLastIsFresh /\ HandlesFresh /\ ErasesLast

Playing == {"START", "CONTINUE"}

(***************************************************************************)
(* With KeepsUp: where the slave is while a message is being handled.      *)
(***************************************************************************)
SlaveInv ==
  /\ spooler.pc \in {"sleep", "scan", "erase", "first", "note", "sendFirst", "second",
                     "sendSecond"} =>
       port.last \in Playing \cup {"none"}
  /\ spooler.pc \in {"sleep", "scan", "erase", "first", "note"} /\ clock_rate # 0 =>
       port.last \in Playing
  /\ spooler.pc \in {"second", "third", "rate"} /\ slot # "SONG_POS" /\ clock_rate # 0 =>
       port.last \in Playing
  /\ spooler.pc = "sendFirst" =>
       slot = "START" \/ (slot = "CONTINUE" /\ port.last \in Playing)
  /\ spooler.pc \in {"sendSecond", "zero", "zeroAgain", "sendThird", "stop"} =>
       slot = "SONG_POS"
  /\ spooler.pc \in {"zero", "third", "zeroAgain", "sendThird"} =>
       IF slot = "SONG_POS" THEN port.last = "SONG_POS" /\ port.locates = 1
       ELSE port.last \in Playing \cup {"none"}
  /\ spooler.pc = "stop" => port.last = "SONG_POS" /\ port.locates = 2
  /\ spooler.pc = "start" => port.last = "STOP"
  /\ spooler.pc = "rate" => port.last = "START"
  /\ port.last # "SONG_POS" => port.locates = 0

-----------------------------------------------------------------------------

\* erase() of an element that exists.
LEMMA WithoutOne ==
  ASSUME NEW S, NEW q \in Seq(S), NEW i \in 1 .. Len(q)
  PROVE  Without(q, i) \in Seq(S) /\ Len(Without(q, i)) = Len(q) - 1
  <1>1. /\ SubSeq(q, 1, i - 1) \in Seq(S)
        /\ Len(SubSeq(q, 1, i - 1)) = i - 1
    BY SubSeqProperties
  <1>2. /\ SubSeq(q, i + 1, Len(q)) \in Seq(S)
        /\ Len(SubSeq(q, i + 1, Len(q))) = Len(q) - i
    BY SubSeqProperties
  <1>3. /\ Without(q, i) \in Seq(S)
        /\ Len(Without(q, i)) = Len(SubSeq(q, 1, i - 1)) + Len(SubSeq(q, i + 1, Len(q)))
    BY <1>1, <1>2, ConcatProperties DEF Without
  <1>4. ASSUME NEW n \in Nat, NEW j \in 1 .. n
        PROVE  (j - 1) + (n - j) = n - 1
    OBVIOUS
  <1>5. Len(q) \in Nat
    BY LenProperties
  <1>6. (i - 1) + (Len(q) - i) = Len(q) - 1
    BY <1>4, <1>5
  <1> QED
    BY <1>1, <1>2, <1>3, <1>6

\* sendMessage() leaves the port a record of its type.
LEMMA EmitType ==
  ASSUME TypeOK, NEW c \in Command \cup {NoBytes, "STOP"}, Emit(c)
  PROVE  port' \in PortRecord
  BY DEF TypeOK, Emit, Command, NoBytes, PortRecord

\* A step of the spooler that only moves on.
LEMMA GotoType ==
  ASSUME TypeOK, NEW pc \in SpoolerPc, Goto(pc)
  PROVE  spooler' \in SpoolerRecord /\ spooler'.pc = pc /\ spooler'.k = spooler.k
  BY DEF TypeOK, Goto, SpoolerRecord

\* The client starts with nothing cued and a silent port.
LEMMA CueInit == Init => CueInv /\ HaltInv
  <1> SUFFICES ASSUME Init PROVE CueInv /\ HaltInv
    OBVIOUS
  <1> USE TickIntervalAssumption, TimeAssumption DEF Init
  <1>1. midi_messages_ \in Seq(MidiMessage) /\ Len(midi_messages_) = 0
    BY EmptySeq
  <1>2. spooler \in SpoolerRecord
    <2>1. <<>> \in Seq(1 .. MaxCued)
      BY EmptySeq
    <2> QED
      BY <2>1 DEF SpoolerRecord, SpoolerPc, Resting
  <1>3. port \in PortRecord
    BY DEF PortRecord
  <1>4. Len(midi_messages_) <= MaxCued
    BY <1>1
  <1>5. TypeOK
    <2>1. reader \in [pc : {"reading", "parsed", "cueing", "sleeping"}, ts : Int]
      OBVIOUS
    <2>2. alive \in BOOLEAN /\ raced \in BOOLEAN
      OBVIOUS
    <2>3. /\ now \in 0 .. MaxTime
          /\ slot \in Command \cup {NoBytes}
          /\ ticker \in {"test", "send"}
          /\ clock_rate \in {0, TickInterval}
      OBVIOUS
    <2> QED
      BY ONLY <1>1, <1>2, <1>3, <1>4, <2>1, <2>2, <2>3 DEF TypeOK
  <1> QED
    BY <1>1, <1>5 DEF CueInv, HaltInv, Handling, Resting

\* The types, and what makes them inductive.
LEMMA CueStep == CueInv /\ [Next]_vars => CueInv'
  <1> SUFFICES ASSUME CueInv, [Next]_vars PROVE CueInv'
    OBVIOUS
  <1> USE TickIntervalAssumption, TimeAssumption
      DEF CueInv, TypeOK, Handling, readerVars
  <1>1. ASSUME Second PROVE CueInv'
    BY <1>1 DEF Second
  <1>2. ASSUME NEW c \in Command, NEW d \in 0 .. MaxDelay, ReaderParses(c, d) PROVE CueInv'
    BY <1>2 DEF ReaderParses, Lead, Command
  <1>3. ASSUME ReaderCues PROVE CueInv'
    BY <1>3 DEF ReaderCues
  <1>4. ASSUME ReaderCued PROVE CueInv'
    <2> DEFINE m == [cmd |-> slot, ts |-> reader.ts]
    <2>1. m \in MidiMessage
      BY <1>4 DEF ReaderCued, MidiMessage
    <2>2. /\ Append(midi_messages_, m) \in Seq(MidiMessage)
          /\ Len(Append(midi_messages_, m)) = Len(midi_messages_) + 1
      BY <2>1, AppendProperties
    <2>3. /\ midi_messages_' \in Seq(MidiMessage)
          /\ Len(midi_messages_') \in {Len(midi_messages_), Len(midi_messages_) + 1}
          /\ Len(midi_messages_) < MaxCued
      BY <1>4, <2>2 DEF ReaderCued
    <2>4. reader'.pc = "sleeping" /\ raced' \in BOOLEAN
      BY <1>4 DEF ReaderCued
    <2>5. Len(midi_messages_) \in Nat
      BY LenProperties
    <2>6. /\ Len(midi_messages_') <= MaxCued
          /\ Handling => spooler.k <= Len(midi_messages_')
      BY <2>3, <2>5 DEF SpoolerRecord
    <2> QED
      BY <1>4, <2>3, <2>4, <2>6 DEF ReaderCued
  <1>5. ASSUME ReaderLeavesScope PROVE CueInv'
    BY <1>5 DEF ReaderLeavesScope
  <1>6. ASSUME SpoolerWakes PROVE CueInv'
    BY <1>6 DEF SpoolerWakes, At, SpoolerRecord, SpoolerPc
  <1>7. ASSUME SpoolerScans PROVE CueInv'
    <2>1. spooler.k \in 1 .. MaxCued /\ spooler.k <= Len(midi_messages_)
      BY <1>7, LenProperties DEF SpoolerScans, SpoolerRecord
    <2>2. CASE midi_messages_[spooler.k].ts < spooler.cur
      <3>1. spooler' = [pc |-> "scan", cur |-> spooler.cur, k |-> spooler.k + 1,
                        idx |-> spooler.idx]
        BY <1>7, <2>2 DEF SpoolerScans, At, SpoolerRecord
      <3>2. spooler' \in SpoolerRecord /\ spooler'.pc = "scan"
        BY <2>1, <3>1 DEF SpoolerRecord, SpoolerPc
      <3> QED
        BY <1>7, <3>2 DEF SpoolerScans, TouchMessages
    <2>3. CASE ~(midi_messages_[spooler.k].ts < spooler.cur)
      <3>1. Goto(IF slot = NoBytes THEN "note" ELSE "first")
        BY <1>7, <2>3 DEF SpoolerScans
      <3>2. spooler' \in SpoolerRecord /\ spooler'.k = spooler.k
        BY <3>1, GotoType DEF SpoolerPc
      <3> QED
        BY <1>7, <2>1, <3>2 DEF SpoolerScans, TouchMessages
    <2> QED
      BY <2>2, <2>3
  <1>8. ASSUME SpoolerSetsRate PROVE CueInv'
    <2>1. spooler' \in SpoolerRecord /\ spooler'.k = spooler.k
      BY <1>8, GotoType DEF SpoolerSetsRate, SpoolerPc
    <2> QED
      BY <1>8, <2>1 DEF SpoolerSetsRate, At, TouchMessages
  <1>9. ASSUME SpoolerSendsFirst PROVE CueInv'
    <2>1. spooler' \in SpoolerRecord /\ spooler'.k = spooler.k /\ spooler.pc \in SpoolerPc
      BY <1>9, GotoType DEF SpoolerSendsFirst, At, SpoolerPc
    <2>2. port' \in PortRecord
      BY <1>9, EmitType DEF SpoolerSendsFirst, FirstByte
    <2>3. clock_rate' \in {0, TickInterval}
      BY <1>9 DEF SpoolerSendsFirst
    <2> QED
      BY <1>9, <2>1, <2>2, <2>3 DEF SpoolerSendsFirst, At, TouchMessages
  <1>10. ASSUME SpoolerSendsSecond PROVE CueInv'
    <2>1. spooler' \in SpoolerRecord /\ spooler'.k = spooler.k /\ spooler.pc \in SpoolerPc
      BY <1>10, GotoType DEF SpoolerSendsSecond, At, SpoolerPc
    <2>2. port' \in PortRecord
      BY <1>10, EmitType DEF SpoolerSendsSecond
    <2>3. clock_rate' \in {0, TickInterval}
      BY <1>10 DEF SpoolerSendsSecond
    <2> QED
      BY <1>10, <2>1, <2>2, <2>3 DEF SpoolerSendsSecond, At, TouchMessages
  <1>11. ASSUME SpoolerStopsClock PROVE CueInv'
    <2>1. spooler' \in SpoolerRecord /\ spooler'.k = spooler.k
      BY <1>11, GotoType DEF SpoolerStopsClock, SpoolerPc
    <2> QED
      BY <1>11, <2>1 DEF SpoolerStopsClock, At, TouchMessages
  <1>12. ASSUME SpoolerSendsThird PROVE CueInv'
    <2>1. spooler' \in SpoolerRecord /\ spooler'.k = spooler.k /\ spooler.pc \in SpoolerPc
      BY <1>12, GotoType DEF SpoolerSendsThird, At, SpoolerPc
    <2>2. port' \in PortRecord
      BY <1>12, EmitType DEF SpoolerSendsThird
    <2>3. clock_rate' \in {0, TickInterval}
      BY <1>12 DEF SpoolerSendsThird
    <2> QED
      BY <1>12, <2>1, <2>2, <2>3 DEF SpoolerSendsThird, At, TouchMessages
  <1>24. ASSUME SpoolerTestsSecond PROVE CueInv'
    <2>1. spooler' \in SpoolerRecord /\ spooler'.k = spooler.k
      BY <1>24, GotoType DEF SpoolerTestsSecond, SpoolerPc
    <2> QED
      BY <1>24, <2>1 DEF SpoolerTestsSecond, At, TouchMessages
  <1>25. ASSUME SpoolerTestsThird PROVE CueInv'
    <2>1. spooler' \in SpoolerRecord /\ spooler'.k = spooler.k
      BY <1>25, GotoType DEF SpoolerTestsThird, SpoolerPc
    <2> QED
      BY <1>25, <2>1 DEF SpoolerTestsThird, At, TouchMessages
  <1>26. ASSUME SpoolerStopsClockAgain PROVE CueInv'
    <2>1. spooler' \in SpoolerRecord /\ spooler'.k = spooler.k
      BY <1>26, GotoType DEF SpoolerStopsClockAgain, SpoolerPc
    <2> QED
      BY <1>26, <2>1 DEF SpoolerStopsClockAgain, At, TouchMessages
  <1>13. ASSUME SpoolerSendsStop PROVE CueInv'
    <2>1. spooler' \in SpoolerRecord /\ spooler'.k = spooler.k /\ spooler.pc \in SpoolerPc
      BY <1>13, GotoType DEF SpoolerSendsStop, At, SpoolerPc
    <2>2. port' \in PortRecord
      BY <1>13, EmitType DEF SpoolerSendsStop
    <2>3. clock_rate' \in {0, TickInterval}
      BY <1>13 DEF SpoolerSendsStop
    <2> QED
      BY <1>13, <2>1, <2>2, <2>3 DEF SpoolerSendsStop, At, TouchMessages
  <1>14. ASSUME SpoolerSendsStart PROVE CueInv'
    <2>1. spooler' \in SpoolerRecord /\ spooler'.k = spooler.k /\ spooler.pc \in SpoolerPc
      BY <1>14, GotoType DEF SpoolerSendsStart, At, SpoolerPc
    <2>2. port' \in PortRecord
      BY <1>14, EmitType DEF SpoolerSendsStart, Command
    <2>3. clock_rate' \in {0, TickInterval}
      BY <1>14 DEF SpoolerSendsStart
    <2> QED
      BY <1>14, <2>1, <2>2, <2>3 DEF SpoolerSendsStart, At, TouchMessages
  <1>15. ASSUME SpoolerRestoresRate PROVE CueInv'
    <2>1. spooler' \in SpoolerRecord /\ spooler'.k = spooler.k
      BY <1>15, GotoType DEF SpoolerRestoresRate, SpoolerPc
    <2> QED
      BY <1>15, <2>1 DEF SpoolerRestoresRate, At, TouchMessages
  <1>16. ASSUME SpoolerNotes PROVE CueInv'
    <2>1. spooler.k \in 1 .. MaxCued
      BY <1>16, LenProperties DEF SpoolerNotes, At, SpoolerRecord
    <2>2. Append(spooler.idx, spooler.k) \in Seq(1 .. MaxCued)
      BY <2>1, AppendProperties DEF SpoolerRecord
    <2>3. spooler' = [pc |-> "scan", cur |-> spooler.cur, k |-> spooler.k + 1,
                      idx |-> Append(spooler.idx, spooler.k)]
      BY <1>16 DEF SpoolerNotes, SpoolerRecord
    <2>4. spooler' \in SpoolerRecord /\ spooler'.pc = "scan"
      BY <2>1, <2>2, <2>3 DEF SpoolerRecord, SpoolerPc
    <2> QED
      BY <1>16, <2>4 DEF SpoolerNotes
  <1>17. ASSUME SpoolerScanned PROVE CueInv'
    <2>1. spooler' \in SpoolerRecord /\ spooler'.pc = "erase"
      <3>1. spooler' = [pc |-> "erase", cur |-> spooler.cur, k |-> 1, idx |-> spooler.idx]
        BY <1>17 DEF SpoolerScanned, SpoolerRecord
      <3> QED
        BY ONLY TypeOK, <3>1 DEF TypeOK, SpoolerRecord, SpoolerPc
    <2> QED
      BY <1>17, <2>1 DEF SpoolerScanned, At, TouchMessages
  <1>18. ASSUME SpoolerErases PROVE CueInv'
    <2> DEFINE i == spooler.idx[spooler.k]
    <2>1. i \in 1 .. MaxCued
      <3>1. spooler.k \in 1 .. Len(spooler.idx)
        BY <1>18, LenProperties DEF SpoolerErases, SpoolerRecord
      <3> QED
        BY <3>1, ElementOfSeq DEF SpoolerRecord
    <2>2. spooler' \in SpoolerRecord /\ spooler'.pc = "erase"
      <3>1. spooler' = [pc |-> "erase", cur |-> spooler.cur, k |-> spooler.k + 1,
                        idx |-> spooler.idx]
        BY <1>18 DEF SpoolerErases, At, SpoolerRecord
      <3> QED
        BY ONLY TypeOK, <3>1 DEF TypeOK, SpoolerRecord, SpoolerPc
    <2>3. CASE midi_messages_' = midi_messages_
      BY <1>18, <2>2, <2>3 DEF SpoolerErases, TouchMessages
    <2>4. CASE i <= Len(midi_messages_) /\ midi_messages_' = Without(midi_messages_, i)
      <3>1. i \in 1 .. Len(midi_messages_)
        BY <2>1, <2>4, LenProperties
      <3>2. /\ midi_messages_' \in Seq(MidiMessage)
            /\ Len(midi_messages_') = Len(midi_messages_) - 1
            /\ Len(midi_messages_) \in Nat
        BY <2>4, <3>1, WithoutOne, LenProperties
      <3> QED
        BY <1>18, <2>2, <3>2 DEF SpoolerErases, TouchMessages
    <2> QED
      BY <1>18, <2>3, <2>4 DEF SpoolerErases
  <1>19. ASSUME SpoolerRests PROVE CueInv'
    <2>1. spooler' \in SpoolerRecord /\ spooler'.pc = "sleep"
      <3>1. <<>> \in Seq(1 .. MaxCued)
        BY EmptySeq
      <3> QED
        BY <1>19, <3>1 DEF SpoolerRests, Resting, SpoolerRecord, SpoolerPc
    <2> QED
      BY <1>19, <2>1 DEF SpoolerRests, At, TouchMessages
  <1>20. ASSUME RaceKills PROVE CueInv'
    BY <1>20 DEF RaceKills
  <1>21. ASSUME TickerCommits PROVE CueInv'
    BY <1>21 DEF TickerCommits
  <1>22. ASSUME TickerSends PROVE CueInv'
    BY <1>22 DEF TickerSends, PortRecord
  <1>23. CASE UNCHANGED vars
    BY <1>23 DEF vars
  <1> QED
    BY <1>1, <1>2, <1>3, <1>4, <1>5, <1>6, <1>7, <1>8, <1>9, <1>10, <1>11,
       <1>12, <1>13, <1>14, <1>15, <1>16, <1>17, <1>18, <1>19, <1>20, <1>21,
       <1>22, <1>23, <1>24, <1>25, <1>26
       DEF Next, Reader, Spooler, Ticker

\* A stopped slave is about to be started, and the clock rests.
LEMMA HaltStep == CueInv /\ HaltInv /\ [Next]_vars => HaltInv'
  <1> SUFFICES ASSUME CueInv, HaltInv, [Next]_vars PROVE HaltInv'
    OBVIOUS
  <1> USE DEF CueInv, TypeOK, HaltInv, readerVars, SpoolerRecord, SpoolerPc,
      PortRecord, NoBytes, Command
  <1>1. ASSUME Second PROVE HaltInv'
    BY <1>1 DEF Second
  <1>2. ASSUME NEW c \in Command, NEW d \in 0 .. MaxDelay, ReaderParses(c, d) PROVE HaltInv'
    BY <1>2 DEF ReaderParses, Lead, Command
  <1>3. ASSUME ReaderCues PROVE HaltInv'
    BY <1>3 DEF ReaderCues
  <1>4. ASSUME ReaderCued PROVE HaltInv'
    BY <1>4 DEF ReaderCued
  <1>5. ASSUME ReaderLeavesScope PROVE HaltInv'
    BY <1>5 DEF ReaderLeavesScope
  <1>6. ASSUME SpoolerWakes PROVE HaltInv'
    BY <1>6 DEF SpoolerWakes, At, SpoolerRecord, SpoolerPc
  <1>7. ASSUME SpoolerScans PROVE HaltInv'
    BY <1>7 DEF SpoolerScans, At, Goto, TouchMessages, FirstByte, Emit
  <1>8. ASSUME SpoolerSetsRate PROVE HaltInv'
    BY <1>8 DEF SpoolerSetsRate, At, Goto, TouchMessages, FirstByte, Emit, SpoolerPc
  <1>9. ASSUME SpoolerSendsFirst PROVE HaltInv'
    BY <1>9 DEF SpoolerSendsFirst, At, Goto, TouchMessages, FirstByte, Emit
  <1>10. ASSUME SpoolerSendsSecond PROVE HaltInv'
    BY <1>10 DEF SpoolerSendsSecond, At, Goto, TouchMessages, FirstByte, Emit
  <1>11. ASSUME SpoolerStopsClock PROVE HaltInv'
    BY <1>11 DEF SpoolerStopsClock, At, Goto, TouchMessages, FirstByte, Emit
  <1>12. ASSUME SpoolerSendsThird PROVE HaltInv'
    BY <1>12 DEF SpoolerSendsThird, At, Goto, TouchMessages, FirstByte, Emit
  <1>24. ASSUME SpoolerTestsSecond PROVE HaltInv'
    BY <1>24 DEF SpoolerTestsSecond, At, Goto, TouchMessages, FirstByte
  <1>25. ASSUME SpoolerTestsThird PROVE HaltInv'
    BY <1>25 DEF SpoolerTestsThird, At, Goto, TouchMessages, FirstByte
  <1>26. ASSUME SpoolerStopsClockAgain PROVE HaltInv'
    BY <1>26 DEF SpoolerStopsClockAgain, At, Goto
  <1>13. ASSUME SpoolerSendsStop PROVE HaltInv'
    BY <1>13 DEF SpoolerSendsStop, At, Goto, TouchMessages, FirstByte, Emit
  <1>14. ASSUME SpoolerSendsStart PROVE HaltInv'
    BY <1>14 DEF SpoolerSendsStart, At, Goto, TouchMessages, FirstByte, Emit
  <1>15. ASSUME SpoolerRestoresRate PROVE HaltInv'
    BY <1>15 DEF SpoolerRestoresRate, At, Goto, TouchMessages, FirstByte, Emit
  <1>16. ASSUME SpoolerNotes PROVE HaltInv'
    BY <1>16 DEF SpoolerNotes, At, Goto, TouchMessages, FirstByte, Emit
  <1>17. ASSUME SpoolerScanned PROVE HaltInv'
    BY <1>17 DEF SpoolerScanned, At, Goto, TouchMessages, FirstByte, Emit
  <1>18. ASSUME SpoolerErases PROVE HaltInv'
    BY <1>18 DEF SpoolerErases, At, Goto, TouchMessages, FirstByte, Emit
  <1>19. ASSUME SpoolerRests PROVE HaltInv'
    BY <1>19 DEF SpoolerRests, At, Resting
  <1>20. ASSUME RaceKills PROVE HaltInv'
    BY <1>20 DEF RaceKills
  <1>21. ASSUME TickerCommits PROVE HaltInv'
    BY <1>21 DEF TickerCommits
  <1>22. ASSUME TickerSends PROVE HaltInv'
    BY <1>22 DEF TickerSends, PortRecord
  <1>23. CASE UNCHANGED vars
    BY <1>23 DEF vars
  <1> QED
    BY <1>1, <1>2, <1>3, <1>4, <1>5, <1>6, <1>7, <1>8, <1>9, <1>10, <1>11,
       <1>12, <1>13, <1>14, <1>15, <1>16, <1>17, <1>18, <1>19, <1>20, <1>21,
       <1>22, <1>23, <1>24, <1>25, <1>26
       DEF Next, Reader, Spooler, Ticker

\* CueInv and HaltInv are invariants of the client.
THEOREM CueInvariant == Spec => [](CueInv /\ HaltInv)
  <1>1. CueInv /\ HaltInv /\ [Next]_vars => (CueInv /\ HaltInv)'
    BY CueStep, HaltStep
  <1> QED
    BY CueInit, <1>1, PTL DEF Spec

\* Every variable of the client keeps its type and midi_messages_ its bound.
THEOREM TypeCorrect == Spec => []TypeOK
  BY CueInvariant, PTL DEF CueInv

\* However the three threads interleave, a slave stopped for a jump gets at
\* most one tick before it is started.
THEOREM AtMostOneLateTick == Spec => []OneLateTick
  <1>1. HaltInv => OneLateTick
    BY DEF HaltInv, OneLateTick
  <1> QED
    BY CueInvariant, <1>1, PTL

-----------------------------------------------------------------------------
(* The first erase() of a scan.                                            *)

\* What Goto() leaves of the spooler's state.
LEMMA GotoKeeps ==
  ASSUME TypeOK, NEW pc \in SpoolerPc, Goto(pc)
  PROVE  /\ spooler'.pc = pc /\ spooler'.k = spooler.k
         /\ spooler'.cur = spooler.cur /\ spooler'.idx = spooler.idx
  BY DEF TypeOK, Goto, SpoolerRecord

\* The seconds of the cued messages.
LEMMA TimesAreInts ==
  ASSUME TypeOK
  PROVE  \A i \in 1 .. Len(midi_messages_) : midi_messages_[i].ts \in Int
  <1>1. \A i \in 1 .. Len(midi_messages_) : midi_messages_[i] \in MidiMessage
    BY ElementOfSeq DEF TypeOK
  <1> QED
    BY <1>1 DEF MidiMessage

\* Nothing is noted at the start.
LEMMA NotedInit == Init => NotedInv
  BY DEF Init, Resting, NotedInv, NothingErased, Handling

\* The vector is the same, or has one message more at its end.
Appended ==
  /\ Len(midi_messages_) <= Len(midi_messages_')
  /\ \A i \in 1 .. Len(midi_messages_) : midi_messages_'[i] = midi_messages_[i]

\* A step that leaves the spooler where it is, or moves it on within a message.
LEMMA NotedStays ==
  ASSUME CueInv, NotedInv, Appended, Len(midi_messages_') \in Nat,
         UNCHANGED <<spooler.k, spooler.cur, spooler.idx>>,
         spooler'.pc = spooler.pc \/ (Handling /\ spooler'.pc \notin {"sleep", "erase"})
  PROVE  NotedInv'
  <1>1. Len(midi_messages_) \in Nat
    BY LenProperties DEF CueInv, TypeOK
  <1>2. ASSUME NEW i \in 1 .. Len(midi_messages_)
        PROVE  i \in 1 .. Len(midi_messages_') /\ midi_messages_'[i] = midi_messages_[i]
    BY <1>1 DEF Appended
  <1>3. Handling' => Handling /\ spooler.k \in 1 .. Len(midi_messages_)
    BY <1>1 DEF Handling, CueInv, TypeOK, SpoolerRecord
  <1>4. NothingErased' => NothingErased
    BY DEF NothingErased, Handling
  <1>5. Handling' => ~(midi_messages_'[spooler'.k].ts < spooler'.cur)
    BY <1>2, <1>3 DEF NotedInv
  <1>6. ASSUME NothingErased', NEW j \in 1 .. Len(spooler'.idx)
        PROVE  /\ spooler'.idx[j] \in 1 .. Len(midi_messages_')
               /\ ~(midi_messages_'[spooler'.idx[j]].ts < spooler'.cur)
    <2>1. /\ spooler.idx[j] \in 1 .. Len(midi_messages_)
          /\ ~(midi_messages_[spooler.idx[j]].ts < spooler.cur)
      BY <1>4, <1>6 DEF NotedInv
    <2> QED
      BY <1>2, <2>1
  <1> QED
    BY <1>5, <1>6 DEF NotedInv

\* What a scan has noted stays right until its first erase().
LEMMA NotedStep == CueInv /\ NotedInv /\ [Next]_vars => NotedInv'
  <1> SUFFICES ASSUME CueInv, NotedInv, [Next]_vars PROVE NotedInv'
    OBVIOUS
  <1>1. Len(midi_messages_) \in Nat
    BY LenProperties DEF CueInv, TypeOK
  <1>2. CASE Second \/ RaceKills \/ Ticker \/ UNCHANGED vars
    <2>1. UNCHANGED <<spooler, midi_messages_>>
      BY <1>2 DEF Second, RaceKills, Ticker, TickerCommits, TickerSends, vars
    <2> QED
      BY <2>1 DEF NotedInv, NothingErased, Handling
  <1>3. CASE Reader
    <2>1. CASE UNCHANGED <<spooler, midi_messages_>>
      BY <2>1 DEF NotedInv, NothingErased, Handling
    <2>2. CASE ReaderCued
      <3> DEFINE m == [cmd |-> slot, ts |-> reader.ts]
      <3>1. m \in MidiMessage
        BY <2>2 DEF ReaderCued, CueInv, TypeOK, MidiMessage
      <3>2. /\ Len(Append(midi_messages_, m)) = Len(midi_messages_) + 1
            /\ \A i \in 1 .. Len(midi_messages_) : Append(midi_messages_, m)[i] = midi_messages_[i]
        BY <3>1, AppendProperties DEF CueInv, TypeOK
      <3>3. Appended /\ Len(midi_messages_') \in Nat
        BY <1>1, <2>2, <3>2 DEF ReaderCued, Appended
      <3> QED
        BY <2>2, <3>3, NotedStays DEF ReaderCued
    <2> QED
      BY <1>3, <2>1, <2>2 DEF Reader, ReaderParses, ReaderCues, ReaderLeavesScope
  <1>4. CASE SpoolerWakes
    <2>1. spooler'.pc = "scan" /\ Len(spooler'.idx) = 0
      BY <1>4 DEF SpoolerWakes
    <2> QED
      BY <2>1 DEF NotedInv, NothingErased, Handling
  <1>5. CASE SpoolerScans
    <2>1. CASE midi_messages_[spooler.k].ts < spooler.cur
      <3>1. /\ spooler'.pc = "scan" /\ spooler.pc = "scan" /\ UNCHANGED midi_messages_
            /\ spooler'.cur = spooler.cur /\ spooler'.idx = spooler.idx
        BY <1>5, <2>1 DEF SpoolerScans, At, CueInv, TypeOK, SpoolerRecord
      <3> QED
        BY <3>1 DEF NotedInv, NothingErased, Handling
    <2>2. CASE ~(midi_messages_[spooler.k].ts < spooler.cur)
      <3>1. /\ spooler'.pc \in {"note", "first"} /\ spooler.pc = "scan"
            /\ UNCHANGED midi_messages_
            /\ spooler'.cur = spooler.cur /\ spooler'.idx = spooler.idx
            /\ spooler'.k = spooler.k
        BY <1>5, <2>2 DEF SpoolerScans, At, Goto, CueInv, TypeOK, SpoolerRecord
      <3> QED
        BY <2>2, <3>1 DEF NotedInv, NothingErased, Handling
    <2> QED
      BY <2>1, <2>2
  <1>6. CASE SpoolerNotes
    <2> DEFINE n == Len(spooler.idx)
    <2>1. /\ Handling /\ spooler.k \in 1 .. Len(midi_messages_) /\ UNCHANGED midi_messages_
          /\ ~(midi_messages_[spooler.k].ts < spooler.cur)
      BY <1>1, <1>6 DEF SpoolerNotes, At, Handling, CueInv, TypeOK, SpoolerRecord, NotedInv
    <2>2. /\ spooler'.pc = "scan" /\ spooler'.cur = spooler.cur
          /\ spooler'.idx = Append(spooler.idx, spooler.k)
      BY <1>6 DEF SpoolerNotes, CueInv, TypeOK, SpoolerRecord
    <2>3. /\ Len(spooler'.idx) = n + 1 /\ n \in Nat
          /\ \A j \in 1 .. n : spooler'.idx[j] = spooler.idx[j]
          /\ spooler'.idx[n + 1] = spooler.k
      <3>1. spooler.idx \in Seq(1 .. MaxCued) /\ spooler.k \in 1 .. MaxCued
        BY <1>1, <2>1, TimeAssumption DEF CueInv, TypeOK, SpoolerRecord
      <3> QED
        BY <2>2, <3>1, AppendProperties, LenProperties
    <2>4. NothingErased
      BY <1>6 DEF SpoolerNotes, At, NothingErased
    <2>5. ASSUME NEW j \in 1 .. Len(spooler'.idx)
          PROVE  /\ spooler'.idx[j] \in 1 .. Len(midi_messages_)
                 /\ ~(midi_messages_[spooler'.idx[j]].ts < spooler.cur)
      <3>1. j \in 1 .. n \/ j = n + 1
        BY <2>3
      <3> QED
        BY <2>1, <2>3, <2>4, <3>1 DEF NotedInv
    <2> QED
      BY <2>1, <2>2, <2>5 DEF NotedInv, Handling
  <1>7. CASE SpoolerScanned
    <2>1. /\ spooler.pc = "scan" /\ spooler'.pc = "erase" /\ spooler'.k = 1
          /\ spooler'.cur = spooler.cur /\ spooler'.idx = spooler.idx
          /\ UNCHANGED midi_messages_
      BY <1>7 DEF SpoolerScanned, At, CueInv, TypeOK, SpoolerRecord
    <2> QED
      BY <2>1 DEF NotedInv, NothingErased, Handling
  <1>8. CASE SpoolerErases
    <2>1. spooler'.pc = "erase" /\ spooler'.k = spooler.k + 1 /\ spooler.k \in Nat \ {0}
      BY <1>8 DEF SpoolerErases, At, CueInv, TypeOK, SpoolerRecord
    <2> QED
      BY <2>1 DEF NotedInv, NothingErased, Handling
  <1>9. CASE SpoolerRests
    BY <1>9 DEF SpoolerRests, Resting, NotedInv, NothingErased, Handling
  <1>10. CASE \/ SpoolerSetsRate \/ SpoolerSendsFirst \/ SpoolerTestsSecond
              \/ SpoolerSendsSecond \/ SpoolerStopsClock \/ SpoolerTestsThird
              \/ SpoolerStopsClockAgain \/ SpoolerSendsThird \/ SpoolerSendsStop
              \/ SpoolerSendsStart \/ SpoolerRestoresRate
    <2>1. /\ Handling /\ UNCHANGED midi_messages_
          /\ \E pc \in SpoolerPc \ {"sleep", "scan", "erase"} : Goto(pc)
      BY <1>10 DEF SpoolerSetsRate, SpoolerSendsFirst, SpoolerTestsSecond, SpoolerSendsSecond,
           SpoolerStopsClock, SpoolerTestsThird, SpoolerStopsClockAgain, SpoolerSendsThird,
           SpoolerSendsStop, SpoolerSendsStart, SpoolerRestoresRate, At, Handling, SpoolerPc
    <2>2. /\ spooler'.pc \notin {"sleep", "erase"}
          /\ UNCHANGED <<spooler.k, spooler.cur, spooler.idx>>
      BY <2>1, GotoKeeps DEF CueInv
    <2>3. Appended
      BY <1>1, <2>1 DEF Appended
    <2> QED
      BY <1>1, <2>1, <2>2, <2>3, NotedStays
  <1> QED
    BY <1>2, <1>3, <1>4, <1>5, <1>6, <1>7, <1>8, <1>9, <1>10 DEF Next, Spooler

\* At any speed of the threads, and however many indices a scan notes, its first
\* erase() takes out a message the scan found due.
THEOREM FirstErase == Spec => FirstEraseIsRight
  <1> DEFINE Right ==
        spooler.pc = "erase" /\ spooler.k = 1 /\ spooler'.k = 2 =>
          /\ alive'
          /\ \E i \in DOMAIN midi_messages_ :
               /\ midi_messages_' = Without(midi_messages_, i)
               /\ midi_messages_[i].ts >= spooler.cur
  <1>1. CueInv /\ NotedInv /\ [Next]_vars => [Right]_vars
    <2> SUFFICES ASSUME CueInv, NotedInv, [Next]_vars,
                        spooler.pc = "erase", spooler.k = 1, spooler'.k = 2
                 PROVE  /\ alive'
                        /\ \E i \in DOMAIN midi_messages_ :
                             /\ midi_messages_' = Without(midi_messages_, i)
                             /\ midi_messages_[i].ts >= spooler.cur
      OBVIOUS
    <2>1. SpoolerErases
      <3>1. spooler' # spooler
        OBVIOUS
      <3>2. ~SpoolerRests
        BY DEF SpoolerRests, Resting
      <3> QED
        BY <3>1, <3>2 DEF Next, Reader, Spooler, Ticker, vars, Second, ReaderParses, ReaderCues,
             ReaderCued, ReaderLeavesScope, SpoolerWakes, SpoolerScans, SpoolerSetsRate,
             SpoolerSendsFirst, SpoolerTestsSecond, SpoolerSendsSecond, SpoolerStopsClock,
             SpoolerTestsThird, SpoolerStopsClockAgain, SpoolerSendsThird, SpoolerSendsStop,
             SpoolerSendsStart, SpoolerRestoresRate, SpoolerNotes, SpoolerScanned,
             RaceKills, TickerCommits, TickerSends, At
    <2> DEFINE i == spooler.idx[1]
    <2>2. i \in 1 .. Len(midi_messages_) /\ ~(midi_messages_[i].ts < spooler.cur)
      <3>1. 1 \in 1 .. Len(spooler.idx)
        BY <2>1, LenProperties DEF SpoolerErases, CueInv, TypeOK, SpoolerRecord
      <3> QED
        BY <3>1 DEF NotedInv, NothingErased
    <2>3. Len(midi_messages_) \in Nat /\ DOMAIN midi_messages_ = 1 .. Len(midi_messages_)
      BY LenProperties DEF CueInv, TypeOK
    <2>4. alive' /\ midi_messages_' = Without(midi_messages_, i)
      <3>1. i <= Len(midi_messages_) /\ spooler.idx[spooler.k] = i
        BY <2>2, <2>3
      <3>2. /\ alive
            /\ midi_messages_' = Without(midi_messages_, spooler.idx[spooler.k]) /\ alive' = alive
        BY <2>1, <3>1 DEF SpoolerErases, At
      <3> QED
        BY <3>1, <3>2, Zenon
    <2>5. midi_messages_[i].ts >= spooler.cur
      <3>1. TypeOK
        BY DEF CueInv
      <3>2. midi_messages_[i].ts \in Int
        BY <2>2, <3>1, TimesAreInts, Zenon
      <3>3. spooler.cur \in Int
        BY <3>1, TimeAssumption DEF TypeOK, SpoolerRecord
      <3> QED
        BY <2>2, <3>2, <3>3
    <2> QED
      BY <2>2, <2>3, <2>4, <2>5
  <1>2. Init => CueInv /\ HaltInv /\ NotedInv
    BY CueInit, NotedInit
  <1>3. CueInv /\ HaltInv /\ NotedInv /\ [Next]_vars => (CueInv /\ HaltInv /\ NotedInv)'
    BY CueStep, HaltStep, NotedStep
  <1> QED
    BY <1>1, <1>2, <1>3, PTL DEF Spec, FirstEraseIsRight

-----------------------------------------------------------------------------
(* The spooler that keeps up.                                              *)

\* The message being handled is the last one, and slot still has its bytes.
LEMMA HandledIsLast ==
  ASSUME CueInv, CuedInv, Handling
  PROVE  /\ spooler.k = Len(midi_messages_) /\ Len(midi_messages_) > 0
         /\ reader.pc = "sleeping"
         /\ slot = midi_messages_[spooler.k].cmd /\ slot \in Command
  <1>1. spooler.k \in 1 .. Len(midi_messages_)
    BY LenProperties DEF CueInv, TypeOK, SpoolerRecord
  <1>2. ~Stale(midi_messages_[spooler.k])
    BY DEF CuedInv, HandlesFresh, Stale, Handling
  <1>3. /\ spooler.k = Len(midi_messages_) /\ reader.pc = "sleeping"
        /\ midi_messages_[spooler.k].cmd = slot
    BY <1>1, <1>2 DEF CuedInv, OnlyLastIsFresh
  <1>4. midi_messages_[spooler.k] \in MidiMessage
    BY <1>1, ElementOfSeq DEF CueInv, TypeOK
  <1> QED
    BY <1>1, <1>3, <1>4 DEF MidiMessage

\* erase() of the last element.
LEMMA WithoutLast ==
  ASSUME NEW S, NEW q \in Seq(S), Len(q) > 0
  PROVE  /\ Len(q) \in 1 .. Len(q)
         /\ Without(q, Len(q)) \in Seq(S) /\ Len(Without(q, Len(q))) = Len(q) - 1
         /\ \A i \in 1 .. Len(q) - 1 : Without(q, Len(q))[i] = q[i]
  <1> DEFINE a == SubSeq(q, 1, Len(q) - 1)
             b == SubSeq(q, Len(q) + 1, Len(q))
  <1>1. Len(q) \in Nat /\ 1 <= Len(q) /\ Len(q) \in 1 .. Len(q)
    BY LenProperties
  <1>2. a \in Seq(S) /\ Len(a) = Len(q) - 1 /\ \A i \in 1 .. Len(q) - 1 : a[i] = q[i]
    <2>1. \A i \in 1 .. Len(q) - 1 : q[i] \in S
      BY <1>1, ElementOfSeq
    <2>2. /\ a \in Seq(S)
          /\ Len(a) = IF 1 <= Len(q) - 1 THEN ((Len(q) - 1) - 1) + 1 ELSE 0
          /\ \A i \in 1 .. ((Len(q) - 1) - 1) + 1 : a[i] = q[1 + (i - 1)]
      BY <1>1, <2>1, SubSeqProperties
    <2>3. ((Len(q) - 1) - 1) + 1 = Len(q) - 1
      BY ONLY <1>1
    <2>4. ASSUME NEW n \in Nat, 1 <= n PROVE (IF 1 <= n - 1 THEN n - 1 ELSE 0) = n - 1
      BY ONLY <2>4
    <2>5. \A i \in 1 .. Len(q) - 1 : 1 + (i - 1) = i
      BY ONLY <1>1
    <2>6. Len(a) = Len(q) - 1
      BY ONLY <1>1, <2>2, <2>3, <2>4
    <2>7. ASSUME NEW i \in 1 .. Len(q) - 1 PROVE a[i] = q[i]
      BY ONLY <2>2, <2>3, <2>5, <2>7
    <2> QED
      BY <2>2, <2>6, <2>7
  <1>3. b \in Seq(S)
    BY <1>1, SubSeqProperties
  <1>4. Without(q, Len(q)) = a \o b
    BY DEF Without
  <1> HIDE DEF a, b
  <1>5. Without(q, Len(q)) \in Seq(S) /\ Len(Without(q, Len(q))) = Len(q) - 1
    BY <1>1, WithoutOne
  <1>6. Len(b) \in Nat
    BY <1>3, LenProperties
  <1>7. \A i \in 1 .. Len(a) + Len(b) : (a \o b)[i] = IF i <= Len(a) THEN a[i] ELSE b[i - Len(a)]
    BY <1>2, <1>3, ConcatProperties
  <1>8. ASSUME NEW i \in 1 .. Len(q) - 1 PROVE Without(q, Len(q))[i] = q[i]
    <2>1. i \in 1 .. Len(a) + Len(b) /\ i <= Len(a)
      BY ONLY <1>1, <1>2, <1>6, <1>8
    <2>2. (a \o b)[i] = a[i]
      BY ONLY <1>7, <2>1
    <2>3. a[i] = q[i]
      BY <1>2
    <2> QED
      BY <1>4, <2>2, <2>3
  <1> QED
    BY <1>1, <1>5, <1>8

\* Nothing is cued at the start.
LEMMA CuedInit == Init => CuedInv
  <1> SUFFICES ASSUME Init PROVE CuedInv
    OBVIOUS
  <1>1. Len(midi_messages_) = 0
    BY EmptySeq DEF Init
  <1> QED
    BY <1>1 DEF Init, Resting, CuedInv, OnlyLastIsFresh, HandlesFresh, ErasesLast, Handling

\* A step within a scan that leaves messages, slot and the noted index alone.
LEMMA ScanGoesOn ==
  ASSUME CueInv, CuedInv, NEW pc \in SpoolerPc \ {"sleep", "scan", "erase"}, Goto(pc),
         spooler.pc # "sleep", UNCHANGED <<now, readerVars, midi_messages_>>,
         Handling' => ~(midi_messages_[spooler.k].ts < spooler.cur) /\ spooler.idx = <<>>
  PROVE  CuedInv'
  <1>1. /\ spooler'.pc = pc /\ spooler'.k = spooler.k
        /\ spooler'.cur = spooler.cur /\ spooler'.idx = spooler.idx
    BY GotoKeeps DEF CueInv
  <1>2. OnlyLastIsFresh'
    BY <1>1 DEF CuedInv, OnlyLastIsFresh, Stale, readerVars
  <1>3. HandlesFresh'
    BY <1>1 DEF CuedInv, HandlesFresh
  <1>4. ErasesLast'
    BY <1>1 DEF ErasesLast, Handling
  <1> QED
    BY <1>2, <1>3, <1>4 DEF CuedInv

\* The reader's steps.
LEMMA CuedReader ==
  ASSUME KeepsUp, CueInv, CuedInv, Reader
  PROVE  CuedInv'
  <1> USE DEF CuedInv
  <1>1. ASSUME NEW c \in Command, NEW d \in 0 .. MaxDelay, ReaderParses(c, d) PROVE CuedInv'
    BY <1>1 DEF ReaderParses, OnlyLastIsFresh, HandlesFresh, ErasesLast, Stale, Handling
  <1>2. ASSUME ReaderCues PROVE CuedInv'
    BY <1>2 DEF ReaderCues, OnlyLastIsFresh, HandlesFresh, ErasesLast, Stale, Handling
  <1>3. ASSUME ReaderCued PROVE CuedInv'
    <2> DEFINE m == [cmd |-> slot, ts |-> reader.ts]
    <2>1. /\ reader.pc = "cueing" /\ reader'.pc = "sleeping" /\ slot' = slot
          /\ UNCHANGED <<now, spooler>>
      BY <1>3 DEF ReaderCued, CueInv, TypeOK
    <2> DEFINE erased == spooler.pc = "erase" /\ spooler.k > 1 /\ Len(spooler.idx) = 1
    <2>2. ~Handling /\ (spooler.idx = <<>> \/ erased)
      <3>1. ~Handling
        BY <2>1, HandledIsLast
      <3>2. \A i \in 1 .. Len(midi_messages_) : Stale(midi_messages_[i])
        BY <2>1 DEF OnlyLastIsFresh, Stale
      <3>3. ASSUME spooler.idx # <<>>, ~erased PROVE FALSE
        <4>1. /\ Len(midi_messages_) > 0 /\ spooler.pc # "sleep"
              /\ ~(midi_messages_[Len(midi_messages_)].ts < spooler.cur)
          BY <3>3 DEF ErasesLast
        <4>2. Len(midi_messages_) \in 1 .. Len(midi_messages_)
          BY <4>1, LenProperties DEF CueInv, TypeOK
        <4> QED
          BY <3>2, <4>1, <4>2 DEF Stale
      <3> QED
        BY <3>1, <3>3
    <2>3. \A i \in 1 .. Len(midi_messages_) : Stale(midi_messages_[i])
      BY <2>1 DEF OnlyLastIsFresh
    <2>4. OnlyLastIsFresh'
      <3>1. CASE UNCHANGED midi_messages_
        BY <2>1, <2>3, <3>1 DEF OnlyLastIsFresh, Stale
      <3>2. CASE midi_messages_' = Append(midi_messages_, m)
        <4>1. m \in MidiMessage /\ m.cmd = slot
          BY <1>3 DEF CueInv, TypeOK, MidiMessage, ReaderCued
        <4>2. /\ Len(midi_messages_') = Len(midi_messages_) + 1 /\ Len(midi_messages_) \in Nat
              /\ \A i \in 1 .. Len(midi_messages_) : midi_messages_'[i] = midi_messages_[i]
              /\ midi_messages_'[Len(midi_messages_) + 1] = m
          BY <3>2, <4>1, AppendProperties, LenProperties DEF CueInv, TypeOK
        <4>3. \A i \in 1 .. Len(midi_messages_') :
                i \in 1 .. Len(midi_messages_) \/ i = Len(midi_messages_')
          BY <4>2
        <4> QED
          BY <2>1, <2>3, <4>1, <4>2, <4>3 DEF OnlyLastIsFresh, Stale
      <3> QED
        BY <1>3, <3>1, <3>2 DEF ReaderCued
    <2> QED
      BY <2>1, <2>2, <2>4 DEF HandlesFresh, ErasesLast, Handling
  <1>4. ASSUME ReaderLeavesScope PROVE CuedInv'
    <2>1. /\ spooler.pc = "sleep" /\ UNCHANGED <<now, spooler, midi_messages_>>
          /\ \A i \in DOMAIN midi_messages_ : ~Due(midi_messages_[i])
      BY <1>4 DEF ReaderLeavesScope
    <2>2. \A i \in 1 .. Len(midi_messages_) : midi_messages_[i].ts < now
      <3>1. \A i \in 1 .. Len(midi_messages_) : midi_messages_[i].ts \in Int
        BY TimesAreInts DEF CueInv
      <3>2. DOMAIN midi_messages_ = 1 .. Len(midi_messages_) /\ now \in Int
        BY LenProperties DEF CueInv, TypeOK
      <3> QED
        BY <2>1, <3>1, <3>2 DEF Due
    <2> QED
      BY <2>1, <2>2 DEF OnlyLastIsFresh, HandlesFresh, ErasesLast, Stale, Handling
  <1> QED
    BY <1>1, <1>2, <1>3, <1>4 DEF Reader

\* The spooler's steps up to the end of the scan, and past the erasing.
LEMMA CuedScan ==
  ASSUME CueInv, CuedInv,
         SpoolerWakes \/ SpoolerScans \/ SpoolerNotes \/ SpoolerScanned \/ SpoolerRests
  PROVE  CuedInv'
  <1>1. CASE SpoolerWakes
    <2>1. \A i \in 1 .. Len(midi_messages_) :
            Stale(midi_messages_[i]) => midi_messages_[i].ts < now
      BY DEF Stale
    <2> QED
      BY <1>1, <2>1 DEF SpoolerWakes, At, readerVars, CuedInv, OnlyLastIsFresh, HandlesFresh,
                        ErasesLast, Stale, Handling
  <1>2. CASE SpoolerScans
    <2>1. CASE midi_messages_[spooler.k].ts < spooler.cur
      <3>1. spooler' = [pc |-> "scan", cur |-> spooler.cur, k |-> spooler.k + 1,
                        idx |-> spooler.idx] /\ spooler.pc = "scan"
        BY <1>2, <2>1 DEF SpoolerScans, At, SpoolerRecord, CueInv, TypeOK
      <3>2. spooler.k \in Nat /\ spooler.k <= Len(midi_messages_) /\ Len(midi_messages_) \in Nat
        BY <1>2, LenProperties DEF SpoolerScans, CueInv, TypeOK, SpoolerRecord
      <3> QED
        BY <1>2, <3>1, <3>2 DEF SpoolerScans, readerVars, CuedInv, OnlyLastIsFresh, HandlesFresh,
                          ErasesLast, Stale, Handling
    <2>2. CASE ~(midi_messages_[spooler.k].ts < spooler.cur)
      <3>1. spooler.idx = <<>>
        <4>1. spooler.k \in Nat /\ spooler.k <= Len(midi_messages_) /\ Len(midi_messages_) \in Nat
              /\ spooler.pc = "scan"
          BY <1>2, LenProperties DEF SpoolerScans, CueInv, TypeOK, SpoolerRecord, At
        <4> QED
          BY <4>1 DEF CuedInv, ErasesLast
      <3>2. \E pc \in SpoolerPc \ {"sleep", "scan", "erase"} : Goto(pc)
        BY <1>2, <2>2 DEF SpoolerScans, SpoolerPc
      <3> QED
        BY <1>2, <2>2, <3>1, <3>2, ScanGoesOn DEF SpoolerScans, At
    <2> QED
      BY <2>1, <2>2
  <1>3. CASE SpoolerNotes
    <2>1. /\ Handling /\ spooler.pc = "note"
          /\ spooler' = [pc |-> "scan", cur |-> spooler.cur, k |-> spooler.k + 1,
                         idx |-> Append(spooler.idx, spooler.k)]
      BY <1>3 DEF SpoolerNotes, At, Handling, SpoolerRecord, CueInv, TypeOK
    <2>2. /\ spooler.idx = <<>> /\ ~(midi_messages_[spooler.k].ts < spooler.cur)
          /\ spooler.k = Len(midi_messages_) /\ Len(midi_messages_) > 0
      BY <2>1, HandledIsLast DEF CuedInv, HandlesFresh
    <2>3. Append(spooler.idx, spooler.k) = <<spooler.k>>
      BY <2>2
    <2>4. Len(midi_messages_) \in Nat
      BY LenProperties DEF CueInv, TypeOK
    <2> QED
      BY <1>3, <2>1, <2>2, <2>3, <2>4
      DEF SpoolerNotes, readerVars, CuedInv, OnlyLastIsFresh, HandlesFresh, ErasesLast, Stale,
          Handling
  <1>4. CASE SpoolerScanned
    <2>1. /\ spooler' = [pc |-> "erase", cur |-> spooler.cur, k |-> 1, idx |-> spooler.idx]
          /\ spooler.pc = "scan" /\ UNCHANGED <<now, reader, slot, midi_messages_>>
      BY <1>4 DEF SpoolerScanned, At, CueInv, TypeOK, SpoolerRecord, readerVars
    <2>2. OnlyLastIsFresh' /\ HandlesFresh'
      BY <2>1 DEF CuedInv, OnlyLastIsFresh, HandlesFresh, Stale, Handling
    <2>3. ErasesLast'
      BY <2>1 DEF CuedInv, ErasesLast
    <2> QED
      BY <2>2, <2>3 DEF CuedInv
  <1>5. CASE SpoolerRests
    <2>1. spooler'.pc = "sleep" /\ spooler'.idx = <<>> /\ spooler.pc = "erase"
      BY <1>5 DEF SpoolerRests, Resting, At
    <2> QED
      BY <1>5, <2>1 DEF SpoolerRests, readerVars, CuedInv, OnlyLastIsFresh, HandlesFresh,
                        ErasesLast, Stale, Handling
  <1> QED
    BY <1>1, <1>2, <1>3, <1>4, <1>5

\* erase() takes out the last message, which was due, and leaves stale ones.
LEMMA CuedErase ==
  ASSUME CueInv, CuedInv, SpoolerErases
  PROVE  /\ CuedInv'
         /\ Len(midi_messages_) \in 1 .. Len(midi_messages_)
         /\ midi_messages_' = Without(midi_messages_, Len(midi_messages_))
         /\ ~(midi_messages_[Len(midi_messages_)].ts < spooler.cur)
  <1> DEFINE n == Len(midi_messages_)
  <1>1. /\ spooler.pc = "erase" /\ spooler.idx = <<n>> /\ n > 0 /\ spooler.k = 1
        /\ ~(midi_messages_[n].ts < spooler.cur)
    <2>1. spooler.pc = "erase" /\ spooler.k <= Len(spooler.idx) /\ spooler.k \in Nat \ {0}
      BY DEF SpoolerErases, At, CueInv, TypeOK, SpoolerRecord
    <2>2. spooler.idx # <<>>
      BY <2>1
    <2>3. ASSUME NEW k \in Nat, NEW n1 \in Nat, k <= n1 PROVE ~(k > 1 /\ n1 = 1)
      BY ONLY <2>3
    <2>4. Len(spooler.idx) \in Nat
      BY LenProperties DEF CueInv, TypeOK, SpoolerRecord
    <2>5. ~(spooler.k > 1 /\ Len(spooler.idx) = 1)
      BY <2>1, <2>3, <2>4
    <2> QED
      BY <2>1, <2>2, <2>5 DEF CuedInv, ErasesLast
  <1>2. spooler.idx[spooler.k] = n /\ Len(spooler.idx) = 1
    BY <1>1
  <1>3. n \in Nat /\ n \in 1 .. n
    BY <1>1, LenProperties DEF CueInv, TypeOK
  <1>4. midi_messages_' = Without(midi_messages_, n)
    BY <1>2, <1>3 DEF SpoolerErases
  <1>5. /\ Len(midi_messages_') = n - 1
        /\ \A i \in 1 .. n - 1 : midi_messages_'[i] = midi_messages_[i]
    BY <1>1, <1>4, WithoutLast DEF CueInv, TypeOK
  <1>6. spooler' = [pc |-> "erase", cur |-> spooler.cur, k |-> 2, idx |-> spooler.idx]
    BY <1>1 DEF SpoolerErases, CueInv, TypeOK, SpoolerRecord
  <1>7. \A i \in 1 .. n - 1 : Stale(midi_messages_[i])
    BY <1>3 DEF CuedInv, OnlyLastIsFresh
  <1>8. UNCHANGED <<now, reader, slot>>
    BY DEF SpoolerErases, readerVars
  <1>9. OnlyLastIsFresh'
    BY <1>1, <1>3, <1>5, <1>6, <1>7, <1>8 DEF OnlyLastIsFresh, Stale
  <1> QED
    BY <1>1, <1>2, <1>3, <1>4, <1>6, <1>9 DEF CuedInv, HandlesFresh, ErasesLast, Handling

\* The steps between: a message is handled.
LEMMA CuedHandling ==
  ASSUME CueInv, CuedInv,
         \/ SpoolerSetsRate \/ SpoolerSendsFirst \/ SpoolerTestsSecond
         \/ SpoolerSendsSecond \/ SpoolerStopsClock \/ SpoolerTestsThird
         \/ SpoolerStopsClockAgain \/ SpoolerSendsThird \/ SpoolerSendsStop
         \/ SpoolerSendsStart \/ SpoolerRestoresRate
  PROVE  CuedInv' /\ Handling
  <1>1. /\ Handling /\ spooler.pc # "sleep"
        /\ UNCHANGED <<now, readerVars, midi_messages_>>
        /\ \E pc \in SpoolerPc \ {"sleep", "scan", "erase"} : Goto(pc)
    BY DEF SpoolerSetsRate, SpoolerSendsFirst, SpoolerTestsSecond, SpoolerSendsSecond,
           SpoolerStopsClock, SpoolerTestsThird, SpoolerStopsClockAgain, SpoolerSendsThird,
           SpoolerSendsStop, SpoolerSendsStart, SpoolerRestoresRate, At, Handling, SpoolerPc
  <1>2. PICK pc \in SpoolerPc \ {"sleep", "scan", "erase"} : Goto(pc)
    BY <1>1
  <1>3. Handling' => ~(midi_messages_[spooler.k].ts < spooler.cur) /\ spooler.idx = <<>>
    BY <1>1 DEF CuedInv, HandlesFresh
  <1>4. CuedInv'
    BY ONLY CueInv, CuedInv, <1>1, <1>2, <1>3, ScanGoesOn
  <1> QED
    BY <1>1, <1>4

LEMMA CuedStep == KeepsUp /\ CueInv /\ CuedInv /\ [Next]_vars => CuedInv'
  <1> SUFFICES ASSUME KeepsUp, CueInv, CuedInv, [Next]_vars PROVE CuedInv'
    OBVIOUS
  <1>1. CASE Second
    <2>1. now' = now + 1 /\ now \in Int /\ UNCHANGED <<spooler, reader, slot, midi_messages_>>
      BY <1>1 DEF Second, readerVars, CueInv, TypeOK
    <2>2. \A i \in 1 .. Len(midi_messages_) : midi_messages_[i].ts \in Int
      BY TimesAreInts DEF CueInv
    <2>3. \A i \in 1 .. Len(midi_messages_) :
            midi_messages_[i].ts < now => midi_messages_[i].ts < now'
      BY <2>1, <2>2
    <2> QED
      BY <2>1, <2>3 DEF CuedInv, OnlyLastIsFresh, HandlesFresh, ErasesLast, Stale, Handling
  <1>2. CASE RaceKills \/ Ticker \/ UNCHANGED vars
    <2>1. UNCHANGED <<now, spooler, reader, slot, midi_messages_>>
      BY <1>2 DEF RaceKills, Ticker, TickerCommits, TickerSends, vars, readerVars
    <2> QED
      BY <2>1 DEF CuedInv, OnlyLastIsFresh, HandlesFresh, ErasesLast, Stale, Handling
  <1>3. CASE Reader
    BY <1>3, CuedReader
  <1>4. CASE Spooler
    BY <1>4, CuedScan, CuedErase, CuedHandling DEF Spooler
  <1> QED
    BY <1>1, <1>2, <1>3, <1>4 DEF Next

\* No message is handled at the start and nothing has been sent.
LEMMA SlaveInit == Init => SlaveInv
  BY DEF Init, Resting, SlaveInv, Playing

\* The slave is where SlaveInv has it after every step.
LEMMA SlaveStep ==
  KeepsUp /\ CueInv /\ HaltInv /\ CuedInv /\ SlaveInv /\ [Next]_vars => SlaveInv'
  <1> SUFFICES ASSUME KeepsUp, CueInv, HaltInv, CuedInv, SlaveInv, [Next]_vars
               PROVE  SlaveInv'
    OBVIOUS
  <1>1. CASE Second \/ RaceKills \/ Ticker \/ UNCHANGED vars
    <2>1. /\ UNCHANGED <<spooler, slot, clock_rate>>
          /\ port'.last = port.last /\ port'.locates = port.locates
      BY <1>1 DEF Second, RaceKills, Ticker, TickerCommits, TickerSends, vars, readerVars,
                  CueInv, TypeOK, PortRecord
    <2> QED
      BY <2>1 DEF SlaveInv
  <1>2. CASE Reader
    <2>1. UNCHANGED <<spooler, clock_rate, port>>
      BY <1>2 DEF Reader, ReaderParses, ReaderCues, ReaderCued, ReaderLeavesScope
    <2>2. slot' = slot \/ ~Handling
      <3>1. CASE reader.pc = "reading"
        BY <3>1, HandledIsLast
      <3>2. CASE ReaderLeavesScope
        BY <3>2 DEF ReaderLeavesScope, Handling
      <3> QED
        BY <1>2, <3>1, <3>2 DEF Reader, ReaderParses, ReaderCues, ReaderCued
    <2>3. CASE slot' = slot
      BY <2>1, <2>3 DEF SlaveInv
    <2>4. CASE ~Handling
      BY <2>1, <2>4 DEF SlaveInv, Handling
    <2> QED
      BY <2>2, <2>3, <2>4
  <1>3. CASE SpoolerWakes \/ SpoolerScans \/ SpoolerNotes \/ SpoolerScanned
             \/ SpoolerErases \/ SpoolerRests
    <2> DEFINE outside == {"sleep", "scan", "erase", "first", "note"}
    <2>1. UNCHANGED <<slot, clock_rate, port>> /\ spooler.pc \in outside
      BY <1>3 DEF SpoolerWakes, SpoolerScans, SpoolerNotes, SpoolerScanned, SpoolerErases,
                  SpoolerRests, readerVars, At
    <2>2. spooler'.pc \in outside
      <3>1. CASE SpoolerWakes \/ SpoolerNotes \/ SpoolerErases
        <4>1. SpoolerWakes => spooler'.pc = "scan"
          BY DEF SpoolerWakes
        <4>2. SpoolerNotes => spooler'.pc = "scan"
          BY DEF SpoolerNotes, CueInv, TypeOK, SpoolerRecord
        <4>3. SpoolerErases => spooler'.pc = "erase"
          BY DEF SpoolerErases, At, CueInv, TypeOK, SpoolerRecord
        <4> QED
          BY <3>1, <4>1, <4>2, <4>3
      <3>2. CASE SpoolerScans
        <4>1. CASE spooler' = [spooler EXCEPT !.k = spooler.k + 1]
          BY <3>2, <4>1 DEF SpoolerScans, At, CueInv, TypeOK, SpoolerRecord
        <4>2. CASE Goto(IF slot = NoBytes THEN "note" ELSE "first")
          BY <4>2, GotoKeeps DEF CueInv, SpoolerPc
        <4> QED
          BY <3>2, <4>1, <4>2 DEF SpoolerScans
      <3>3. CASE SpoolerScanned \/ SpoolerRests
        <4>1. SpoolerScanned => spooler'.pc = "erase"
          BY DEF SpoolerScanned, CueInv, TypeOK, SpoolerRecord
        <4>2. SpoolerRests => spooler'.pc = "sleep"
          BY DEF SpoolerRests, Resting
        <4> QED
          BY <3>3, <4>1, <4>2
      <3> QED
        BY <1>3, <3>1, <3>2, <3>3
    <2> QED
      BY <2>1, <2>2 DEF SlaveInv
  <1>4. CASE \/ SpoolerSetsRate \/ SpoolerSendsFirst \/ SpoolerTestsSecond
             \/ SpoolerSendsSecond \/ SpoolerStopsClock \/ SpoolerTestsThird
             \/ SpoolerStopsClockAgain \/ SpoolerSendsThird \/ SpoolerSendsStop
             \/ SpoolerSendsStart \/ SpoolerRestoresRate
    <2>1. /\ slot \in Command /\ slot' = slot /\ FirstByte = {slot}
          /\ TickInterval # 0 /\ clock_rate \in {0, TickInterval}
      <3>1. Handling
        BY <1>4, CuedHandling
      <3>2. slot \in Command
        BY <3>1, HandledIsLast
      <3>3. slot' = slot
        BY <1>4 DEF SpoolerSetsRate, SpoolerSendsFirst, SpoolerTestsSecond,
                    SpoolerSendsSecond, SpoolerStopsClock, SpoolerTestsThird,
                    SpoolerStopsClockAgain, SpoolerSendsThird, SpoolerSendsStop,
                    SpoolerSendsStart, SpoolerRestoresRate, readerVars
      <3> QED
        BY <3>2, <3>3, TickIntervalAssumption DEF FirstByte, Command, NoBytes, CueInv, TypeOK
    <2>2. ASSUME NEW pc \in SpoolerPc, Goto(pc) PROVE spooler'.pc = pc
      BY <2>2, GotoKeeps DEF CueInv
    <2>3. ASSUME NEW c \in Command \cup {"STOP"}, Emit(c)
          PROVE  /\ port'.last = c
                 /\ c # "SONG_POS" => port'.locates = 0
                 /\ c = "SONG_POS" /\ port.locates < 3 => port'.locates = port.locates + 1
      BY <2>3 DEF Emit, Command, NoBytes
    <2>4. CASE SpoolerSetsRate
      <3>1. /\ spooler.pc = "first" /\ UNCHANGED port
            /\ IF slot = "START" \/ (slot = "CONTINUE" /\ clock_rate # 0)
               THEN spooler'.pc = "sendFirst"
               ELSE spooler'.pc = "second" /\ UNCHANGED clock_rate
        BY <2>1, <2>2, <2>4 DEF SpoolerSetsRate, At, SpoolerPc
      <3> QED
        BY <2>1, <3>1 DEF SlaveInv
    <2>5. CASE SpoolerSendsFirst
      <3>1. /\ spooler.pc = "sendFirst" /\ spooler'.pc = "second" /\ UNCHANGED clock_rate
            /\ port'.last = slot /\ (slot # "SONG_POS" => port'.locates = 0)
        BY <2>1, <2>2, <2>3, <2>5 DEF SpoolerSendsFirst, At, SpoolerPc
      <3> QED
        BY <2>1, <3>1 DEF SlaveInv, Playing
    <2>6. CASE SpoolerTestsSecond
      <3>1. /\ spooler.pc = "second" /\ UNCHANGED <<clock_rate, port>>
            /\ spooler'.pc = IF slot = "SONG_POS" THEN "sendSecond" ELSE "third"
        BY <2>1, <2>2, <2>6 DEF SpoolerTestsSecond, At, SpoolerPc
      <3> QED
        BY <2>1, <3>1 DEF SlaveInv, Playing
    <2>12. CASE SpoolerSendsSecond
      <3>1. /\ spooler.pc = "sendSecond" /\ slot = "SONG_POS" /\ Emit(slot)
            /\ spooler'.pc = "zero" /\ UNCHANGED clock_rate
        BY <2>2, <2>12 DEF SpoolerSendsSecond, At, SpoolerPc, SlaveInv
      <3>2. port'.last = slot /\ port'.locates = 1
        <4>1. port.last # "SONG_POS" /\ port.locates = 0
          BY <3>1 DEF SlaveInv, Playing
        <4> QED
          BY <2>1, <2>3, <3>1, <4>1
      <3> QED
        BY <2>1, <3>1, <3>2 DEF SlaveInv, Playing
    <2>7. CASE SpoolerStopsClock
      <3>1. /\ spooler.pc = "zero" /\ spooler'.pc = "third" /\ UNCHANGED port /\ clock_rate' = 0
        BY <2>2, <2>7 DEF SpoolerStopsClock, At, SpoolerPc
      <3> QED
        BY <2>1, <3>1 DEF SlaveInv
    <2>8. CASE SpoolerTestsThird
      <3>1. /\ spooler.pc = "third" /\ UNCHANGED <<clock_rate, port>>
            /\ spooler'.pc = IF slot = "SONG_POS" THEN "zeroAgain" ELSE "note"
        BY <2>1, <2>2, <2>8 DEF SpoolerTestsThird, At, SpoolerPc
      <3> QED
        BY <2>1, <3>1 DEF SlaveInv, Playing
    <2>13. CASE SpoolerStopsClockAgain
      <3>1. /\ spooler.pc = "zeroAgain" /\ spooler'.pc = "sendThird"
            /\ UNCHANGED port /\ clock_rate' = 0
        BY <2>2, <2>13 DEF SpoolerStopsClockAgain, At, SpoolerPc
      <3> QED
        BY <2>1, <3>1 DEF SlaveInv
    <2>14. CASE SpoolerSendsThird
      <3>1. /\ spooler.pc = "sendThird" /\ slot = "SONG_POS" /\ Emit(slot)
            /\ spooler'.pc = "stop" /\ UNCHANGED clock_rate
        BY <2>2, <2>14 DEF SpoolerSendsThird, At, SpoolerPc, SlaveInv
      <3>2. port'.last = slot /\ port'.locates = 2
        <4>1. port.locates = 1
          BY <3>1 DEF SlaveInv
        <4> QED
          BY <2>1, <2>3, <3>1, <4>1
      <3> QED
        BY <2>1, <3>1, <3>2 DEF SlaveInv, Playing
    <2>9. CASE SpoolerSendsStop
      <3>1. /\ spooler.pc = "stop" /\ spooler'.pc = "start"
            /\ port'.last = "STOP" /\ port'.locates = 0
        BY <2>2, <2>3, <2>9 DEF SpoolerSendsStop, At, SpoolerPc
      <3> QED
        BY <2>1, <3>1 DEF SlaveInv
    <2>10. CASE SpoolerSendsStart
      <3>1. /\ spooler.pc = "start" /\ spooler'.pc = "rate"
            /\ port'.last = "START" /\ port'.locates = 0
        BY <2>2, <2>3, <2>10 DEF SpoolerSendsStart, At, SpoolerPc, Command
      <3> QED
        BY <2>1, <3>1 DEF SlaveInv, Playing
    <2>11. CASE SpoolerRestoresRate
      <3>1. spooler.pc = "rate" /\ spooler'.pc = "note" /\ UNCHANGED port
        BY <2>2, <2>11 DEF SpoolerRestoresRate, At, SpoolerPc
      <3> QED
        BY <2>1, <3>1 DEF SlaveInv, Playing
    <2> QED
      BY <1>4, <2>4, <2>5, <2>6, <2>7, <2>8, <2>9, <2>10, <2>11, <2>12, <2>13, <2>14
  <1> QED
    BY <1>1, <1>2, <1>3, <1>4 DEF Next, Spooler

\* While the spooler keeps up, one message at most is not yet stale.
THEOREM KeepsUpInvariant ==
  ASSUME KeepsUp
  PROVE  Spec => [](CueInv /\ HaltInv /\ CuedInv /\ SlaveInv)
  <1> DEFINE Inv == CueInv /\ HaltInv /\ CuedInv /\ SlaveInv
  <1>1. Init => Inv
    BY CueInit, CuedInit, SlaveInit
  <1>2. Inv /\ [Next]_vars => Inv'
    BY KeepsUp, CueStep, HaltStep, CuedStep, SlaveStep
  <1> QED
    BY <1>1, <1>2, PTL DEF Spec

\* What a step may do to the port is a step of the slave's protocol, or none.
LEMMA PortSteps ==
  ASSUME port \in PortRecord, port' \in PortRecord,
         port.last # "SONG_POS" => port.locates = 0,
         \/ port'.last = "START" /\ port.last \in Playing \cup {"none", "STOP"}
         \/ port'.last = "CONTINUE" /\ port.last \in Playing
         \/ port'.last = "SONG_POS" /\ port'.locates = 1 /\ port.last \in Playing \cup {"none"}
         \/ /\ port'.last = "SONG_POS" /\ port'.locates = 2
            /\ port.last = "SONG_POS" /\ port.locates = 1
         \/ /\ port'.last = "STOP" /\ port'.ticks = 0
            /\ port.last = "SONG_POS" /\ port.locates = 2
         \/ /\ port'.last = port.last /\ port'.locates = port.locates
            /\ port.last = "STOP" =>
                 (port.ticks = 0 /\ port'.ticks = 1) \/ port'.ticks = port.ticks
  PROVE  [Transport!Next]_Transport!tvars
  BY DEF PortRecord, Command, Playing, Transport!Next, Transport!tvars, Transport!Play,
     Transport!Continue, Transport!Locate, Transport!Halt, Transport!LateTick, Transport!Playing

\* As long as the spooler keeps up, what the slave sees is the protocol of
\* Transport: each step of the client is one of its steps or leaves it alone.
THEOREM TransportImplemented == ASSUME KeepsUp PROVE Spec => ImplementsTransport
  <1> DEFINE Inv == CueInv /\ HaltInv /\ CuedInv /\ SlaveInv
  <1>1. Init => Transport!Init
    BY DEF Init, Transport!Init
  <1>2. Inv /\ Inv' /\ [Next]_vars => [Transport!Next]_Transport!tvars
    <2> SUFFICES ASSUME Inv, Inv', [Next]_vars PROVE [Transport!Next]_Transport!tvars
      OBVIOUS
    <2>1. /\ port \in PortRecord /\ port' \in PortRecord
          /\ port.last # "SONG_POS" => port.locates = 0
      BY DEF CueInv, TypeOK, SlaveInv
    <2>2. ASSUME UNCHANGED port PROVE [Transport!Next]_Transport!tvars
      BY <2>1, <2>2, PortSteps
    <2>3. CASE TickerSends
      <3>1. port'.last = port.last /\ port'.locates = port.locates
        BY <2>1, <2>3 DEF TickerSends, PortRecord
      <3>2. port.last = "STOP" => port.ticks = 0 /\ port'.ticks = 1
        BY <2>1, <2>3 DEF TickerSends, PortRecord, HaltInv
      <3> QED
        BY <2>1, <3>1, <3>2, PortSteps
    <2>4. ASSUME Handling, NEW c \in Command \cup {"STOP"}, Emit(c)
          PROVE  /\ port'.last = c /\ port'.ticks = 0
                 /\ c = "SONG_POS" /\ port.locates < 3 => port'.locates = port.locates + 1
      BY <2>4 DEF Emit, Command, NoBytes
    <2>5. ASSUME Handling PROVE slot \in Command /\ FirstByte = {slot}
      BY <2>5, HandledIsLast DEF FirstByte, Command, NoBytes
    <2>6. CASE SpoolerSendsFirst
      <3>1. Handling /\ spooler.pc = "sendFirst" /\ Emit(slot)
        BY <2>6 DEF SpoolerSendsFirst, At, Handling
      <3>2. /\ port'.last = slot
            /\ slot = "START" \/ (slot = "CONTINUE" /\ port.last \in Playing)
            /\ port.last \in Playing \cup {"none"}
        BY <2>4, <2>5, <3>1 DEF SlaveInv
      <3> QED
        BY <2>1, <3>2, PortSteps
    <2>7. CASE SpoolerSendsSecond
      <3>1. Handling /\ spooler.pc = "sendSecond" /\ slot = "SONG_POS" /\ Emit(slot)
        BY <2>7 DEF SpoolerSendsSecond, At, Handling, SlaveInv
      <3>2. port.last \in Playing \cup {"none"} /\ port.locates = 0
        BY <3>1 DEF SlaveInv, Playing
      <3>3. port'.last = "SONG_POS" /\ port'.locates = 1
        BY <2>4, <2>5, <3>1, <3>2
      <3> QED
        BY <2>1, <3>2, <3>3, PortSteps
    <2>8. CASE SpoolerSendsThird
      <3>1. Handling /\ spooler.pc = "sendThird" /\ slot = "SONG_POS" /\ Emit(slot)
        BY <2>8 DEF SpoolerSendsThird, At, Handling, SlaveInv
      <3>2. port.last = "SONG_POS" /\ port.locates = 1
        BY <3>1 DEF SlaveInv
      <3>3. port'.last = "SONG_POS" /\ port'.locates = 2
        BY <2>4, <2>5, <3>1, <3>2
      <3> QED
        BY <2>1, <3>2, <3>3, PortSteps
    <2>9. CASE SpoolerSendsStop
      <3>1. Handling /\ spooler.pc = "stop" /\ Emit("STOP")
        BY <2>9 DEF SpoolerSendsStop, At, Handling
      <3>2. /\ port'.last = "STOP" /\ port'.ticks = 0
            /\ port.last = "SONG_POS" /\ port.locates = 2
        BY <2>4, <3>1 DEF SlaveInv
      <3> QED
        BY <2>1, <3>2, PortSteps
    <2>10. CASE SpoolerSendsStart
      <3>1. Handling /\ spooler.pc = "start" /\ Emit("START")
        BY <2>10 DEF SpoolerSendsStart, At, Handling
      <3>2. port'.last = "START" /\ port.last = "STOP"
        BY <2>4, <3>1 DEF SlaveInv, Command
      <3> QED
        BY <2>1, <3>2, PortSteps
    <2>11. CASE UNCHANGED vars
      BY <2>2, <2>11 DEF vars
    <2> QED
      BY <2>2, <2>3, <2>6, <2>7, <2>8, <2>9, <2>10, <2>11
      DEF Next, Reader, Spooler, Ticker, Second, ReaderParses, ReaderCues, ReaderCued,
          ReaderLeavesScope, SpoolerWakes, SpoolerScans, SpoolerSetsRate, SpoolerTestsSecond,
          SpoolerStopsClock, SpoolerTestsThird, SpoolerStopsClockAgain, SpoolerRestoresRate, SpoolerNotes, SpoolerScanned, SpoolerErases, SpoolerRests,
          RaceKills, TickerCommits
  <1> HIDE DEF Inv
  <1>3. Spec => []Inv
    BY KeepsUpInvariant DEF Inv
  <1> QED
    BY <1>1, <1>2, <1>3, PTL DEF Spec, ImplementsTransport, Transport!Spec
=============================================================================
