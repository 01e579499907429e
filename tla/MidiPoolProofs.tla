-------------------------- MODULE MidiPoolProofs --------------------------
(***************************************************************************)
(* Proofs about MidiPool, for any clients, loop, buffer and division of    *)
(* time.  JumpsOnTheOne is not inductive: that a SONG_POS is obeyed only   *)
(* in the second it was sent has to be carried along its way.  FreshJumps  *)
(* does so: while one is alive on a connection, the loop is not older than *)
(* the current second.                                                     *)
(***************************************************************************)
EXTENDS MidiPool, SequenceTheorems, TLAPS

\* A SONG_POS that is not stale yet was sent in this second.
FreshJumps ==
  \A c \in Client : \A i \in 1 .. Len(link[c]) :
    link[c][i].cmd = "SONG_POS" =>
      link[c][i].life <= 0 /\ (link[c][i].life = 0 => sinceOne <= subsecond)

\* midi_clock() tests four_bars before it sleeps through another bar.
BarInLoop == pc # "head" => four_bars < loop_length

PoolInv == TypeOK /\ FreshJumps /\ JumpsOnTheOne /\ BarInLoop

-----------------------------------------------------------------------------
(* What the steps do to a connection                                       *)

\* room->deliver() appends one message to the connections of the room.
LEMMA DeliverLink ==
  ASSUME TypeOK, LinksHaveRoom,
         NEW cmd \in Command, NEW life \in -1 .. MidiBuffer, Deliver(cmd, life)
  PROVE  /\ link' \in [Client -> Seq(Broadcast)]
         /\ \A c \in Client :
              /\ Len(link'[c]) <= MaxLink
              /\ \A i \in 1 .. Len(link'[c]) :
                   \/ i \in 1 .. Len(link[c]) /\ link'[c][i] = link[c][i]
                   \/ link'[c][i] = [cmd |-> cmd, life |-> life]
  <1> DEFINE m == [cmd |-> cmd, life |-> life]
  <1>1. m \in Broadcast
    BY DEF Broadcast
  <1>2. ASSUME NEW c \in Client
        PROVE  /\ link'[c] \in Seq(Broadcast)
               /\ Len(link'[c]) <= MaxLink
               /\ \A i \in 1 .. Len(link'[c]) :
                    \/ i \in 1 .. Len(link[c]) /\ link'[c][i] = link[c][i]
                    \/ link'[c][i] = m
    <2>1. link[c] \in Seq(Broadcast) /\ Len(link[c]) < MaxLink /\ Len(link[c]) \in Nat
      BY LenProperties DEF TypeOK, LinksHaveRoom
    <2>2. CASE link'[c] = link[c]
      BY <2>1, <2>2, LoopAssumption
    <2>3. CASE link'[c] = Append(link[c], m)
      <3>1. /\ Append(link[c], m) \in Seq(Broadcast)
            /\ Len(Append(link[c], m)) = Len(link[c]) + 1
            /\ \A i \in 1 .. Len(link[c]) : Append(link[c], m)[i] = link[c][i]
            /\ Append(link[c], m)[Len(link[c]) + 1] = m
        BY <1>1, <2>1, AppendProperties
      <3> QED
        BY <2>1, <2>3, <3>1, LoopAssumption
    <2> QED
      BY <2>2, <2>3 DEF Deliver
  <1>3. link' \in [Client -> Seq(Broadcast)]
    BY <1>2 DEF Deliver
  <1> QED
    BY <1>2, <1>3

\* A broadcast keeps the type and the bound of the connections.
LEMMA DeliverType ==
  ASSUME TypeOK, LinksHaveRoom,
         NEW cmd \in Command, NEW life \in -1 .. MidiBuffer, Deliver(cmd, life)
  PROVE  /\ link' \in [Client -> Seq(Broadcast)]
         /\ \A c \in Client : Len(link'[c]) <= MaxLink
  BY DeliverLink

\* A broadcast keeps FreshJumps when it is no SONG_POS, or one sent just now.
LEMMA DeliverFresh ==
  ASSUME TypeOK, LinksHaveRoom, FreshJumps,
         NEW cmd \in Command, NEW life \in -1 .. MidiBuffer, Deliver(cmd, life),
         cmd = "SONG_POS" => life = 0,
         sinceOne' = sinceOne \/ sinceOne' = 0, subsecond' = subsecond,
         cmd = "SONG_POS" => sinceOne' = 0
  PROVE  FreshJumps'
  <1> SUFFICES ASSUME NEW c \in Client, NEW i \in 1 .. Len(link'[c]),
                      link'[c][i].cmd = "SONG_POS"
               PROVE  /\ link'[c][i].life <= 0
                      /\ link'[c][i].life = 0 => sinceOne' <= subsecond'
    BY DEF FreshJumps
  <1>1. subsecond \in Nat /\ 0 <= subsecond
    BY LoopAssumption DEF TypeOK
  <1>2. CASE i \in 1 .. Len(link[c]) /\ link'[c][i] = link[c][i]
    BY <1>1, <1>2 DEF FreshJumps
  <1>3. CASE link'[c][i] = [cmd |-> cmd, life |-> life]
    BY <1>1, <1>3
  <1> QED
    BY <1>2, <1>3, DeliverLink

\* A message that has aged keeps its command and loses at most a second.
LEMMA AgedMessage ==
  ASSUME NEW m \in Broadcast
  PROVE  /\ Aged(m) \in Broadcast /\ Aged(m).cmd = m.cmd
         /\ m.life <= 0 => Aged(m).life = -1
  BY LoopAssumption DEF Aged, Broadcast

\* The end of a second leaves every connection its messages, aged.
LEMMA AgedLink ==
  ASSUME NEW q \in Seq(Broadcast)
  PROVE  /\ [i \in DOMAIN q |-> Aged(q[i])] \in Seq(Broadcast)
         /\ Len([i \in DOMAIN q |-> Aged(q[i])]) = Len(q)
  <1> DEFINE a == [i \in DOMAIN q |-> Aged(q[i])]
  <1>1. DOMAIN q = 1 .. Len(q) /\ Len(q) \in Nat
    BY LenProperties
  <1>2. \A i \in 1 .. Len(q) : q[i] \in Broadcast
    BY ElementOfSeq
  <1>3. \A i \in 1 .. Len(q) : a[i] \in Broadcast
    BY <1>1, <1>2, AgedMessage
  <1>4. a = [i \in 1 .. Len(q) |-> a[i]]
    BY <1>1
  <1> HIDE DEF a
  <1>5. a \in Seq(Broadcast) /\ Len(a) = Len(q)
    BY <1>1, <1>3, <1>4, IsASeq, LenProperties
  <1> QED
    BY <1>5 DEF a

-----------------------------------------------------------------------------
(* PoolInv holds initially and is preserved                                *)

\* The server starts with no one in the room and nothing on the way.
LEMMA PoolInit == Init => PoolInv
  <1> SUFFICES ASSUME Init PROVE PoolInv
    OBVIOUS
  <1> USE LoopAssumption DEF Init
  <1>1. \A c \in Client : link[c] \in Seq(Broadcast) /\ Len(link[c]) = 0
    BY EmptySeq
  <1>2. link \in [Client -> Seq(Broadcast)]
    BY <1>1
  <1>3. TypeOK
    BY <1>1, <1>2 DEF TypeOK
  <1>4. FreshJumps
    BY <1>1 DEF FreshJumps
  <1>5. JumpsOnTheOne /\ BarInLoop
    BY DEF JumpsOnTheOne, BarInLoop
  <1> QED
    BY <1>3, <1>4, <1>5 DEF PoolInv

\* The steps of midi_clock().
LEMMA ClockStep == PoolInv /\ Clock => PoolInv'
  <1> SUFFICES ASSUME PoolInv, Clock PROVE PoolInv'
    OBVIOUS
  <1> USE LoopAssumption DEF PoolInv, clientVars
  <1>0. prompt' = prompt
    BY DEF Clock
  <1> USE <1>0
  <1>1. CASE ClockStarts
    <2>1. /\ link' \in [Client -> Seq(Broadcast)]
          /\ \A c \in Client : Len(link'[c]) <= MaxLink
      BY <1>1, DeliverType DEF ClockStarts, Command
    <2>2. TypeOK'
      BY <1>1, <2>1 DEF TypeOK, ClockStarts
    <2>3. FreshJumps'
      BY <1>1, DeliverFresh DEF ClockStarts, Command
    <2> QED
      BY <1>1, <2>2, <2>3 DEF ClockStarts, TypeOK, JumpsOnTheOne, BarInLoop
  <1>2. CASE ClockLoops
    <2>1. /\ link' \in [Client -> Seq(Broadcast)]
          /\ \A c \in Client : Len(link'[c]) <= MaxLink
      BY <1>2, DeliverType DEF ClockLoops, Command
    <2>2. TypeOK'
      BY <1>2, <2>1 DEF TypeOK, ClockLoops
    <2>3. FreshJumps'
      BY <1>2, DeliverFresh DEF ClockLoops, Command
    <2> QED
      BY <1>2, <2>2, <2>3 DEF ClockLoops, TypeOK, JumpsOnTheOne, BarInLoop
  <1>3. CASE ClockContinues
    <2>1. CASE Deliver("CONTINUE", MidiBuffer)
      <3>1. /\ link' \in [Client -> Seq(Broadcast)]
            /\ \A c \in Client : Len(link'[c]) <= MaxLink
        BY <1>3, <2>1, DeliverType DEF ClockContinues, Command
      <3>2. TypeOK'
        BY <1>3, <3>1 DEF TypeOK, ClockContinues
      <3>3. FreshJumps'
        BY <1>3, <2>1, DeliverFresh DEF ClockContinues, Command
      <3> QED
        BY <1>3, <3>2, <3>3 DEF ClockContinues, TypeOK, JumpsOnTheOne, BarInLoop
    <2>2. CASE UNCHANGED link
      BY <1>3, <2>2 DEF ClockContinues, TypeOK, FreshJumps, JumpsOnTheOne, BarInLoop
    <2> QED
      BY <1>3, <2>1, <2>2 DEF ClockContinues
  <1>4. CASE ClockBarEnds
    BY <1>4 DEF ClockBarEnds, TypeOK, FreshJumps, JumpsOnTheOne, BarInLoop
  <1> QED
    BY <1>1, <1>2, <1>3, <1>4 DEF Clock

\* Time passes: the loop and the second age together, and when the second ends
\* no SONG_POS stays alive.
LEMMA TickStep == PoolInv /\ Tick => PoolInv'
  <1> SUFFICES ASSUME PoolInv, Tick PROVE PoolInv'
    OBVIOUS
  <1> USE LoopAssumption DEF PoolInv, clientVars, Tick
  <1>1. CASE subsecond + 1 < TicksPerSecond
    BY <1>1 DEF TypeOK, FreshJumps, JumpsOnTheOne, BarInLoop
  <1>2. CASE ~(subsecond + 1 < TicksPerSecond)
    <2>1. /\ subsecond' = 0
          /\ link' = [c \in Client |-> [i \in DOMAIN link[c] |-> Aged(link[c][i])]]
      BY <1>2
    <2>2. ASSUME NEW c \in Client
          PROVE  link'[c] \in Seq(Broadcast) /\ Len(link'[c]) = Len(link[c])
      BY <2>1, AgedLink DEF TypeOK
    <2>3. link' \in [Client -> Seq(Broadcast)]
      BY <2>1, <2>2
    <2>4. TypeOK'
      <3>1. \A c \in Client : Len(link'[c]) <= MaxLink
        BY <2>2 DEF TypeOK
      <3>2. slept' \in 0 .. TicksPerBar + Oversleep /\ sinceOne' \in 0 .. TicksPerSecond
        BY DEF TypeOK
      <3> QED
        BY <2>1, <2>3, <3>1, <3>2 DEF TypeOK
    <2>5. ASSUME NEW c \in Client, NEW i \in 1 .. Len(link'[c]),
                 link'[c][i].cmd = "SONG_POS"
          PROVE  link'[c][i].life = -1
      <3>1. /\ link[c] \in Seq(Broadcast)
            /\ i \in 1 .. Len(link[c]) /\ DOMAIN link[c] = 1 .. Len(link[c])
        BY <2>2, LenProperties DEF TypeOK
      <3>2. link[c][i] \in Broadcast
        BY <3>1, ElementOfSeq
      <3>3. link'[c][i] = Aged(link[c][i])
        BY <2>1, <3>1
      <3>4. link[c][i].cmd = "SONG_POS" /\ link[c][i].life <= 0
        BY <2>5, <3>1, <3>2, <3>3, AgedMessage DEF FreshJumps
      <3> QED
        BY <3>2, <3>3, <3>4, AgedMessage
    <2>6. FreshJumps'
      BY <2>5 DEF FreshJumps
    <2> QED
      BY <2>4, <2>6 DEF JumpsOnTheOne, BarInLoop
  <1> QED
    BY <1>1, <1>2

\* A client joins.
LEMMA JoinStep == ASSUME NEW c \in Client, PoolInv, Join(c) PROVE PoolInv'
  BY DEF PoolInv, Join, clockVars, TypeOK, FreshJumps, JumpsOnTheOne, BarInLoop

\* A client plays what comes first and may lose what came behind it.
LEMMA ReadStep == ASSUME NEW c \in Client, PoolInv, ClientReads(c) PROVE PoolInv'
  <1> USE LoopAssumption DEF PoolInv, clockVars, clientVars
  <1> DEFINE m == link[c][1]
  <1>1. /\ link[c] \in Seq(Broadcast) /\ Len(link[c]) \in Nat /\ 1 \in 1 .. Len(link[c])
        /\ Head(link[c]) = m
    BY EmptySeq, LenProperties DEF ClientReads, TypeOK
  <1>2. m \in Broadcast
    BY <1>1, ElementOfSeq
  <1>3. m.cmd = "SONG_POS" /\ m.life >= 0 => sinceOne < TicksPerSecond
    BY <1>1, <1>2 DEF FreshJumps, TypeOK, Broadcast
  <1>4. PICK n \in 1 .. Len(link[c]) :
          link' = [link EXCEPT ![c] = SubSeq(@, n + 1, Len(@))]
    BY DEF ClientReads
  <1> DEFINE rest == SubSeq(link[c], n + 1, Len(link[c]))
  <1>5. /\ rest \in Seq(Broadcast)
        /\ Len(rest) = Len(link[c]) - n
        /\ \A i \in 1 .. Len(rest) : rest[i] = link[c][n + i]
    <2>1. \A i \in n + 1 .. Len(link[c]) : link[c][i] \in Broadcast
      BY <1>1, ElementOfSeq
    <2> QED
      BY <1>1, <2>1, SubSeqProperties
  <1>6. link'[c] = rest /\ \A d \in Client \ {c} : link'[d] = link[d]
    BY <1>4 DEF TypeOK
  <1>7. link' \in [Client -> Seq(Broadcast)]
    BY <1>4, <1>5 DEF TypeOK
  <1>8. FreshJumps'
    BY <1>1, <1>5, <1>6 DEF FreshJumps, ClientReads
  <1>a. Play(c, m) \/ UNCHANGED clientVars
    BY <1>1 DEF ClientReads
  <1>9. /\ client' \in [Client -> {"out", "silent", "started", "jumped"}]
        /\ offset' \in [Client -> 0 .. TicksPerSecond]
        /\ JumpsOnTheOne'
    <2>1. CASE UNCHANGED clientVars
      BY <2>1 DEF TypeOK, JumpsOnTheOne
    <2>2. CASE m.life >= 0 /\ m.cmd # "CONTINUE" /\ Play(c, m)
      <3>1. /\ client' = [client EXCEPT ![c] = IF m.cmd = "START" THEN "started" ELSE "jumped"]
            /\ offset' = [offset EXCEPT ![c] = sinceOne]
        BY <2>2 DEF Play
      <3>2. m.cmd = "START" \/ sinceOne < TicksPerSecond
        BY <1>2, <1>3, <2>2 DEF Broadcast, Command
      <3> QED
        BY <3>1, <3>2 DEF TypeOK, JumpsOnTheOne
    <2> QED
      BY <1>a, <2>1, <2>2 DEF Play
  <1>10. UNCHANGED <<pc, four_bars, slept, subsecond, sinceOne, prompt>>
    BY DEF ClientReads
  <1>11. TypeOK'
    <2>1. \A d \in Client : Len(link'[d]) <= MaxLink
      <3>1. Len(link'[c]) <= Len(link[c]) /\ Len(link[c]) <= MaxLink
        BY <1>1, <1>5, <1>6 DEF TypeOK
      <3>2. \A d \in Client \ {c} : Len(link'[d]) = Len(link[d]) /\ Len(link[d]) <= MaxLink
        BY <1>6 DEF TypeOK
      <3>3. Len(link'[c]) <= MaxLink
        BY ONLY <3>1, <1>1, <1>5, <1>6, LoopAssumption
      <3> QED
        BY ONLY <3>2, <3>3, c \in Client
    <2> QED
      BY <2>1, <1>7, <1>9, <1>10 DEF TypeOK
  <1> QED
    BY <1>8, <1>9, <1>10, <1>11 DEF BarInLoop

\* PoolInv is an invariant of the pool.
THEOREM PoolInvariant == Spec => []PoolInv
  <1>1. PoolInv /\ UNCHANGED vars => PoolInv'
    BY DEF PoolInv, vars, clockVars, clientVars, TypeOK, FreshJumps, JumpsOnTheOne,
           BarInLoop
  <1>2. PoolInv /\ [Next]_vars => PoolInv'
    BY <1>1, ClockStep, TickStep, JoinStep, ReadStep DEF Next
  <1> QED
    BY PoolInit, <1>2, PTL DEF Spec

\* The variables keep their types and four_bars never passes loop_length.
THEOREM TypeCorrect == Spec => []TypeOK
  BY PoolInvariant, PTL DEF PoolInv

\* No client ever jumps later than a second after the loop began.
THEOREM JumpsAreOnTheOne == Spec => []JumpsOnTheOne
  BY PoolInvariant, PTL DEF PoolInv

=============================================================================
