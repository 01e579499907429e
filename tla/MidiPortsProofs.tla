-------------------------- MODULE MidiPortsProofs --------------------------
(***************************************************************************)
(* The two ports together.  PortsSpec keeps each to its own specification, *)
(* so that the theorems of MidiInputProofs hold of it, and OutInv says why *)
(* two threads in one sendMessage() send nothing that neither of them      *)
(* meant: the first byte of the shared buffer is always the first byte of  *)
(* a message whose call is, or was, under way at the same time, and the    *)
(* second byte of a SONG_POS never meets a coder that awaits one byte.     *)
(***************************************************************************)
EXTENDS MidiPorts, MidiInputProofs

\* The messages that a call of t may send: its own or one it has met.
Mixed(t) == {call[t].msg} \cup call[t].met

\* A call has its thread's message, or is not under way.
IsTheirs(t) ==
  /\ IF Out!Busy(t) THEN call[t].msg \in Out!Sends[t] /\ call[t].i \in 1 .. Len(call[t].msg)
     ELSE call[t] = Out!Idle
  /\ call[t].met \subseteq Out!Sends[Out!Other(t)]

\* Two calls under way have met each other.
HasMet(t) ==
  Out!Busy(t) /\ Out!Busy(Out!Other(t)) => call[Out!Other(t)].msg \in call[t].met

FirstCopied(t) == call[t].pc = "encode" \/ (call[t].pc = "copy" /\ call[t].i = 2)

\* What a call finds in the buffer is its own or of a call it has met.
FindsMixed(t) ==
  /\ FirstCopied(t) => \E m \in Mixed(t) : buffer[1] = m[1]
  /\ call[t].pc = "encode" /\ Len(call[t].msg) = 2 => buffer[2] = "DATA"

\* The coder awaits both bytes of a SONG_POS when the only one comes.
AwaitsBoth(t) == call[t].pc = "encode" /\ call[t].i = 2 => coder = 2

SendsMixed(t) == call[t].pc = "output" => \E m \in Mixed(t) : call[t].ev = Out!Meant(m)

OutInv ==
  /\ Out!TypeOK
  /\ \A t \in Out!Thread :
       IsTheirs(t) /\ HasMet(t) /\ FindsMixed(t) /\ AwaitsBoth(t) /\ SendsMixed(t)

-----------------------------------------------------------------------------
(* The threads and their messages                                          *)

\* There are two threads.
LEMMA Pair ==
  ASSUME NEW t \in Out!Thread
  PROVE  /\ Out!Other(t) \in Out!Thread /\ Out!Other(t) # t
         /\ Out!Other(Out!Other(t)) = t /\ Out!Thread = {t, Out!Other(t)}
  BY DEF Out!Thread, Out!Other

\* Their messages: one realtime byte, or the SONG_POS of the spooler.
LEMMA Sent ==
  ASSUME NEW t \in Out!Thread, NEW m \in Out!Sends[t]
  PROVE  /\ m \in Out!SentMessage /\ m # <<>> /\ m[1] \in Out!Status
         /\ \/ Len(m) = 1 /\ m[1] \in Out!Realtime
            \/ Len(m) = 2 /\ m[1] = "SONG_POS" /\ m[2] = "DATA" /\ t = "spooler"
  <1>1. CASE t = "spooler"
    BY <1>1 DEF Out!Sends, Out!SentMessage, Out!Status, Out!Realtime
  <1>2. CASE t = "clock"
    BY <1>2 DEF Out!Sends, Out!SentMessage, Out!Status, Out!Realtime
  <1> QED
    BY <1>1, <1>2 DEF Out!Thread

\* What one step changes of a call: nothing of the other thread's.
LEMMA OneMoves ==
  ASSUME OutInv, NEW t \in Out!Thread, NEW r, call' = [call EXCEPT ![t] = r]
  PROVE  call'[t] = r /\ call'[Out!Other(t)] = call[Out!Other(t)]
  BY Pair DEF OutInv, Out!TypeOK

CallRecord == [pc : {"idle", "copy", "encode", "output"}, msg : Out!SentMessage \cup {<<>>},
               i : 0 .. 2, ev : Out!Status \cup {Out!NoEvent}, met : SUBSET Out!SentMessage]

\* A call's record with other values in some of its fields.
LEMMA ToEncode ==
  ASSUME NEW c \in CallRecord, NEW r, r = [c EXCEPT !.pc = "encode", !.i = 1]
  PROVE  r = [pc |-> "encode", msg |-> c.msg, i |-> 1, ev |-> c.ev, met |-> c.met]
  BY DEF CallRecord

LEMMA ToOutput ==
  ASSUME NEW c \in CallRecord, NEW e, NEW r, r = [c EXCEPT !.pc = "output", !.ev = e]
  PROVE  r = [pc |-> "output", msg |-> c.msg, i |-> c.i, ev |-> e, met |-> c.met]
  BY DEF CallRecord

LEMMA ToSecond ==
  ASSUME NEW c \in CallRecord, NEW r, r = [c EXCEPT !.i = @ + 1]
  PROVE  r = [pc |-> c.pc, msg |-> c.msg, i |-> c.i + 1, ev |-> c.ev, met |-> c.met]
  BY DEF CallRecord

\* The call of a thread that is not under way is right whatever the others do.
LEMMA IdleIsRight ==
  ASSUME NEW t \in Out!Thread, call'[t] = Out!Idle
  PROVE  (IsTheirs(t) /\ HasMet(t) /\ FindsMixed(t) /\ AwaitsBoth(t) /\ SendsMixed(t))'
  BY DEF Out!Idle, Out!Busy, IsTheirs, HasMet, FindsMixed, FirstCopied, AwaitsBoth, SendsMixed

\* It is enough to see what becomes of the calls of the two threads.
LEMMA BothSuffice ==
  ASSUME NEW t \in Out!Thread, Out!TypeOK',
         (IsTheirs(t) /\ HasMet(t) /\ FindsMixed(t) /\ AwaitsBoth(t) /\ SendsMixed(t))',
         (IsTheirs(Out!Other(t)) /\ HasMet(Out!Other(t)) /\ FindsMixed(Out!Other(t))
            /\ AwaitsBoth(Out!Other(t)) /\ SendsMixed(Out!Other(t)))'
  PROVE  OutInv'
  BY Pair DEF OutInv

-----------------------------------------------------------------------------
(* The steps of a call                                                     *)

\* A call begins: if the other thread's is under way they meet.
LEMMA CalledStep ==
  ASSUME OutInv, NEW t \in Out!Thread, NEW m \in Out!Sends[t], Out!SendCalled(t, m)
  PROVE  OutInv'
  <1> DEFINE u == Out!Other(t)
             d == call[u]
  <1>1. /\ u \in Out!Thread /\ u # t /\ Out!Other(u) = t /\ call[u] \in CallRecord
        /\ IsTheirs(u) /\ FindsMixed(u) /\ AwaitsBoth(u) /\ SendsMixed(u)
    BY Pair DEF OutInv, Out!TypeOK, CallRecord
  <1>2. /\ call'[t] = [pc |-> "copy", msg |-> m, i |-> 1, ev |-> Out!NoEvent,
                       met |-> IF Out!Busy(u) THEN {d.msg} ELSE {}]
        /\ call'[u] = IF Out!Busy(u) THEN [d EXCEPT !.met = d.met \cup {m}] ELSE d
        /\ call' = [v \in Out!Thread |-> IF v = t THEN call'[t] ELSE call'[u]]
        /\ UNCHANGED <<buffer, coder>>
    BY <1>1, Pair DEF Out!SendCalled
  <1>3. /\ m \in Out!SentMessage /\ Len(m) \in 1 .. 2
        /\ Out!Busy(u) => d.msg \in Out!Sends[u] /\ d.msg \in Out!SentMessage
    BY <1>1, Sent DEF IsTheirs
  <1>4. CASE ~Out!Busy(u)
    <2>1. d = Out!Idle /\ call'[u] = Out!Idle
      BY <1>1, <1>2, <1>4 DEF IsTheirs
    <2>2. Out!TypeOK'
      <3>1. call'[t] \in CallRecord /\ call'[u] \in CallRecord
        BY <1>1, <1>2, <1>3, <1>4 DEF CallRecord
      <3> QED
        BY <1>1, <1>2, <3>1 DEF OutInv, Out!TypeOK, CallRecord
    <2>3. (IsTheirs(t) /\ HasMet(t) /\ FindsMixed(t) /\ AwaitsBoth(t) /\ SendsMixed(t))'
      BY <1>2, <1>3, <1>4, <2>1
      DEF IsTheirs, HasMet, FindsMixed, FirstCopied, AwaitsBoth, SendsMixed, Out!Busy, Out!Idle
    <2> QED
      BY <1>1, <2>1, <2>2, <2>3, IdleIsRight, BothSuffice
  <1>5. CASE Out!Busy(u)
    <2>1. /\ call'[u].pc = d.pc /\ call'[u].msg = d.msg /\ call'[u].i = d.i
          /\ call'[u].ev = d.ev /\ call'[u].met = d.met \cup {m}
      BY <1>1, <1>2, <1>5 DEF CallRecord
    <2>2. Out!TypeOK'
      <3>1. call'[t] \in CallRecord /\ call'[u] \in CallRecord
        BY <1>1, <1>2, <1>3, <1>5 DEF CallRecord
      <3> QED
        BY <1>1, <1>2, <3>1 DEF OutInv, Out!TypeOK, CallRecord
    <2>7. /\ call'[t].pc = "copy" /\ call'[t].msg = m /\ call'[t].i = 1
          /\ call'[t].met = {d.msg}
      BY <1>2, <1>5
    <2>8. IsTheirs(t)'
      <3>1. 1 \in 1 .. Len(m)
        <4>1. Len(m) = 1 \/ Len(m) = 2
          BY Sent
        <4> QED
          BY ONLY <4>1
      <3>2. {d.msg} \subseteq Out!Sends[u]
        BY <1>3, <1>5
      <3> QED
        BY <2>7, <3>1, <3>2 DEF IsTheirs, Out!Busy
    <2>9. HasMet(t)'
      BY <2>1, <2>7 DEF HasMet
    <2>3. (IsTheirs(t) /\ HasMet(t) /\ FindsMixed(t) /\ AwaitsBoth(t) /\ SendsMixed(t))'
      BY <2>7, <2>8, <2>9 DEF FindsMixed, FirstCopied, AwaitsBoth, SendsMixed
    <2>4. Mixed(u) \subseteq Mixed(u)'
      BY <2>1 DEF Mixed
    <2>5. (IsTheirs(u) /\ HasMet(u))'
      BY <1>1, <1>2, <1>5, <2>1 DEF IsTheirs, HasMet, Out!Busy
    <2>6. (FindsMixed(u) /\ AwaitsBoth(u) /\ SendsMixed(u))'
      BY <1>1, <1>2, <2>1, <2>4 DEF FindsMixed, FirstCopied, AwaitsBoth, SendsMixed
    <2> QED
      BY <2>2, <2>3, <2>5, <2>6, BothSuffice
  <1> QED
    BY <1>4, <1>5

\* A byte is copied over what the other thread's call may have copied there.
LEMMA CopiesStep ==
  ASSUME OutInv, NEW t \in Out!Thread, Out!SendCopies(t)
  PROVE  OutInv'
  <1> DEFINE u == Out!Other(t)
             c == call[t]
  <1>1. /\ u \in Out!Thread /\ u # t /\ Out!Other(u) = t
        /\ c \in CallRecord /\ call[u] \in CallRecord
        /\ IsTheirs(t) /\ HasMet(t) /\ FindsMixed(t)
        /\ IsTheirs(u) /\ HasMet(u) /\ FindsMixed(u) /\ AwaitsBoth(u) /\ SendsMixed(u)
    BY Pair DEF OutInv, Out!TypeOK, CallRecord
  <1>2. /\ c.pc = "copy" /\ Out!Busy(t) /\ coder' = coder
        /\ c.msg \in Out!Sends[t] /\ c.i \in 1 .. Len(c.msg)
        /\ buffer' = [buffer EXCEPT ![c.i] = c.msg[c.i]]
    BY <1>1 DEF Out!SendCopies, Out!Busy, IsTheirs
  <1>3. /\ c.msg[1] \in Out!Status
        /\ \/ Len(c.msg) = 1 /\ c.i = 1
           \/ Len(c.msg) = 2 /\ c.i \in {1, 2} /\ c.msg[2] = "DATA"
    <2>1. /\ c.msg[1] \in Out!Status
          /\ \/ Len(c.msg) = 1
             \/ Len(c.msg) = 2 /\ c.msg[2] = "DATA"
      BY <1>2, Sent
    <2>2. CASE Len(c.msg) = 1
      BY <1>2, <2>1, <2>2
    <2>3. CASE Len(c.msg) = 2
      BY <1>2, <2>1, <2>3
    <2> QED
      BY <2>1, <2>2, <2>3
  <1>4. \E r \in CallRecord :
          /\ call' = [call EXCEPT ![t] = r]
          /\ r.msg = c.msg /\ r.met = c.met
          /\ \/ r.pc = "encode" /\ r.i = 1 /\ c.i = Len(c.msg)
             \/ r.pc = "copy" /\ r.i = 2 /\ c.i = 1 /\ Len(c.msg) = 2
    <2>1. CASE c.i < Len(c.msg)
      <3>1. c.i = 1 /\ Len(c.msg) = 2
        <4>1. CASE Len(c.msg) = 1 /\ c.i = 1
          BY ONLY <2>1, <4>1
        <4>2. CASE Len(c.msg) = 2 /\ c.i \in {1, 2}
          BY ONLY <2>1, <4>2
        <4> QED
          BY <1>3, <4>1, <4>2
      <3>2. PICK r : r = [c EXCEPT !.i = @ + 1]
        OBVIOUS
      <3>3. call' = [call EXCEPT ![t] = r]
        BY <2>1, <3>2 DEF Out!SendCopies
      <3>4. r = [pc |-> "copy", msg |-> c.msg, i |-> 2, ev |-> c.ev, met |-> c.met]
        BY <1>1, <1>2, <3>1, <3>2, ToSecond
      <3>5. r \in CallRecord
        BY <1>1, <3>4 DEF CallRecord
      <3> QED
        BY <3>1, <3>3, <3>4, <3>5
    <2>2. CASE ~(c.i < Len(c.msg))
      <3>1. c.i = Len(c.msg)
        BY <1>3, <2>2
      <3>2. PICK r : r = [c EXCEPT !.pc = "encode", !.i = 1]
        OBVIOUS
      <3>3. call' = [call EXCEPT ![t] = r]
        BY <2>2, <3>2 DEF Out!SendCopies
      <3>4. r = [pc |-> "encode", msg |-> c.msg, i |-> 1, ev |-> c.ev, met |-> c.met]
        BY <1>1, <3>2, ToEncode
      <3>5. r \in CallRecord
        BY <1>1, <3>4 DEF CallRecord
      <3> QED
        BY <3>1, <3>3, <3>4, <3>5
    <2> QED
      BY <2>1, <2>2
  <1>5. PICK r \in CallRecord :
          /\ call' = [call EXCEPT ![t] = r]
          /\ r.msg = c.msg /\ r.met = c.met
          /\ \/ r.pc = "encode" /\ r.i = 1 /\ c.i = Len(c.msg)
             \/ r.pc = "copy" /\ r.i = 2 /\ c.i = 1 /\ Len(c.msg) = 2
    BY <1>4
  <1>6. call'[t] = r /\ call'[u] = call[u]
    BY <1>5, OneMoves
  <1>7. c.msg \in Mixed(t)' /\ (Out!Busy(u) => c.msg \in Mixed(u)')
    BY <1>1, <1>2, <1>5, <1>6 DEF Mixed, HasMet
  <1>8. /\ buffer \in [1 .. 2 -> Out!Byte]
        /\ c.i = 1 => buffer'[1] = c.msg[1] /\ buffer'[2] = buffer[2]
        /\ c.i = 2 => buffer'[1] = buffer[1] /\ buffer'[2] = "DATA"
    BY <1>2, <1>3 DEF OutInv, Out!TypeOK
  <1>9. Out!TypeOK'
    <2>1. c.msg[c.i] \in Out!Byte
      BY <1>2, <1>3 DEF Out!Byte
    <2> QED
      BY <1>2, <1>5, <1>8, <2>1 DEF OutInv, Out!TypeOK, CallRecord
  <1>10. (IsTheirs(t) /\ HasMet(t) /\ AwaitsBoth(t) /\ SendsMixed(t))'
    BY <1>1, <1>2, <1>3, <1>5, <1>6 DEF IsTheirs, HasMet, AwaitsBoth, SendsMixed, Out!Busy
  <1>11. FindsMixed(t)'
    <2>1. CASE c.i = 1
      BY <1>3, <1>5, <1>6, <1>7, <1>8, <2>1 DEF FindsMixed, FirstCopied
    <2>2. CASE c.i = 2
      <3>1. Mixed(t)' = Mixed(t)
        BY <1>5, <1>6 DEF Mixed
      <3> QED
        BY <1>1, <1>2, <1>6, <1>8, <2>2, <3>1 DEF FindsMixed, FirstCopied
    <2> QED
      BY <1>3, <2>1, <2>2
  <1>12. (IsTheirs(u) /\ HasMet(u) /\ AwaitsBoth(u) /\ SendsMixed(u))'
    BY <1>1, <1>2, <1>5, <1>6 DEF IsTheirs, HasMet, AwaitsBoth, SendsMixed, Out!Busy, Mixed
  <1>13. FindsMixed(u)'
    <2>1. FirstCopied(u)' = FirstCopied(u) /\ Mixed(u)' = Mixed(u)
          /\ (FirstCopied(u) => Out!Busy(u))
      BY <1>6 DEF FirstCopied, Mixed, Out!Busy
    <2>2. FirstCopied(u)' => \E m \in Mixed(u)' : buffer'[1] = m[1]
      BY <1>1, <1>3, <1>7, <1>8, <2>1 DEF FindsMixed
    <2>3. call'[u].pc = "encode" /\ Len(call'[u].msg) = 2 => buffer'[2] = "DATA"
      BY <1>1, <1>3, <1>6, <1>8 DEF FindsMixed
    <2> QED
      BY <2>2, <2>3 DEF FindsMixed
  <1> QED
    BY <1>9, <1>10, <1>11, <1>12, <1>13, BothSuffice

\* The first byte a call finds is that of a message it may send: the coder makes
\* of it what that message means.
LEMMA FirstByteMeans ==
  ASSUME OutInv, NEW t \in Out!Thread, call[t].pc = "encode"
  PROVE  /\ \E m \in Mixed(t) : Out!EventOf(buffer[1]) = Out!Meant(m)
         /\ Out!EventOf(buffer[1]) \in Out!Realtime \cup {Out!NoEvent}
         /\ \/ buffer[1] = "SONG_POS" /\ Out!CoderAfter(buffer[1]) = 2
               /\ Out!EventOf(buffer[1]) = Out!NoEvent
            \/ /\ buffer[1] \in Out!Realtime /\ Out!CoderAfter(buffer[1]) = coder
               /\ Out!EventOf(buffer[1]) # Out!NoEvent
  <1> DEFINE u == Out!Other(t)
  <1>1. PICK m \in Mixed(t) : buffer[1] = m[1]
    BY DEF OutInv, FindsMixed, FirstCopied
  <1>2. m \in Out!Sends[t] \/ m \in Out!Sends[u]
    <2>1. call[t].msg \in Out!Sends[t] /\ call[t].met \subseteq Out!Sends[u]
      BY DEF OutInv, IsTheirs, Out!Busy
    <2> QED
      BY <2>1 DEF Mixed
  <1>3. m[1] \in Out!Realtime \/ m[1] = "SONG_POS"
    BY <1>2, Pair, Sent
  <1> QED
    BY <1>1, <1>3 DEF Out!EventOf, Out!CoderAfter, Out!Meant, Out!Realtime, Out!NoEvent

\* A byte goes into the coder: the last one ends the call with an event that was
\* meant, an event before it ends the call at once.
LEMMA EncodesStep ==
  ASSUME OutInv, NEW t \in Out!Thread, Out!SendEncodes(t)
  PROVE  OutInv'
  <1> DEFINE u == Out!Other(t)
             c == call[t]
             ev == Out!EventOf(buffer[c.i])
  <1>1. /\ u \in Out!Thread /\ u # t /\ Out!Other(u) = t
        /\ c \in CallRecord /\ call[u] \in CallRecord /\ coder \in 0 .. 2
        /\ IsTheirs(t) /\ HasMet(t) /\ FindsMixed(t) /\ AwaitsBoth(t)
        /\ IsTheirs(u) /\ HasMet(u) /\ FindsMixed(u) /\ AwaitsBoth(u) /\ SendsMixed(u)
    BY Pair DEF OutInv, Out!TypeOK, CallRecord
  <1>2. /\ c.pc = "encode" /\ Out!Busy(t) /\ buffer' = buffer
        /\ c.msg \in Out!Sends[t] /\ c.i \in 1 .. Len(c.msg)
        /\ coder' = Out!CoderAfter(buffer[c.i])
    BY <1>1 DEF Out!SendEncodes, Out!Busy, IsTheirs
  <1>3. \/ Len(c.msg) = 1 /\ c.i = 1
        \/ Len(c.msg) = 2 /\ c.i = 1
        \/ Len(c.msg) = 2 /\ c.i = 2 /\ c.msg[1] = "SONG_POS" /\ t = "spooler"
    <2>1. CASE Len(c.msg) = 1
      BY <1>2, <2>1
    <2>2. CASE Len(c.msg) = 2 /\ c.msg[1] = "SONG_POS" /\ t = "spooler"
      <3>1. c.i = 1 \/ c.i = 2
        BY <1>2, <2>2
      <3> QED
        BY <2>2, <3>1
    <2> QED
      BY <1>2, <2>1, <2>2, Sent
  <1>4. /\ ev \in Out!Realtime \cup {Out!NoEvent}
        /\ \E m \in Mixed(t) : ev = Out!Meant(m)
        /\ coder' \in 0 .. 2
        /\ coder' = coder \/ coder' = 2 \/ t = "spooler"
        /\ c.i = 1 /\ ev = Out!NoEvent => coder' = 2
    <2>1. CASE c.i = 1
      BY <1>1, <1>2, <2>1, FirstByteMeans
    <2>2. CASE Len(c.msg) = 2 /\ c.i = 2 /\ c.msg[1] = "SONG_POS" /\ t = "spooler"
      <3>1. buffer[2] = "DATA" /\ coder = 2
        BY <1>1, <1>2, <2>2 DEF FindsMixed, AwaitsBoth
      <3>2. coder' = 1 /\ ev = Out!NoEvent
        BY <1>2, <2>2, <3>1 DEF Out!CoderAfter, Out!EventOf, Out!Realtime
      <3>3. Out!Meant(c.msg) = Out!NoEvent /\ c.msg \in Mixed(t)
        BY <2>2 DEF Out!Meant, Out!Realtime, Mixed
      <3> QED
        BY <2>2, <3>2, <3>3
    <2> QED
      BY <1>3, <2>1, <2>2
  <1>5. AwaitsBoth(u)' \/ call'[u] # call[u]
    <2>1. CASE coder' = coder \/ coder' = 2
      BY <1>1, <2>1 DEF AwaitsBoth
    <2>2. CASE t = "spooler"
      <3>1. Out!Busy(u) => Len(call[u].msg) = 1
        BY <1>1, <2>2, Sent DEF IsTheirs
      <3>2. Out!Busy(u) => call[u].i \in 1 .. 1
        BY <1>1, <3>1 DEF IsTheirs
      <3> QED
        BY <3>2 DEF AwaitsBoth, Out!Busy
    <2> QED
      BY <1>4, <2>1, <2>2
  <1>6. ASSUME NEW r \in CallRecord, call' = [call EXCEPT ![t] = r]
        PROVE  /\ call'[t] = r /\ call'[u] = call[u] /\ Out!TypeOK'
               /\ AwaitsBoth(u)' /\ FindsMixed(u)' /\ SendsMixed(u)' /\ IsTheirs(u)'
               /\ r.pc = "idle" \/ r.msg = c.msg => HasMet(u)'
    <2>1. call'[t] = r /\ call'[u] = call[u]
      BY <1>6, OneMoves
    <2>2. Out!TypeOK'
      BY <1>2, <1>4, <1>6 DEF OutInv, Out!TypeOK, CallRecord
    <2>3. AwaitsBoth(u)' /\ FindsMixed(u)' /\ SendsMixed(u)' /\ IsTheirs(u)'
      BY <1>1, <1>2, <1>5, <2>1
      DEF FindsMixed, FirstCopied, Mixed, SendsMixed, IsTheirs, Out!Busy
    <2>4. r.pc = "idle" \/ r.msg = c.msg => HasMet(u)'
      BY <1>1, <1>2, <2>1 DEF HasMet, Out!Busy
    <2> QED
      BY <2>1, <2>2, <2>3, <2>4
  <1>7. CASE c.i = Len(c.msg)
    <2>1. PICK r : r = [c EXCEPT !.pc = "output", !.ev = ev]
      OBVIOUS
    <2>2. call' = [call EXCEPT ![t] = r]
      BY <1>7, <2>1 DEF Out!SendEncodes
    <2>3. r = [pc |-> "output", msg |-> c.msg, i |-> c.i, ev |-> ev, met |-> c.met]
      BY <1>1, <2>1, ToOutput
    <2>4. ev \in Out!Status \cup {Out!NoEvent}
      BY <1>4 DEF Out!Status
    <2>5. r \in CallRecord
      BY <1>1, <2>3, <2>4 DEF CallRecord
    <2>9. call'[t] = r /\ call'[u] = call[u]
      BY <2>2, OneMoves
    <2>6. call'[t] = r /\ call'[u] = call[u] /\ Mixed(t)' = Mixed(t)
      BY <2>3, <2>9 DEF Mixed
    <2>7. IsTheirs(t)' /\ HasMet(t)'
      BY <1>1, <1>2, <2>3, <2>6 DEF IsTheirs, HasMet, Out!Busy
    <2>8. FindsMixed(t)' /\ AwaitsBoth(t)' /\ SendsMixed(t)'
      BY <1>4, <2>3, <2>6 DEF FindsMixed, FirstCopied, AwaitsBoth, SendsMixed
    <2> QED
      BY <1>6, <2>2, <2>3, <2>5, <2>7, <2>8, BothSuffice
  <1>8. CASE c.i # Len(c.msg) /\ ev # Out!NoEvent
    <2>1. call' = [call EXCEPT ![t] = Out!Idle]
      BY <1>8 DEF Out!SendEncodes
    <2>2. Out!Idle \in CallRecord /\ Out!Idle.pc = "idle"
      BY DEF Out!Idle, CallRecord
    <2> QED
      BY <1>6, <2>1, <2>2, IdleIsRight, BothSuffice
  <1>9. CASE c.i # Len(c.msg) /\ ev = Out!NoEvent
    <2>1. PICK r : r = [c EXCEPT !.i = @ + 1]
      OBVIOUS
    <2>2. call' = [call EXCEPT ![t] = r]
      BY <1>9, <2>1 DEF Out!SendEncodes
    <2>3. c.i = 1 /\ Len(c.msg) = 2
      BY <1>3, <1>9
    <2>4. r = [pc |-> "encode", msg |-> c.msg, i |-> 2, ev |-> c.ev, met |-> c.met]
      BY <1>1, <1>2, <2>1, <2>3, ToSecond
    <2>5. r \in CallRecord
      BY <1>1, <2>4 DEF CallRecord
    <2>10. call'[t] = r /\ call'[u] = call[u]
      BY <2>2, OneMoves
    <2>6. /\ call'[t] = r /\ call'[u] = call[u] /\ Mixed(t)' = Mixed(t)
          /\ 2 \in 1 .. Len(c.msg)
      BY <2>3, <2>4, <2>10 DEF Mixed
    <2>7. IsTheirs(t)' /\ HasMet(t)'
      BY <1>1, <1>2, <2>4, <2>6 DEF IsTheirs, HasMet, Out!Busy
    <2>8. AwaitsBoth(t)' /\ SendsMixed(t)'
      BY <1>4, <1>9, <2>3, <2>4, <2>6 DEF AwaitsBoth, SendsMixed
    <2>9. FindsMixed(t)'
      BY <1>1, <1>2, <2>4, <2>6 DEF FindsMixed, FirstCopied
    <2> QED
      BY <1>6, <2>2, <2>4, <2>5, <2>7, <2>8, <2>9, BothSuffice
  <1> QED
    BY <1>7, <1>8, <1>9

\* The call returns.
LEMMA OutputsStep ==
  ASSUME OutInv, NEW t \in Out!Thread, Out!SendOutputs(t)
  PROVE  OutInv'
  <1> DEFINE u == Out!Other(t)
  <1>1. /\ call' = [call EXCEPT ![t] = Out!Idle] /\ UNCHANGED <<buffer, coder>>
        /\ u \in Out!Thread /\ u # t /\ Out!Other(u) = t
    BY Pair DEF Out!SendOutputs
  <1>2. call'[t] = Out!Idle /\ call'[u] = call[u]
    BY <1>1, OneMoves
  <1>3. Out!Idle \in CallRecord /\ Out!Idle.pc = "idle"
    BY DEF Out!Idle, CallRecord
  <1>4. Out!TypeOK'
    BY <1>1, <1>3 DEF OutInv, Out!TypeOK, CallRecord
  <1>5. (IsTheirs(u) /\ HasMet(u) /\ FindsMixed(u) /\ AwaitsBoth(u) /\ SendsMixed(u))'
    BY <1>1, <1>2, <1>3
    DEF OutInv, IsTheirs, HasMet, FindsMixed, FirstCopied, AwaitsBoth, SendsMixed, Mixed, Out!Busy
  <1> QED
    BY <1>2, <1>4, <1>5, IdleIsRight, BothSuffice

\* Before the first call both threads are idle.
LEMMA OutStarts == Out!Init => OutInv
  <1> SUFFICES ASSUME Out!Init PROVE OutInv
    OBVIOUS
  <1>1. Out!Idle \in CallRecord
    BY DEF Out!Idle, CallRecord
  <1>2. Out!TypeOK
    BY <1>1 DEF Out!Init, Out!TypeOK, CallRecord, Out!Byte
  <1> QED
    BY <1>2 DEF Out!Init, OutInv, IsTheirs, HasMet, FindsMixed, FirstCopied, AwaitsBoth,
                SendsMixed, Out!Busy, Out!Idle

LEMMA OutStep == OutInv /\ [Out!Next]_outVars => OutInv'
  <1>1. OutInv /\ Out!Next => OutInv'
    BY CalledStep, CopiesStep, EncodesStep, OutputsStep DEF Out!Next
  <1>2. OutInv /\ UNCHANGED outVars => OutInv'
    BY DEF outVars, OutInv, Out!TypeOK, IsTheirs, HasMet, FindsMixed, FirstCopied, AwaitsBoth,
           SendsMixed, Mixed, Out!Busy
  <1> QED
    BY <1>1, <1>2

-----------------------------------------------------------------------------
(* The ports                                                               *)

\* A behaviour of the ports is one of each port.
LEMMA EachPort ==
  /\ PortsInit => Init /\ OutInv
  /\ [PortsNext]_<<followed, vars, outVars>> => [Next]_vars /\ [Out!Next]_outVars
  <1>1. PortsInit => Init /\ OutInv
    BY OutStarts DEF PortsInit
  <1>2. [PortsNext]_<<followed, vars, outVars>> => [Next]_vars /\ [Out!Next]_outVars
    BY DEF PortsNext
  <1> QED
    BY <1>1, <1>2

\* The input port behaves as MidiInput has it, whatever is sent meanwhile.
THEOREM InputPort == PortsSpec => Spec
  BY EachPort, PTL DEF PortsSpec, Spec

\* OutInv is an invariant of the output port.
THEOREM OutInvariant == PortsSpec => []OutInv
  BY EachPort, OutStep, PTL DEF PortsSpec

\* The variables of both ports keep their types.
THEOREM PortsTypeCorrect ==
  ASSUME Seq(Event) \subseteq Message
  PROVE  PortsSpec => []PortsTypeOK
  <1>1. Spec => []TypeOK
    BY InputTypeCorrect
  <1>2. OutInv => Out!TypeOK
    BY DEF OutInv
  <1> QED
    BY <1>1, <1>2, InputPort, OutInvariant, PTL DEF PortsTypeOK

(***************************************************************************)
(* However the spooler and the clock sender overlap in sendMessage(), a    *)
(* call sends what its own message means or that of a call it overlapped:  *)
(* no byte of two messages ever makes a third.                             *)
(***************************************************************************)
THEOREM SendsNothingElse == PortsSpec => []SendsItsOwnOrMet
  <1>1. OutInv => SendsItsOwnOrMet
    BY DEF OutInv, SendsMixed, Mixed, SendsItsOwnOrMet, Out!SendsItsOwnOrMet
  <1> QED
    BY <1>1, OutInvariant, PTL

=============================================================================
