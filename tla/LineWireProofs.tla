--------------------------- MODULE LineWireProofs ---------------------------
(***************************************************************************)
(* One direction of a connection, for every bound and every set of         *)
(* commands.  First the parser: it accepts a whole line and refuses what   *)
(* is left of one after its first symbols.  Then the stream: WireInv says  *)
(* that every symbol of it is a letter of some message, and the messages   *)
(* stand there whole and one after the other, up to where the writer is.   *)
(* So the reader's line is usable only when it begins with a message, and  *)
(* what it uses is the message behind those that have passed.              *)
(***************************************************************************)
EXTENDS LineWire, SequenceTheorems, FiniteSetTheorems, WellFoundedInduction, TLAPS

\* A set of natural numbers that is not empty has a least one.
LEMMA Least ==
  ASSUME NEW T, T \subseteq Nat, T # {}
  PROVE  \E x \in T : \A y \in T : x <= y
  <1> DEFINE R == {s \in Nat \X Nat : s[1] < s[2]}
  <1>1. IsWellFoundedOn(R, Nat)
    BY NatLessThanWellFounded DEF OpToRel
  <1>2. PICK x \in T : \A y \in T : ~(<<y, x>> \in R)
    BY <1>1, WFMin
  <1>3. ASSUME NEW y \in T PROVE x <= y
    <2>1. x \in Nat /\ y \in Nat /\ ~(y < x)
      BY <1>2
    <2> QED
      BY <2>1
  <1> QED
    BY <1>3

\* Induction, for the set of numbers of which something holds.
LEMMA Induction ==
  ASSUME NEW S, 0 \in S, \A n \in Nat : n \in S => n + 1 \in S
  PROVE  Nat \subseteq S
  <1> SUFFICES ASSUME Nat \ S # {} PROVE FALSE
    OBVIOUS
  <1>1. PICK x \in Nat \ S : \A y \in Nat \ S : x <= y
    BY Least
  <1>2. x # 0 /\ x - 1 \in Nat
    BY <1>1
  <1>3. x - 1 \in S
    BY <1>1, <1>2
  <1>4. (x - 1) + 1 = x
    BY <1>1
  <1> QED
    BY <1>1, <1>2, <1>3, <1>4

\* Min() of a set of positions is in it and the first of it.
LEMMA MinIs ==
  ASSUME NEW T, T \subseteq Nat, T # {}
  PROVE  Min(T) \in T /\ \A y \in T : Min(T) <= y
  BY Least DEF Min

-----------------------------------------------------------------------------
(* The parser                                                              *)

\* f is the parser's run over text, state by state.
Run(text, f) ==
  f = [i \in 0 .. Len(text) |->
         IF i = 0 THEN Json!Start ELSE Json!Step(f[i - 1], Json!TokenAt(text, i))]

\* The parser runs over every text.
LEMMA RunExists ==
  ASSUME NEW text, Len(text) \in Nat
  PROVE  \E f : Run(text, f)
  <1> DEFINE Part(n, f) ==
               f = [i \in 0 .. n |->
                      IF i = 0 THEN Json!Start ELSE Json!Step(f[i - 1], Json!TokenAt(text, i))]
             S == {n \in Nat : \E f : Part(n, f)}
  <1>1. 0 \in S
    <2> DEFINE g == [i \in 0 .. 0 |-> Json!Start]
    <2>1. Part(0, g)
      OBVIOUS
    <2> HIDE DEF Part
    <2> QED
      BY <2>1
  <1>2. ASSUME NEW n \in Nat, n \in S PROVE n + 1 \in S
    <2>1. PICK f : Part(n, f)
      BY <1>2
    <2> DEFINE g == [i \in 0 .. n + 1 |->
                       IF i <= n THEN f[i] ELSE Json!Step(f[n], Json!TokenAt(text, n + 1))]
    <2>2. \A i \in 0 .. n + 1 :
            g[i] = IF i = 0 THEN Json!Start ELSE Json!Step(g[i - 1], Json!TokenAt(text, i))
      BY <2>1
    <2>3. Part(n + 1, g)
      BY <2>2
    <2> HIDE DEF Part, g
    <2> QED
      BY <2>3
  <1>3. Len(text) \in S
    <2> HIDE DEF S
    <2> QED
      BY <1>1, <1>2, Induction
  <1> QED
    BY <1>3 DEF Run

\* Accepts() asks how the run over the text ends.
LEMMA AcceptsByRun ==
  ASSUME NEW text, Len(text) \in Nat
  PROVE  \E f : /\ f[0] = Json!Start
                /\ \A i \in 1 .. Len(text) : f[i] = Json!Step(f[i - 1], Json!TokenAt(text, i))
                /\ Json!Accepts(text) <=> Json!Step(f[Len(text)], "end").at = "accepted"
  <1> DEFINE After[i \in 0 .. Len(text)] ==
               IF i = 0 THEN Json!Start ELSE Json!Step(After[i - 1], Json!TokenAt(text, i))
  <1>1. After = CHOOSE f : Run(text, f)
    BY DEF Run
  <1>2. Json!Accepts(text) <=> Json!Step(After[Len(text)], "end").at = "accepted"
    BY DEF Json!Accepts
  <1> HIDE DEF After
  <1>3. Run(text, After)
    BY <1>1, RunExists
  <1>4. After[0] = Json!Start
    BY <1>3 DEF Run
  <1>5. \A i \in 1 .. Len(text) : After[i] = Json!Step(After[i - 1], Json!TokenAt(text, i))
    BY <1>3 DEF Run
  <1> QED
    BY <1>2, <1>4, <1>5

\* An error is final.
LEMMA ErrorStays ==
  ASSUME NEW text, Len(text) \in Nat, NEW f,
         \A i \in 1 .. Len(text) : f[i] = Json!Step(f[i - 1], Json!TokenAt(text, i)),
         NEW k \in 0 .. Len(text), f[k].at = "error"
  PROVE  f[Len(text)].at = "error"
  <1> DEFINE S == {d \in Nat : k + d <= Len(text) => f[k + d].at = "error"}
  <1>1. 0 \in S
    OBVIOUS
  <1>2. ASSUME NEW d \in Nat, d \in S PROVE d + 1 \in S
    <2> SUFFICES ASSUME k + (d + 1) <= Len(text) PROVE f[k + (d + 1)].at = "error"
      OBVIOUS
    <2>1. /\ k + (d + 1) \in 1 .. Len(text) /\ (k + (d + 1)) - 1 = k + d /\ k + d <= Len(text)
      OBVIOUS
    <2>2. f[k + d].at = "error"
      BY <1>2, <2>1
    <2>3. f[k + (d + 1)] = f[k + d]
      BY <2>1, <2>2 DEF Json!Step, Json!Consumes
    <2> QED
      BY <2>2, <2>3
  <1>3. Len(text) - k \in S
    <2> HIDE DEF S
    <2> QED
      BY <1>1, <1>2, Induction
  <1> QED
    BY <1>3

\* A text on which the parser runs into an error is refused.
LEMMA Refused ==
  ASSUME NEW text, Len(text) \in Nat, NEW k \in 0 .. Len(text),
         \A f : /\ f[0] = Json!Start
                /\ \A i \in 1 .. Len(text) : f[i] = Json!Step(f[i - 1], Json!TokenAt(text, i))
                => f[k].at = "error"
  PROVE  ~Json!Accepts(text)
  <1>1. PICK f :
          /\ f[0] = Json!Start
          /\ \A i \in 1 .. Len(text) : f[i] = Json!Step(f[i - 1], Json!TokenAt(text, i))
          /\ Json!Accepts(text) <=> Json!Step(f[Len(text)], "end").at = "accepted"
    BY AcceptsByRun
  <1>2. f[Len(text)].at = "error"
    BY <1>1, ErrorStays
  <1>3. Json!Step(f[Len(text)], "end") = f[Len(text)]
    BY <1>2 DEF Json!Step, Json!Consumes
  <1> QED
    BY <1>1, <1>2, <1>3

-----------------------------------------------------------------------------
(* The texts                                                               *)

\* The symbols of the bytes of a message.
Width(c) == IF c = "SONG_POS" THEN 3 ELSE 1

Size(c) == 17 + Width(c)

\* What the writer sends for a message.
Letter(c,
  i) == IF i <= Size(c) THEN Text(c)[i] ELSE IF i = Size(c) + 1 THEN Json!Newline ELSE Json!NUL

\* What stands where in a concatenation.
LEMMA Joined ==
  ASSUME NEW S, NEW s \in Seq(S), NEW t \in Seq(S)
  PROVE  /\ s \o t \in Seq(S) /\ Len(s \o t) = Len(s) + Len(t)
         /\ \A i \in 1 .. Len(s) + Len(t) : (s \o t)[i] = IF i <= Len(s) THEN s[i]
              ELSE t[i - Len(s)]
  BY ConcatProperties

\* The sequences of the commands.
LEMMA Tuples ==
  ASSUME NEW S, NEW x \in S, NEW y \in S, NEW z \in S
  PROVE  /\ <<x>> \in Seq(S) /\ Len(<<x>>) = 1
         /\ <<x, y, z>> \in Seq(S) /\ Len(<<x, y, z>>) = 3
  OBVIOUS

\* The symbols of a message, one by one.
LEMMA TextIs ==
  ASSUME NEW c \in Command
  PROVE  LET t == Text(c)
             w == Width(c)
         IN  /\ t \in Seq(Json!Symbol) /\ Len(t) = Size(c) /\ w \in {1, 3}
             /\ t[1] = "begin_object" /\ t[2] = "bytes" /\ t[3] = Json!Quote
             /\ t[4] = "name_separator" /\ t[5] = "begin_array"
             /\ t[6] = c /\ (w = 3 => t[7] = "value_separator" /\ t[8] = "zero")
             /\ t[6 + w] = "end_array" /\ t[7 + w] = "value_separator" /\ t[8 + w] = "meta"
             /\ t[9 + w] = Json!Quote
             /\ t[10 + w] = "name_separator" /\ t[11 + w] = "begin_object"
             /\ t[12 + w] = "exec_timestamp"
             /\ t[13 + w] = Json!Quote /\ t[14 + w] = "name_separator" /\ t[15 + w] = "seconds"
             /\ t[16 + w] = "end_object" /\ t[17 + w] = "end_object"
  <1> DEFINE t == Text(c)
             w == Width(c)
             a == <<"begin_object", "bytes", Json!Quote, "name_separator", "begin_array">>
             b == IF c = "SONG_POS" THEN <<c, "value_separator", "zero">> ELSE <<c>>
             d == <<"end_array", "value_separator", "meta", Json!Quote, "name_separator",
               "begin_object",
                    "exec_timestamp", Json!Quote, "name_separator", "seconds", "end_object",
                      "end_object">>
  <1>1. t = a \o b \o d
    BY DEF Text
  <1>2. a \in Seq(Json!Symbol) /\ Len(a) = 5
    BY DEF Json!Symbol, Json!Structural, Quoted, Number, Json!Quote
  <1>3. w \in {1, 3} /\ b \in Seq(Json!Symbol) /\ Len(b) = w
    <2>1. c \in Json!Symbol /\ "value_separator" \in Json!Symbol /\ "zero" \in Json!Symbol
      BY WireAssumption DEF Json!Symbol, Json!Structural, Number
    <2>2. <<c, "value_separator", "zero">> \in Seq(Json!Symbol)
            /\ Len(<<c, "value_separator", "zero">>) = 3
      BY ONLY <2>1, Tuples, Zenon
    <2>3. <<c>> \in Seq(Json!Symbol) /\ Len(<<c>>) = 1
      BY ONLY <2>1, Tuples, Zenon
    <2>4. \/ b = <<c, "value_separator", "zero">> /\ w = 3
          \/ b = <<c>> /\ w = 1
      BY DEF Width
    <2> HIDE DEF b, w
    <2> QED
      BY <2>2, <2>3, <2>4
  <1>4. d \in Seq(Json!Symbol) /\ Len(d) = 12
    BY DEF Json!Symbol, Json!Structural, Quoted, Number, Json!Quote
  <1>5. /\ a[1] = "begin_object" /\ a[2] = "bytes" /\ a[3] = Json!Quote
             /\ a[4] = "name_separator" /\ a[5] = "begin_array"
        /\ b[1] = c /\ (w = 3 => b[2] = "value_separator" /\ b[3] = "zero")
        /\ d[1] = "end_array" /\ d[2] = "value_separator" /\ d[3] = "meta" /\ d[4] = Json!Quote
        /\ d[5] = "name_separator" /\ d[6] = "begin_object" /\ d[7] = "exec_timestamp"
        /\ d[8] = Json!Quote /\ d[9] = "name_separator" /\ d[10] = "seconds"
        /\ d[11] = "end_object" /\ d[12] = "end_object"
    BY DEF Width
  <1> HIDE DEF t, w, a, b, d
  <1> DEFINE e == a \o b
             h == 5 + w
  <1>w. w \in Nat /\ h \in Nat /\ 5 \in Nat /\ 12 \in Nat /\ h = 5 + w
    BY <1>3
  <1>6. /\ e \in Seq(Json!Symbol) /\ Len(e) = 5 + w
        /\ \A i \in 1 .. 5 + w : e[i] = IF i <= 5 THEN a[i] ELSE b[i - 5]
    <2>1. /\ e \in Seq(Json!Symbol) /\ Len(e) = Len(a) + Len(b)
          /\ \A i \in 1 .. Len(a) + Len(b) : e[i] = IF i <= Len(a) THEN a[i] ELSE b[i - Len(a)]
      BY ONLY <1>2, <1>3, Joined, Zenon
    <2> HIDE DEF e
    <2> QED
      BY ONLY <2>1, <1>2, <1>3, Zenon
  <1>7. t = e \o d
    BY <1>1
  <1> HIDE DEF e, h
  <1>e. Len(e) = h /\ e \in Seq(Json!Symbol)
    BY <1>6, <1>w
  <1>8. /\ t \in Seq(Json!Symbol) /\ Len(t) = h + 12
        /\ \A i \in 1 .. h + 12 : t[i] = IF i <= h THEN e[i] ELSE d[i - h]
    <2>1. /\ t \in Seq(Json!Symbol) /\ Len(t) = Len(e) + Len(d)
          /\ \A i \in 1 .. Len(e) + Len(d) : t[i] = IF i <= Len(e) THEN e[i] ELSE d[i - Len(e)]
      BY ONLY <1>e, <1>4, <1>7, Joined, Zenon
    <2> QED
      BY ONLY <2>1, <1>e, <1>4, Zenon
  <1>10. Len(t) = Size(c)
    BY <1>3, <1>8, <1>w DEF Size, w
  <1>11. /\ t[1] = "begin_object" /\ t[2] = "bytes" /\ t[3] = Json!Quote
              /\ t[4] = "name_separator" /\ t[5] = "begin_array"
         /\ t[6] = c /\ (w = 3 => t[7] = "value_separator" /\ t[8] = "zero")
    <2>1. \A i \in 1 .. 5 : t[i] = a[i]
      BY <1>3, <1>w, <1>6, <1>8
    <2>2. \A i \in 1 .. w : t[5 + i] = b[i]
      <3> TAKE i \in 1 .. w
      <3>1. 5 + i \in 1 .. 5 + w /\ ~(5 + i <= 5) /\ (5 + i) - 5 = i /\ 5 + i <= h
              /\ 5 + i \in 1 .. h + 12
        BY <1>3, <1>w
      <3>2. t[5 + i] = e[5 + i]
        BY <1>8, <3>1
      <3> QED
        BY <1>6, <3>1, <3>2
    <2>3. t[6] = b[1] /\ (w = 3 => t[7] = b[2] /\ t[8] = b[3])
      <3>1. 1 \in 1 .. w /\ 5 + 1 = 6 /\ (w = 3 => 2 \in 1 .. w /\ 3 \in 1 .. w) /\ 5 + 2 = 7
              /\ 5 + 3 = 8
        BY <1>3
      <3> QED
        BY ONLY <3>1, <2>2
    <2>4. t[1] = a[1] /\ t[2] = a[2] /\ t[3] = a[3] /\ t[4] = a[4] /\ t[5] = a[5]
      BY <2>1
    <2> QED
      BY ONLY <2>3, <2>4, <1>5, Zenon
  <1>9. \A i \in 1 .. 12 : t[h + i] = d[i]
    <2> TAKE i \in 1 .. 12
    <2>1. h + i \in 1 .. h + 12 /\ ~(h + i <= h) /\ (h + i) - h = i
      BY <1>w
    <2> QED
      BY <1>8, <2>1
  <1>12. /\ h + 1 = 6 + w /\ h + 2 = 7 + w /\ h + 3 = 8 + w /\ h + 4 = 9 + w /\ h + 5 = 10 + w
         /\ h + 6 = 11 + w /\ h + 7 = 12 + w /\ h + 8 = 13 + w /\ h + 9 = 14 + w
         /\ h + 10 = 15 + w /\ h + 11 = 16 + w /\ h + 12 = 17 + w
    BY ONLY <1>w
  <1>13. /\ t[h + 1] = "end_array" /\ t[h + 2] = "value_separator" /\ t[h + 3] = "meta"
         /\ t[h + 4] = Json!Quote
         /\ t[h + 5] = "name_separator" /\ t[h + 6] = "begin_object" /\ t[h + 7] = "exec_timestamp"
         /\ t[h + 8] = Json!Quote /\ t[h + 9] = "name_separator" /\ t[h + 10] = "seconds"
         /\ t[h + 11] = "end_object" /\ t[h + 12] = "end_object"
    <2>1. /\ t[h + 1] = d[1] /\ t[h + 2] = d[2] /\ t[h + 3] = d[3] /\ t[h + 4] = d[4]
          /\ t[h + 5] = d[5] /\ t[h + 6] = d[6] /\ t[h + 7] = d[7] /\ t[h + 8] = d[8]
          /\ t[h + 9] = d[9] /\ t[h + 10] = d[10] /\ t[h + 11] = d[11] /\ t[h + 12] = d[12]
      BY ONLY <1>9
    <2> QED
      BY ONLY <2>1, <1>5, Zenon
  <1>14. /\ t[6 + w] = "end_array" /\ t[7 + w] = "value_separator" /\ t[8 + w] = "meta"
         /\ t[9 + w] = Json!Quote
    BY ONLY <1>12, <1>13, Zenon
  <1>15. /\ t[10 + w] = "name_separator" /\ t[11 + w] = "begin_object"
         /\ t[12 + w] = "exec_timestamp" /\ t[13 + w] = Json!Quote
    BY ONLY <1>12, <1>13, Zenon
  <1>16. /\ t[14 + w] = "name_separator" /\ t[15 + w] = "seconds"
         /\ t[16 + w] = "end_object" /\ t[17 + w] = "end_object"
    BY ONLY <1>12, <1>13, Zenon
  <1> QED
    BY <1>3, <1>8, <1>10, <1>11, <1>14, <1>15, <1>16 DEF t, w

-----------------------------------------------------------------------------
(* The parser's states                                                     *)

At(at, states) == [at |-> at, states |-> states]

O == <<"object">>
A == <<"array">>
OO == <<"object", "object">>
OA == <<"object", "array">>

\* Append() and SubSeq() on the parser's stack.
LEMMA Pushed ==
  ASSUME NEW S, NEW x \in S, NEW y \in S
  PROVE  /\ Append(<<>>, x) = <<x>> /\ Append(<<x>>, y) = <<x, y>>
         /\ SubSeq(<<x>>, 1, 0) = <<>> /\ SubSeq(<<x, y>>, 1, 1) = <<x>>
  <1>1. Append(<<>>, x) = <<x>>
    <2>1. <<>> \in Seq(S) /\ Len(<<>>) = 0
      OBVIOUS
    <2>2. Append(<<>>, x) \in Seq(S) /\ Len(Append(<<>>, x)) = 1 /\ Append(<<>>, x)[1] = x
      BY <2>1, AppendProperties
    <2>3. <<x>> \in Seq(S) /\ Len(<<x>>) = 1 /\ <<x>>[1] = x
      OBVIOUS
    <2> QED
      BY <2>2, <2>3, SeqEqual
  <1>2. Append(<<x>>, y) = <<x, y>>
    <2>1. <<x>> \in Seq(S) /\ Len(<<x>>) = 1 /\ <<x>>[1] = x
      OBVIOUS
    <2>2. /\ Append(<<x>>, y) \in Seq(S) /\ Len(Append(<<x>>, y)) = 2
          /\ Append(<<x>>, y)[1] = x /\ Append(<<x>>, y)[2] = y
      BY <2>1, AppendProperties
    <2>3. <<x, y>> \in Seq(S) /\ Len(<<x, y>>) = 2 /\ <<x, y>>[1] = x /\ <<x, y>>[2] = y
      OBVIOUS
    <2>4. \A i \in 1 .. 2 : Append(<<x>>, y)[i] = <<x, y>>[i]
      BY <2>2, <2>3
    <2> QED
      BY <2>2, <2>3, <2>4, SeqEqual, Zenon
  <1>3. SubSeq(<<x>>, 1, 0) = <<>>
    OBVIOUS
  <1>4. SubSeq(<<x, y>>, 1, 1) = <<x>>
    <2>1. <<x, y>> \in Seq(S) /\ Len(<<x, y>>) = 2 /\ <<x, y>>[1] = x
      OBVIOUS
    <2>2. /\ SubSeq(<<x, y>>, 1, 1) \in Seq(S) /\ Len(SubSeq(<<x, y>>, 1, 1)) = 1
          /\ SubSeq(<<x, y>>, 1, 1)[1] = x
      BY <2>1, SubSeqProperties
    <2>3. <<x>> \in Seq(S) /\ Len(<<x>>) = 1 /\ <<x>>[1] = x
      OBVIOUS
    <2>4. \A i \in 1 .. 1 : SubSeq(<<x, y>>, 1, 1)[i] = <<x>>[i]
      BY <2>2, <2>3
    <2> QED
      BY <2>2, <2>3, <2>4, SeqEqual, Zenon
  <1> QED
    BY <1>1, <1>2, <1>3, <1>4

\* The stacks of the texts.
LEMMA Stacks ==
  /\ Append(<<>>, "object") = O /\ Append(<<>>, "array") = A
  /\ Append(O, "object") = OO /\ Append(O, "array") = OA
  /\ Json!Last(O) = "object" /\ Json!Last(A) = "array"
  /\ Json!Last(OO) = "object" /\ Json!Last(OA) = "array"
  /\ Json!Front(O) = <<>> /\ Json!Front(A) = <<>>
  /\ Json!Front(OO) = O /\ Json!Front(OA) = O
  /\ O # <<>> /\ A # <<>> /\ OO # <<>> /\ OA # <<>>
  <1>0. "object" \in {"object", "array"} /\ "array" \in {"object", "array"}
    OBVIOUS
  <1>1. /\ Append(<<>>, "object") = O /\ Append(<<>>, "array") = A
        /\ Append(O, "object") = OO /\ Append(O, "array") = OA
    BY <1>0, Pushed, Zenon DEF O, A, OO, OA
  <1>2. /\ Json!Last(O) = "object" /\ Json!Last(A) = "array"
        /\ Json!Last(OO) = "object" /\ Json!Last(OA) = "array"
    BY DEF O, A, OO, OA, Json!Last
  <1>3. /\ Json!Front(O) = <<>> /\ Json!Front(A) = <<>>
    BY DEF O, A, OO, OA, Json!Front
  <1>4. /\ Json!Front(OO) = O /\ Json!Front(OA) = O
    <2>1. Len(OO) - 1 = 1 /\ Len(OA) - 1 = 1
      BY DEF OO, OA
    <2>2. Json!Front(OO) = SubSeq(OO, 1, 1) /\ Json!Front(OA) = SubSeq(OA, 1, 1)
      BY <2>1, Zenon DEF Json!Front
    <2> QED
      BY <1>0, <2>2, Pushed, Zenon DEF O, OO, OA
  <1>5. /\ O # <<>> /\ A # <<>> /\ OO # <<>> /\ OA # <<>>
    BY DEF O, A, OO, OA
  <1> QED
    BY <1>1, <1>2, <1>3, <1>4, <1>5

\* get_token() passes over a newline and a closing quote.
LEMMA Skips ==
  ASSUME NEW p
  PROVE  Json!Step(p, "none") = p
  BY DEF Json!Step

\* The tokens at which sax_parse_internal() gives up.
LEMMA Fails ==
  /\ Json!Step(At("value", <<>>), "value_separator").at = "error"
  /\ Json!Step(At("value", <<>>), "end_array").at = "error"
  /\ Json!Step(At("value", <<>>), "end_object").at = "error"
  /\ Json!Step(At("value", <<>>), "name_separator").at = "error"
  /\ Json!Step(At("value", <<>>), "end").at = "error"
  /\ Json!Step(At("value", <<>>), "error").at = "error"
  /\ Json!Step(At("text over", <<>>), "value_separator").at = "error"
  /\ Json!Step(At("text over", <<>>), "end_array").at = "error"
  /\ Json!Step(At("text over", <<>>), "end_object").at = "error"
  /\ Json!Step(At("text over", <<>>), "name_separator").at = "error"
  BY DEF At, Json!Step, Json!Consumes, Json!Value, Json!Error, Json!Expect

\* sax_parse_internal()'s steps, whatever its stack is.
LEMMA StepsFrom ==
  ASSUME NEW s
  PROVE  /\ Json!Step(At("value", s), "begin_object") = At("key or end", Append(s, "object"))
         /\ Json!Step(At("value", s), "begin_array") = At("value or end", Append(s, "array"))
         /\ Json!Step(At("value", s), "number") = Json!ValueEnds(s)
         /\ Json!Step(At("value", s), "string") = Json!ValueEnds(s)
         /\ Json!Step(At("value or end", s), "number") = Json!ValueEnds(s)
         /\ Json!Step(At("key or end", s), "string") = At("separator", s)
         /\ Json!Step(At("key", s), "string") = At("separator", s)
         /\ Json!Step(At("separator", s), "name_separator") = At("value", s)
         /\ Json!Last(s) = "array" =>
              /\ Json!Step(At("value over", s), "value_separator") = At("value", s)
              /\ Json!Step(At("value over", s), "end_array") = Json!ValueEnds(Json!Front(s))
         /\ Json!Last(s) = "object" =>
              /\ Json!Step(At("value over", s), "value_separator") = At("key", s)
              /\ Json!Step(At("value over", s), "end_object") = Json!ValueEnds(Json!Front(s))
         /\ Json!Step(At("text over", s), "end") = At("accepted", s)
         /\ Json!Step(At("accepted", s), "end") = At("accepted", s)
         /\ s = <<>> => Json!ValueEnds(s) = At("text over", s)
         /\ s # <<>> => Json!ValueEnds(s) = At("value over", s)
  <1> USE DEF At, Json!Step, Json!Consumes, Json!Value, Json!Key, Json!Opens, Json!Closes,
              Json!Error, Json!Expect
  <1>1. /\ Json!Step(At("value", s), "begin_object") = At("key or end", Append(s, "object"))
        /\ Json!Step(At("value", s), "begin_array") = At("value or end", Append(s, "array"))
    OBVIOUS
  <1>2. /\ Json!Step(At("value", s), "number") = Json!ValueEnds(s)
        /\ Json!Step(At("value", s), "string") = Json!ValueEnds(s)
        /\ Json!Step(At("value or end", s), "number") = Json!ValueEnds(s)
    OBVIOUS
  <1>3. /\ Json!Step(At("key or end", s), "string") = At("separator", s)
        /\ Json!Step(At("key", s), "string") = At("separator", s)
        /\ Json!Step(At("separator", s), "name_separator") = At("value", s)
    OBVIOUS
  <1>4. Json!Last(s) = "array" =>
          /\ Json!Step(At("value over", s), "value_separator") = At("value", s)
          /\ Json!Step(At("value over", s), "end_array") = Json!ValueEnds(Json!Front(s))
    OBVIOUS
  <1>5. Json!Last(s) = "object" =>
          /\ Json!Step(At("value over", s), "value_separator") = At("key", s)
          /\ Json!Step(At("value over", s), "end_object") = Json!ValueEnds(Json!Front(s))
    OBVIOUS
  <1>6. /\ Json!Step(At("text over", s), "end") = At("accepted", s)
        /\ Json!Step(At("accepted", s), "end") = At("accepted", s)
    OBVIOUS
  <1>8. /\ s = <<>> => Json!ValueEnds(s) = At("text over", s)
        /\ s # <<>> => Json!ValueEnds(s) = At("value over", s)
    BY DEF Json!ValueEnds
  <1> QED
    BY <1>1, <1>2, <1>3, <1>4, <1>5, <1>6, <1>8

\* The steps of the texts.
LEMMA Steps ==
  /\ Json!Step(At("value", <<>>), "begin_object") = At("key or end", O)
  /\ Json!Step(At("key or end", O), "string") = At("separator", O)
  /\ Json!Step(At("separator", O), "name_separator") = At("value", O)
  /\ Json!Step(At("value", O), "begin_array") = At("value or end", OA)
  /\ Json!Step(At("value or end", OA), "number") = At("value over", OA)
  /\ Json!Step(At("value over", OA), "value_separator") = At("value", OA)
  /\ Json!Step(At("value", OA), "number") = At("value over", OA)
  /\ Json!Step(At("value over", OA), "end_array") = At("value over", O)
  /\ Json!Step(At("value over", O), "value_separator") = At("key", O)
  /\ Json!Step(At("key", O), "string") = At("separator", O)
  /\ Json!Step(At("value", O), "begin_object") = At("key or end", OO)
  /\ Json!Step(At("key or end", OO), "string") = At("separator", OO)
  /\ Json!Step(At("separator", OO), "name_separator") = At("value", OO)
  /\ Json!Step(At("value", OO), "number") = At("value over", OO)
  /\ Json!Step(At("value over", OO), "end_object") = At("value over", O)
  /\ Json!Step(At("value over", O), "end_object") = At("text over", <<>>)
  /\ Json!Step(At("text over", <<>>), "end") = At("accepted", <<>>)
  /\ Json!Step(At("accepted", <<>>), "end") = At("accepted", <<>>)
  /\ Json!Step(At("value", <<>>), "number") = At("text over", <<>>)
  /\ Json!Step(At("value", <<>>), "string") = At("text over", <<>>)
  /\ Json!Step(At("value", O), "number") = At("value over", O)
  /\ Json!Step(At("value", <<>>), "begin_array") = At("value or end", A)
  /\ Json!Step(At("value or end", A), "number") = At("value over", A)
  /\ Json!Step(At("value over", A), "value_separator") = At("value", A)
  /\ Json!Step(At("value", A), "number") = At("value over", A)
  /\ Json!Step(At("value over", A), "end_array") = At("text over", <<>>)
  <1>1. Json!Step(At("value", <<>>), "begin_object") = At("key or end", O)
    BY ONLY StepsFrom, Stacks
  <1>2. Json!Step(At("key or end", O), "string") = At("separator", O)
    BY ONLY StepsFrom, Stacks
  <1>3. Json!Step(At("separator", O), "name_separator") = At("value", O)
    BY ONLY StepsFrom, Stacks
  <1>4. Json!Step(At("value", O), "begin_array") = At("value or end", OA)
    BY ONLY StepsFrom, Stacks
  <1>5. Json!Step(At("value or end", OA), "number") = At("value over", OA)
    BY ONLY StepsFrom, Stacks
  <1>6. Json!Step(At("value over", OA), "value_separator") = At("value", OA)
    BY ONLY StepsFrom, Stacks
  <1>7. Json!Step(At("value", OA), "number") = At("value over", OA)
    BY ONLY StepsFrom, Stacks
  <1>8. Json!Step(At("value over", OA), "end_array") = At("value over", O)
    <2>1. Json!Step(At("value over", OA), "end_array") = Json!ValueEnds(Json!Front(OA))
      BY ONLY StepsFrom, Stacks
    <2>2. Json!ValueEnds(O) = At("value over", O)
      BY ONLY StepsFrom, Stacks
    <2> QED
      BY ONLY <2>1, <2>2, Stacks
  <1>9. Json!Step(At("value over", O), "value_separator") = At("key", O)
    BY ONLY StepsFrom, Stacks
  <1>10. Json!Step(At("key", O), "string") = At("separator", O)
    BY ONLY StepsFrom, Stacks
  <1>11. Json!Step(At("value", O), "begin_object") = At("key or end", OO)
    BY ONLY StepsFrom, Stacks
  <1>12. Json!Step(At("key or end", OO), "string") = At("separator", OO)
    BY ONLY StepsFrom, Stacks
  <1>13. Json!Step(At("separator", OO), "name_separator") = At("value", OO)
    BY ONLY StepsFrom, Stacks
  <1>14. Json!Step(At("value", OO), "number") = At("value over", OO)
    BY ONLY StepsFrom, Stacks
  <1>15. Json!Step(At("value over", OO), "end_object") = At("value over", O)
    <2>1. Json!Step(At("value over", OO), "end_object") = Json!ValueEnds(Json!Front(OO))
      BY ONLY StepsFrom, Stacks
    <2>2. Json!ValueEnds(O) = At("value over", O)
      BY ONLY StepsFrom, Stacks
    <2> QED
      BY ONLY <2>1, <2>2, Stacks
  <1>16. Json!Step(At("value over", O), "end_object") = At("text over", <<>>)
    <2>1. Json!Step(At("value over", O), "end_object") = Json!ValueEnds(Json!Front(O))
      BY ONLY StepsFrom, Stacks
    <2>2. Json!ValueEnds(<<>>) = At("text over", <<>>)
      BY ONLY StepsFrom, Stacks
    <2> QED
      BY ONLY <2>1, <2>2, Stacks
  <1>17. Json!Step(At("text over", <<>>), "end") = At("accepted", <<>>)
    BY ONLY StepsFrom, Stacks
  <1>18. Json!Step(At("accepted", <<>>), "end") = At("accepted", <<>>)
    BY ONLY StepsFrom, Stacks
  <1>19. Json!Step(At("value", <<>>), "number") = At("text over", <<>>)
    BY ONLY StepsFrom, Stacks
  <1>20. Json!Step(At("value", <<>>), "string") = At("text over", <<>>)
    BY ONLY StepsFrom, Stacks
  <1>21. Json!Step(At("value", O), "number") = At("value over", O)
    BY ONLY StepsFrom, Stacks
  <1>22. Json!Step(At("value", <<>>), "begin_array") = At("value or end", A)
    BY ONLY StepsFrom, Stacks
  <1>23. Json!Step(At("value or end", A), "number") = At("value over", A)
    BY ONLY StepsFrom, Stacks
  <1>24. Json!Step(At("value over", A), "value_separator") = At("value", A)
    BY ONLY StepsFrom, Stacks
  <1>25. Json!Step(At("value", A), "number") = At("value over", A)
    BY ONLY StepsFrom, Stacks
  <1>26. Json!Step(At("value over", A), "end_array") = At("text over", <<>>)
    <2>1. Json!Step(At("value over", A), "end_array") = Json!ValueEnds(Json!Front(A))
      BY ONLY StepsFrom, Stacks
    <2>2. Json!ValueEnds(<<>>) = At("text over", <<>>)
      BY ONLY StepsFrom, Stacks
    <2> QED
      BY ONLY <2>1, <2>2, Stacks
  <1> QED
    BY ONLY <1>1, <1>2, <1>3, <1>4, <1>5, <1>6, <1>7, <1>8, <1>9, <1>10, <1>11, <1>12, <1>13,
       <1>14, <1>15, <1>16, <1>17, <1>18, <1>19, <1>20, <1>21, <1>22, <1>23, <1>24, <1>25, <1>26,
         Zenon

-----------------------------------------------------------------------------
(* The texts that are refused                                              *)

\* f is the parser's run over text, state by state.
Parses(text, f) ==
  /\ f[0] = At("value", <<>>)
  /\ \A i \in 1 .. Len(text) : f[i] = Json!Step(f[i - 1], Json!TokenAt(text, i))

\* An error on every run over the text refuses it.
LEMMA Stops ==
  ASSUME NEW text, Len(text) \in Nat, NEW k \in 0 .. Len(text),
         \A f : Parses(text, f) => f[k].at = "error"
  PROVE  ~Json!Accepts(text)
  BY Refused, Zenon DEF Parses, At, Json!Start

\* No text begins with these.
LEMMA BadFirst ==
  ASSUME NEW text, Len(text) \in Nat, 1 <= Len(text),
         text[1] \in {Json!Quote, "name_separator", "value_separator", "end_array", "end_object",
           Json!NUL}
  PROVE  ~Json!Accepts(text)
  <1> USE DEF Number, Quoted, Json!Quote, Json!NUL
  <1>1. Json!TokenAt(text, 1)  \in {"value_separator", "end_array", "end_object",
          "name_separator", "end", "error"}
    <2>1. 1 \in 1 .. Len(text)
      OBVIOUS
    <2> QED
      BY <2>1 DEF Json!TokenAt, Json!Structural, Json!Newline
  <1>2. ASSUME NEW f, Parses(text, f) PROVE f[1].at = "error"
    <2>0. f[0] = At("value", <<>>)
      BY <1>2 DEF Parses
    <2>1. f[1] = Json!Step(f[0], Json!TokenAt(text, 1))
      <3>1. 1 \in 1 .. Len(text) /\ 1 - 1 = 0
        OBVIOUS
      <3> QED
        BY ONLY <3>1, <1>2, Zenon DEF Parses
    <2>2. f[1].at = "error"
      BY ONLY <1>1, <2>0, <2>1, Steps, Skips, Fails, Zenon
    <2> QED
      BY <2>2
  <1>3. 1 \in 0 .. Len(text)
    OBVIOUS
  <1> QED
    BY ONLY <1>2, <1>3, Stops, Len(text) \in Nat, Zenon

\* A member of an object without the object.
LEMMA BadName ==
  ASSUME NEW text, Len(text) \in Nat, 3 <= Len(text),
         text[1] \in Quoted, text[2] = Json!Quote, text[3] = "name_separator"
  PROVE  ~Json!Accepts(text)
  <1> USE DEF Number, Quoted, Json!Quote, Json!NUL
  <1>1. Json!TokenAt(text, 1)  = "string"
    <2>1. 1 \in 1 .. Len(text) /\ 1 < Len(text) /\ 1 + 1 = 2
      OBVIOUS
    <2> QED
      BY <2>1 DEF Json!TokenAt, Json!Structural, Json!Newline
  <1>2. Json!TokenAt(text, 2)  = "none"
    <2>1. 2 \in 1 .. Len(text) /\ 2 > 1 /\ 2 - 1 = 1 /\ 2 < Len(text) /\ 2 + 1 = 3
      OBVIOUS
    <2> QED
      BY <2>1 DEF Json!TokenAt, Json!Structural, Json!Newline
  <1>3. Json!TokenAt(text, 3)  = "name_separator"
    <2>1. 3 \in 1 .. Len(text) /\ 3 > 1 /\ 3 - 1 = 2
      OBVIOUS
    <2> QED
      BY <2>1 DEF Json!TokenAt, Json!Structural, Json!Newline
  <1>4. ASSUME NEW f, Parses(text, f) PROVE f[3].at = "error"
    <2>0. f[0] = At("value", <<>>)
      BY <1>4 DEF Parses
    <2>1. f[1] = Json!Step(f[0], Json!TokenAt(text, 1))
      <3>1. 1 \in 1 .. Len(text) /\ 1 - 1 = 0
        OBVIOUS
      <3> QED
        BY ONLY <3>1, <1>4, Zenon DEF Parses
    <2>2. f[1] = At("text over", <<>>)
      BY ONLY <1>1, <2>0, <2>1, Steps, Skips, Fails, Zenon
    <2>3. f[2] = Json!Step(f[1], Json!TokenAt(text, 2))
      <3>1. 2 \in 1 .. Len(text) /\ 2 - 1 = 1
        OBVIOUS
      <3> QED
        BY ONLY <3>1, <1>4, Zenon DEF Parses
    <2>4. f[2] = At("text over", <<>>)
      BY ONLY <1>2, <2>2, <2>3, Steps, Skips, Fails, Zenon
    <2>5. f[3] = Json!Step(f[2], Json!TokenAt(text, 3))
      <3>1. 3 \in 1 .. Len(text) /\ 3 - 1 = 2
        OBVIOUS
      <3> QED
        BY ONLY <3>1, <1>4, Zenon DEF Parses
    <2>6. f[3].at = "error"
      BY ONLY <1>3, <2>4, <2>5, Steps, Skips, Fails, Zenon
    <2> QED
      BY <2>6
  <1>5. 3 \in 0 .. Len(text)
    OBVIOUS
  <1> QED
    BY ONLY <1>4, <1>5, Stops, Len(text) \in Nat, Zenon

\* A number that was in an array or an object, without it.
LEMMA BadNumber ==
  ASSUME NEW text, Len(text) \in Nat, 2 <= Len(text),
         text[1] \in Number, text[2] \in {"value_separator", "end_array", "end_object"}
  PROVE  ~Json!Accepts(text)
  <1> USE DEF Number, Quoted, Json!Quote, Json!NUL
  <1>1. Json!TokenAt(text, 1)  = "number"
    <2>1. 1 \in 1 .. Len(text) /\ 1 < Len(text) /\ 1 + 1 = 2
      OBVIOUS
    <2> QED
      BY <2>1 DEF Json!TokenAt, Json!Structural, Json!Newline
  <1>2. Json!TokenAt(text, 2)  \in {"value_separator", "end_array", "end_object"}
    <2>1. 2 \in 1 .. Len(text) /\ 2 > 1 /\ 2 - 1 = 1
      OBVIOUS
    <2> QED
      BY <2>1 DEF Json!TokenAt, Json!Structural, Json!Newline
  <1>3. ASSUME NEW f, Parses(text, f) PROVE f[2].at = "error"
    <2>0. f[0] = At("value", <<>>)
      BY <1>3 DEF Parses
    <2>1. f[1] = Json!Step(f[0], Json!TokenAt(text, 1))
      <3>1. 1 \in 1 .. Len(text) /\ 1 - 1 = 0
        OBVIOUS
      <3> QED
        BY ONLY <3>1, <1>3, Zenon DEF Parses
    <2>2. f[1] = At("text over", <<>>)
      BY ONLY <1>1, <2>0, <2>1, Steps, Skips, Fails, Zenon
    <2>3. f[2] = Json!Step(f[1], Json!TokenAt(text, 2))
      <3>1. 2 \in 1 .. Len(text) /\ 2 - 1 = 1
        OBVIOUS
      <3> QED
        BY ONLY <3>1, <1>3, Zenon DEF Parses
    <2>4. f[2].at = "error"
      BY ONLY <1>2, <2>2, <2>3, Steps, Skips, Fails, Zenon
    <2> QED
      BY <2>4
  <1>4. 2 \in 0 .. Len(text)
    OBVIOUS
  <1> QED
    BY ONLY <1>3, <1>4, Stops, Len(text) \in Nat, Zenon

\* The array of one byte, and what follows it in an object.
LEMMA BadArray ==
  ASSUME NEW text, Len(text) \in Nat, 4 <= Len(text),
         text[1] = "begin_array", text[2] \in Number, text[3] = "end_array",
           text[4] = "value_separator"
  PROVE  ~Json!Accepts(text)
  <1> USE DEF Number, Quoted, Json!Quote, Json!NUL
  <1>1. Json!TokenAt(text, 1)  = "begin_array"
    <2>1. 1 \in 1 .. Len(text) /\ 1 < Len(text) /\ 1 + 1 = 2
      OBVIOUS
    <2> QED
      BY <2>1 DEF Json!TokenAt, Json!Structural, Json!Newline
  <1>2. Json!TokenAt(text, 2)  = "number"
    <2>1. 2 \in 1 .. Len(text) /\ 2 > 1 /\ 2 - 1 = 1 /\ 2 < Len(text) /\ 2 + 1 = 3
      OBVIOUS
    <2> QED
      BY <2>1 DEF Json!TokenAt, Json!Structural, Json!Newline
  <1>3. Json!TokenAt(text, 3)  = "end_array"
    <2>1. 3 \in 1 .. Len(text) /\ 3 > 1 /\ 3 - 1 = 2 /\ 3 < Len(text) /\ 3 + 1 = 4
      OBVIOUS
    <2> QED
      BY <2>1 DEF Json!TokenAt, Json!Structural, Json!Newline
  <1>4. Json!TokenAt(text, 4)  = "value_separator"
    <2>1. 4 \in 1 .. Len(text) /\ 4 > 1 /\ 4 - 1 = 3
      OBVIOUS
    <2> QED
      BY <2>1 DEF Json!TokenAt, Json!Structural, Json!Newline
  <1>5. ASSUME NEW f, Parses(text, f) PROVE f[4].at = "error"
    <2>0. f[0] = At("value", <<>>)
      BY <1>5 DEF Parses
    <2>1. f[1] = Json!Step(f[0], Json!TokenAt(text, 1))
      <3>1. 1 \in 1 .. Len(text) /\ 1 - 1 = 0
        OBVIOUS
      <3> QED
        BY ONLY <3>1, <1>5, Zenon DEF Parses
    <2>2. f[1] = At("value or end", A)
      BY ONLY <1>1, <2>0, <2>1, Steps, Skips, Fails, Zenon
    <2>3. f[2] = Json!Step(f[1], Json!TokenAt(text, 2))
      <3>1. 2 \in 1 .. Len(text) /\ 2 - 1 = 1
        OBVIOUS
      <3> QED
        BY ONLY <3>1, <1>5, Zenon DEF Parses
    <2>4. f[2] = At("value over", A)
      BY ONLY <1>2, <2>2, <2>3, Steps, Skips, Fails, Zenon
    <2>5. f[3] = Json!Step(f[2], Json!TokenAt(text, 3))
      <3>1. 3 \in 1 .. Len(text) /\ 3 - 1 = 2
        OBVIOUS
      <3> QED
        BY ONLY <3>1, <1>5, Zenon DEF Parses
    <2>6. f[3] = At("text over", <<>>)
      BY ONLY <1>3, <2>4, <2>5, Steps, Skips, Fails, Zenon
    <2>7. f[4] = Json!Step(f[3], Json!TokenAt(text, 4))
      <3>1. 4 \in 1 .. Len(text) /\ 4 - 1 = 3
        OBVIOUS
      <3> QED
        BY ONLY <3>1, <1>5, Zenon DEF Parses
    <2>8. f[4].at = "error"
      BY ONLY <1>4, <2>6, <2>7, Steps, Skips, Fails, Zenon
    <2> QED
      BY <2>8
  <1>6. 4 \in 0 .. Len(text)
    OBVIOUS
  <1> QED
    BY ONLY <1>5, <1>6, Stops, Len(text) \in Nat, Zenon

\* The array of two bytes, and what follows it in an object.
LEMMA BadPair ==
  ASSUME NEW text, Len(text) \in Nat, 6 <= Len(text),
         text[1] = "begin_array", text[2] \in Number, text[3] = "value_separator",
           text[4] \in Number,
         text[5] = "end_array", text[6] = "value_separator"
  PROVE  ~Json!Accepts(text)
  <1> USE DEF Number, Quoted, Json!Quote, Json!NUL
  <1>1. Json!TokenAt(text, 1)  = "begin_array"
    <2>1. 1 \in 1 .. Len(text) /\ 1 < Len(text) /\ 1 + 1 = 2
      OBVIOUS
    <2> QED
      BY <2>1 DEF Json!TokenAt, Json!Structural, Json!Newline
  <1>2. Json!TokenAt(text, 2)  = "number"
    <2>1. 2 \in 1 .. Len(text) /\ 2 > 1 /\ 2 - 1 = 1 /\ 2 < Len(text) /\ 2 + 1 = 3
      OBVIOUS
    <2> QED
      BY <2>1 DEF Json!TokenAt, Json!Structural, Json!Newline
  <1>3. Json!TokenAt(text, 3)  = "value_separator"
    <2>1. 3 \in 1 .. Len(text) /\ 3 > 1 /\ 3 - 1 = 2 /\ 3 < Len(text) /\ 3 + 1 = 4
      OBVIOUS
    <2> QED
      BY <2>1 DEF Json!TokenAt, Json!Structural, Json!Newline
  <1>4. Json!TokenAt(text, 4)  = "number"
    <2>1. 4 \in 1 .. Len(text) /\ 4 > 1 /\ 4 - 1 = 3 /\ 4 < Len(text) /\ 4 + 1 = 5
      OBVIOUS
    <2> QED
      BY <2>1 DEF Json!TokenAt, Json!Structural, Json!Newline
  <1>5. Json!TokenAt(text, 5)  = "end_array"
    <2>1. 5 \in 1 .. Len(text) /\ 5 > 1 /\ 5 - 1 = 4 /\ 5 < Len(text) /\ 5 + 1 = 6
      OBVIOUS
    <2> QED
      BY <2>1 DEF Json!TokenAt, Json!Structural, Json!Newline
  <1>6. Json!TokenAt(text, 6)  = "value_separator"
    <2>1. 6 \in 1 .. Len(text) /\ 6 > 1 /\ 6 - 1 = 5
      OBVIOUS
    <2> QED
      BY <2>1 DEF Json!TokenAt, Json!Structural, Json!Newline
  <1>7. ASSUME NEW f, Parses(text, f) PROVE f[6].at = "error"
    <2>0. f[0] = At("value", <<>>)
      BY <1>7 DEF Parses
    <2>1. f[1] = Json!Step(f[0], Json!TokenAt(text, 1))
      <3>1. 1 \in 1 .. Len(text) /\ 1 - 1 = 0
        OBVIOUS
      <3> QED
        BY ONLY <3>1, <1>7, Zenon DEF Parses
    <2>2. f[1] = At("value or end", A)
      BY ONLY <1>1, <2>0, <2>1, Steps, Skips, Fails, Zenon
    <2>3. f[2] = Json!Step(f[1], Json!TokenAt(text, 2))
      <3>1. 2 \in 1 .. Len(text) /\ 2 - 1 = 1
        OBVIOUS
      <3> QED
        BY ONLY <3>1, <1>7, Zenon DEF Parses
    <2>4. f[2] = At("value over", A)
      BY ONLY <1>2, <2>2, <2>3, Steps, Skips, Fails, Zenon
    <2>5. f[3] = Json!Step(f[2], Json!TokenAt(text, 3))
      <3>1. 3 \in 1 .. Len(text) /\ 3 - 1 = 2
        OBVIOUS
      <3> QED
        BY ONLY <3>1, <1>7, Zenon DEF Parses
    <2>6. f[3] = At("value", A)
      BY ONLY <1>3, <2>4, <2>5, Steps, Skips, Fails, Zenon
    <2>7. f[4] = Json!Step(f[3], Json!TokenAt(text, 4))
      <3>1. 4 \in 1 .. Len(text) /\ 4 - 1 = 3
        OBVIOUS
      <3> QED
        BY ONLY <3>1, <1>7, Zenon DEF Parses
    <2>8. f[4] = At("value over", A)
      BY ONLY <1>4, <2>6, <2>7, Steps, Skips, Fails, Zenon
    <2>9. f[5] = Json!Step(f[4], Json!TokenAt(text, 5))
      <3>1. 5 \in 1 .. Len(text) /\ 5 - 1 = 4
        OBVIOUS
      <3> QED
        BY ONLY <3>1, <1>7, Zenon DEF Parses
    <2>10. f[5] = At("text over", <<>>)
      BY ONLY <1>5, <2>8, <2>9, Steps, Skips, Fails, Zenon
    <2>11. f[6] = Json!Step(f[5], Json!TokenAt(text, 6))
      <3>1. 6 \in 1 .. Len(text) /\ 6 - 1 = 5
        OBVIOUS
      <3> QED
        BY ONLY <3>1, <1>7, Zenon DEF Parses
    <2>12. f[6].at = "error"
      BY ONLY <1>6, <2>10, <2>11, Steps, Skips, Fails, Zenon
    <2> QED
      BY <2>12
  <1>8. 6 \in 0 .. Len(text)
    OBVIOUS
  <1> QED
    BY ONLY <1>7, <1>8, Stops, Len(text) \in Nat, Zenon

\* The inner object, and the end of the outer one.
LEMMA BadObject ==
  ASSUME NEW text, Len(text) \in Nat, 7 <= Len(text),
         text[1] = "begin_object", text[2] \in Quoted, text[3] = Json!Quote,
           text[4] = "name_separator",
         text[5] \in Number, text[6] = "end_object", text[7] = "end_object"
  PROVE  ~Json!Accepts(text)
  <1> USE DEF Number, Quoted, Json!Quote, Json!NUL
  <1>1. Json!TokenAt(text, 1)  = "begin_object"
    <2>1. 1 \in 1 .. Len(text) /\ 1 < Len(text) /\ 1 + 1 = 2
      OBVIOUS
    <2> QED
      BY <2>1 DEF Json!TokenAt, Json!Structural, Json!Newline
  <1>2. Json!TokenAt(text, 2)  = "string"
    <2>1. 2 \in 1 .. Len(text) /\ 2 > 1 /\ 2 - 1 = 1 /\ 2 < Len(text) /\ 2 + 1 = 3
      OBVIOUS
    <2> QED
      BY <2>1 DEF Json!TokenAt, Json!Structural, Json!Newline
  <1>3. Json!TokenAt(text, 3)  = "none"
    <2>1. 3 \in 1 .. Len(text) /\ 3 > 1 /\ 3 - 1 = 2 /\ 3 < Len(text) /\ 3 + 1 = 4
      OBVIOUS
    <2> QED
      BY <2>1 DEF Json!TokenAt, Json!Structural, Json!Newline
  <1>4. Json!TokenAt(text, 4)  = "name_separator"
    <2>1. 4 \in 1 .. Len(text) /\ 4 > 1 /\ 4 - 1 = 3 /\ 4 < Len(text) /\ 4 + 1 = 5
      OBVIOUS
    <2> QED
      BY <2>1 DEF Json!TokenAt, Json!Structural, Json!Newline
  <1>5. Json!TokenAt(text, 5)  = "number"
    <2>1. 5 \in 1 .. Len(text) /\ 5 > 1 /\ 5 - 1 = 4 /\ 5 < Len(text) /\ 5 + 1 = 6
      OBVIOUS
    <2> QED
      BY <2>1 DEF Json!TokenAt, Json!Structural, Json!Newline
  <1>6. Json!TokenAt(text, 6)  = "end_object"
    <2>1. 6 \in 1 .. Len(text) /\ 6 > 1 /\ 6 - 1 = 5 /\ 6 < Len(text) /\ 6 + 1 = 7
      OBVIOUS
    <2> QED
      BY <2>1 DEF Json!TokenAt, Json!Structural, Json!Newline
  <1>7. Json!TokenAt(text, 7)  = "end_object"
    <2>1. 7 \in 1 .. Len(text) /\ 7 > 1 /\ 7 - 1 = 6
      OBVIOUS
    <2> QED
      BY <2>1 DEF Json!TokenAt, Json!Structural, Json!Newline
  <1>8. ASSUME NEW f, Parses(text, f) PROVE f[7].at = "error"
    <2>0. f[0] = At("value", <<>>)
      BY <1>8 DEF Parses
    <2>1. f[1] = Json!Step(f[0], Json!TokenAt(text, 1))
      <3>1. 1 \in 1 .. Len(text) /\ 1 - 1 = 0
        OBVIOUS
      <3> QED
        BY ONLY <3>1, <1>8, Zenon DEF Parses
    <2>2. f[1] = At("key or end", O)
      BY ONLY <1>1, <2>0, <2>1, Steps, Skips, Fails, Zenon
    <2>3. f[2] = Json!Step(f[1], Json!TokenAt(text, 2))
      <3>1. 2 \in 1 .. Len(text) /\ 2 - 1 = 1
        OBVIOUS
      <3> QED
        BY ONLY <3>1, <1>8, Zenon DEF Parses
    <2>4. f[2] = At("separator", O)
      BY ONLY <1>2, <2>2, <2>3, Steps, Skips, Fails, Zenon
    <2>5. f[3] = Json!Step(f[2], Json!TokenAt(text, 3))
      <3>1. 3 \in 1 .. Len(text) /\ 3 - 1 = 2
        OBVIOUS
      <3> QED
        BY ONLY <3>1, <1>8, Zenon DEF Parses
    <2>6. f[3] = At("separator", O)
      BY ONLY <1>3, <2>4, <2>5, Steps, Skips, Fails, Zenon
    <2>7. f[4] = Json!Step(f[3], Json!TokenAt(text, 4))
      <3>1. 4 \in 1 .. Len(text) /\ 4 - 1 = 3
        OBVIOUS
      <3> QED
        BY ONLY <3>1, <1>8, Zenon DEF Parses
    <2>8. f[4] = At("value", O)
      BY ONLY <1>4, <2>6, <2>7, Steps, Skips, Fails, Zenon
    <2>9. f[5] = Json!Step(f[4], Json!TokenAt(text, 5))
      <3>1. 5 \in 1 .. Len(text) /\ 5 - 1 = 4
        OBVIOUS
      <3> QED
        BY ONLY <3>1, <1>8, Zenon DEF Parses
    <2>10. f[5] = At("value over", O)
      BY ONLY <1>5, <2>8, <2>9, Steps, Skips, Fails, Zenon
    <2>11. f[6] = Json!Step(f[5], Json!TokenAt(text, 6))
      <3>1. 6 \in 1 .. Len(text) /\ 6 - 1 = 5
        OBVIOUS
      <3> QED
        BY ONLY <3>1, <1>8, Zenon DEF Parses
    <2>12. f[6] = At("text over", <<>>)
      BY ONLY <1>6, <2>10, <2>11, Steps, Skips, Fails, Zenon
    <2>13. f[7] = Json!Step(f[6], Json!TokenAt(text, 7))
      <3>1. 7 \in 1 .. Len(text) /\ 7 - 1 = 6
        OBVIOUS
      <3> QED
        BY ONLY <3>1, <1>8, Zenon DEF Parses
    <2>14. f[7].at = "error"
      BY ONLY <1>7, <2>12, <2>13, Steps, Skips, Fails, Zenon
    <2> QED
      BY <2>14
  <1>9. 7 \in 0 .. Len(text)
    OBVIOUS
  <1> QED
    BY ONLY <1>8, <1>9, Stops, Len(text) \in Nat, Zenon

-----------------------------------------------------------------------------
(* The texts that are accepted                                             *)

\* A whole line is a JSON text, with the NUL behind its newline or without it.
LEMMA Whole ==
  ASSUME NEW text, Len(text) \in Nat, NEW o \in {6, 8},
         \/ Len(text) = o + 13
         \/ Len(text) = o + 14 /\ text[o + 14] = Json!NUL,
         text[1] = "begin_object", text[2] \in Quoted, text[3] = Json!Quote,
         text[4] = "name_separator", text[5] = "begin_array", text[6] \in Number,
         o = 8 => text[7] = "value_separator" /\ text[8] \in Number,
         text[o + 1] = "end_array", text[o + 2] = "value_separator",
         text[o + 3] \in Quoted, text[o + 4] = Json!Quote,
         text[o + 5] = "name_separator", text[o + 6] = "begin_object",
         text[o + 7] \in Quoted, text[o + 8] = Json!Quote,
         text[o + 9] = "name_separator", text[o + 10] \in Number,
         text[o + 11] = "end_object", text[o + 12] = "end_object",
         text[o + 13] = Json!Newline
  PROVE  Json!Accepts(text)
  <1> USE DEF Number, Quoted, Json!Quote, Json!NUL
  <1>0. PICK f : /\ f[0] = At("value", <<>>)
                 /\ \A i \in 1 .. Len(text) : f[i] = Json!Step(f[i - 1], Json!TokenAt(text, i))
                 /\ Json!Accepts(text) <=> Json!Step(f[Len(text)], "end").at = "accepted"
    BY ONLY AcceptsByRun, Len(text) \in Nat, Zenon DEF At, Json!Start
  <1>a. f[0] = At("value", <<>>)
    BY ONLY <1>0
  <1>b. \A i \in 1 .. Len(text) : f[i] = Json!Step(f[i - 1], Json!TokenAt(text, i))
    BY ONLY <1>0, Zenon
  <1>c. Json!Accepts(text) <=> Json!Step(f[Len(text)], "end").at = "accepted"
    BY ONLY <1>0, Zenon
  <1>d. Len(text) \in Nat /\ o \in Nat /\ o >= 6 /\ Len(text) >= o + 13
    OBVIOUS
  <1>e. At("accepted", <<>>).at = "accepted"
    BY DEF At
  <1>1. f[1] = At("key or end", O)
    <2>1. 1 \in 1 .. Len(text) /\ 1 - 1 = 0
      BY ONLY <1>d
    <2>2. Json!TokenAt(text, 1) = "begin_object"
      BY <2>1 DEF Json!TokenAt, Json!Structural, Json!Newline
    <2>3. f[1] = Json!Step(f[0], Json!TokenAt(text, 1))
      BY ONLY <2>1, <1>b, Zenon
    <2> QED
      BY ONLY <2>2, <2>3, <1>a, Steps, Skips, Zenon
  <1>2. f[2] = At("separator", O)
    <2>1. 2 \in 1 .. Len(text) /\ 2 - 1 = 1 /\ 2 < Len(text) /\ 2 + 1 = 3
      BY ONLY <1>d
    <2>2. Json!TokenAt(text, 2) = "string"
      BY <2>1 DEF Json!TokenAt, Json!Structural, Json!Newline
    <2>3. f[2] = Json!Step(f[1], Json!TokenAt(text, 2))
      BY ONLY <2>1, <1>b, Zenon
    <2> QED
      BY ONLY <2>2, <2>3, <1>1, Steps, Skips, Zenon
  <1>3. f[3] = At("separator", O)
    <2>1. 3 \in 1 .. Len(text) /\ 3 - 1 = 2 /\ 3 > 1
      BY ONLY <1>d
    <2>2. Json!TokenAt(text, 3) = "none"
      BY <2>1 DEF Json!TokenAt, Json!Structural, Json!Newline
    <2>3. f[3] = Json!Step(f[2], Json!TokenAt(text, 3))
      BY ONLY <2>1, <1>b, Zenon
    <2> QED
      BY ONLY <2>2, <2>3, <1>2, Steps, Skips, Zenon
  <1>4. f[4] = At("value", O)
    <2>1. 4 \in 1 .. Len(text) /\ 4 - 1 = 3
      BY ONLY <1>d
    <2>2. Json!TokenAt(text, 4) = "name_separator"
      BY <2>1 DEF Json!TokenAt, Json!Structural, Json!Newline
    <2>3. f[4] = Json!Step(f[3], Json!TokenAt(text, 4))
      BY ONLY <2>1, <1>b, Zenon
    <2> QED
      BY ONLY <2>2, <2>3, <1>3, Steps, Skips, Zenon
  <1>5. f[5] = At("value or end", OA)
    <2>1. 5 \in 1 .. Len(text) /\ 5 - 1 = 4
      BY ONLY <1>d
    <2>2. Json!TokenAt(text, 5) = "begin_array"
      BY <2>1 DEF Json!TokenAt, Json!Structural, Json!Newline
    <2>3. f[5] = Json!Step(f[4], Json!TokenAt(text, 5))
      BY ONLY <2>1, <1>b, Zenon
    <2> QED
      BY ONLY <2>2, <2>3, <1>4, Steps, Skips, Zenon
  <1>6. f[6] = At("value over", OA)
    <2>1. 6 \in 1 .. Len(text) /\ 6 - 1 = 5
      BY ONLY <1>d
    <2>2. Json!TokenAt(text, 6) = "number"
      BY <2>1 DEF Json!TokenAt, Json!Structural, Json!Newline
    <2>3. f[6] = Json!Step(f[5], Json!TokenAt(text, 6))
      BY ONLY <2>1, <1>b, Zenon
    <2> QED
      BY ONLY <2>2, <2>3, <1>5, Steps, Skips, Zenon
  <1>8. f[o] = At("value over", OA)
    <2>1. CASE o = 6
      BY ONLY <2>1, <1>6
    <2>2. CASE o = 8
      <3>7. f[7] = At("value", OA)
        <4>1. 7 \in 1 .. Len(text) /\ 7 - 1 = 6
          BY ONLY <2>2, <1>d
        <4>2. Json!TokenAt(text, 7) = "value_separator"
          BY <4>1, <2>2 DEF Json!TokenAt, Json!Structural, Json!Newline
        <4>3. f[7] = Json!Step(f[6], Json!TokenAt(text, 7))
          BY ONLY <4>1, <1>b, Zenon
        <4> QED
          BY ONLY <4>2, <4>3, <1>6, Steps, Skips, Zenon
      <3>8. f[8] = At("value over", OA)
        <4>1. 8 \in 1 .. Len(text) /\ 8 - 1 = 7
          BY ONLY <2>2, <1>d
        <4>2. Json!TokenAt(text, 8) = "number"
          BY <4>1, <2>2 DEF Json!TokenAt, Json!Structural, Json!Newline
        <4>3. f[8] = Json!Step(f[7], Json!TokenAt(text, 8))
          BY ONLY <4>1, <1>b, Zenon
        <4> QED
          BY ONLY <4>2, <4>3, <3>7, Steps, Skips, Zenon
      <3> QED
        BY ONLY <2>2, <3>8
    <2> QED
      BY <2>1, <2>2
  <1>11. f[o + 1] = At("value over", O)
    <2>1. (o + 1) \in 1 .. Len(text) /\ (o + 1) - 1 = o
      BY ONLY <1>d
    <2>2. Json!TokenAt(text, o + 1) = "end_array"
      BY <2>1 DEF Json!TokenAt, Json!Structural, Json!Newline
    <2>3. f[o + 1] = Json!Step(f[o], Json!TokenAt(text, o + 1))
      BY ONLY <2>1, <1>b, Zenon
    <2> QED
      BY ONLY <2>2, <2>3, <1>8, Steps, Skips, Zenon
  <1>12. f[o + 2] = At("key", O)
    <2>1. (o + 2) \in 1 .. Len(text) /\ (o + 2) - 1 = o + 1
      BY ONLY <1>d
    <2>2. Json!TokenAt(text, o + 2) = "value_separator"
      BY <2>1 DEF Json!TokenAt, Json!Structural, Json!Newline
    <2>3. f[o + 2] = Json!Step(f[o + 1], Json!TokenAt(text, o + 2))
      BY ONLY <2>1, <1>b, Zenon
    <2> QED
      BY ONLY <2>2, <2>3, <1>11, Steps, Skips, Zenon
  <1>13. f[o + 3] = At("separator", O)
    <2>1. (o + 3) \in 1 .. Len(text) /\ (o + 3) - 1 = o + 2 /\ (o + 3) < Len(text)
            /\ (o + 3) + 1 = o + 4
      BY ONLY <1>d
    <2>2. Json!TokenAt(text, o + 3) = "string"
      BY <2>1 DEF Json!TokenAt, Json!Structural, Json!Newline
    <2>3. f[o + 3] = Json!Step(f[o + 2], Json!TokenAt(text, o + 3))
      BY ONLY <2>1, <1>b, Zenon
    <2> QED
      BY ONLY <2>2, <2>3, <1>12, Steps, Skips, Zenon
  <1>14. f[o + 4] = At("separator", O)
    <2>1. (o + 4) \in 1 .. Len(text) /\ (o + 4) - 1 = o + 3 /\ (o + 4) > 1
      BY ONLY <1>d
    <2>2. Json!TokenAt(text, o + 4) = "none"
      BY <2>1 DEF Json!TokenAt, Json!Structural, Json!Newline
    <2>3. f[o + 4] = Json!Step(f[o + 3], Json!TokenAt(text, o + 4))
      BY ONLY <2>1, <1>b, Zenon
    <2> QED
      BY ONLY <2>2, <2>3, <1>13, Steps, Skips, Zenon
  <1>15. f[o + 5] = At("value", O)
    <2>1. (o + 5) \in 1 .. Len(text) /\ (o + 5) - 1 = o + 4
      BY ONLY <1>d
    <2>2. Json!TokenAt(text, o + 5) = "name_separator"
      BY <2>1 DEF Json!TokenAt, Json!Structural, Json!Newline
    <2>3. f[o + 5] = Json!Step(f[o + 4], Json!TokenAt(text, o + 5))
      BY ONLY <2>1, <1>b, Zenon
    <2> QED
      BY ONLY <2>2, <2>3, <1>14, Steps, Skips, Zenon
  <1>16. f[o + 6] = At("key or end", OO)
    <2>1. (o + 6) \in 1 .. Len(text) /\ (o + 6) - 1 = o + 5
      BY ONLY <1>d
    <2>2. Json!TokenAt(text, o + 6) = "begin_object"
      BY <2>1 DEF Json!TokenAt, Json!Structural, Json!Newline
    <2>3. f[o + 6] = Json!Step(f[o + 5], Json!TokenAt(text, o + 6))
      BY ONLY <2>1, <1>b, Zenon
    <2> QED
      BY ONLY <2>2, <2>3, <1>15, Steps, Skips, Zenon
  <1>17. f[o + 7] = At("separator", OO)
    <2>1. (o + 7) \in 1 .. Len(text) /\ (o + 7) - 1 = o + 6 /\ (o + 7) < Len(text)
            /\ (o + 7) + 1 = o + 8
      BY ONLY <1>d
    <2>2. Json!TokenAt(text, o + 7) = "string"
      BY <2>1 DEF Json!TokenAt, Json!Structural, Json!Newline
    <2>3. f[o + 7] = Json!Step(f[o + 6], Json!TokenAt(text, o + 7))
      BY ONLY <2>1, <1>b, Zenon
    <2> QED
      BY ONLY <2>2, <2>3, <1>16, Steps, Skips, Zenon
  <1>18. f[o + 8] = At("separator", OO)
    <2>1. (o + 8) \in 1 .. Len(text) /\ (o + 8) - 1 = o + 7 /\ (o + 8) > 1
      BY ONLY <1>d
    <2>2. Json!TokenAt(text, o + 8) = "none"
      BY <2>1 DEF Json!TokenAt, Json!Structural, Json!Newline
    <2>3. f[o + 8] = Json!Step(f[o + 7], Json!TokenAt(text, o + 8))
      BY ONLY <2>1, <1>b, Zenon
    <2> QED
      BY ONLY <2>2, <2>3, <1>17, Steps, Skips, Zenon
  <1>19. f[o + 9] = At("value", OO)
    <2>1. (o + 9) \in 1 .. Len(text) /\ (o + 9) - 1 = o + 8
      BY ONLY <1>d
    <2>2. Json!TokenAt(text, o + 9) = "name_separator"
      BY <2>1 DEF Json!TokenAt, Json!Structural, Json!Newline
    <2>3. f[o + 9] = Json!Step(f[o + 8], Json!TokenAt(text, o + 9))
      BY ONLY <2>1, <1>b, Zenon
    <2> QED
      BY ONLY <2>2, <2>3, <1>18, Steps, Skips, Zenon
  <1>20. f[o + 10] = At("value over", OO)
    <2>1. (o + 10) \in 1 .. Len(text) /\ (o + 10) - 1 = o + 9
      BY ONLY <1>d
    <2>2. Json!TokenAt(text, o + 10) = "number"
      BY <2>1 DEF Json!TokenAt, Json!Structural, Json!Newline
    <2>3. f[o + 10] = Json!Step(f[o + 9], Json!TokenAt(text, o + 10))
      BY ONLY <2>1, <1>b, Zenon
    <2> QED
      BY ONLY <2>2, <2>3, <1>19, Steps, Skips, Zenon
  <1>21. f[o + 11] = At("value over", O)
    <2>1. (o + 11) \in 1 .. Len(text) /\ (o + 11) - 1 = o + 10
      BY ONLY <1>d
    <2>2. Json!TokenAt(text, o + 11) = "end_object"
      BY <2>1 DEF Json!TokenAt, Json!Structural, Json!Newline
    <2>3. f[o + 11] = Json!Step(f[o + 10], Json!TokenAt(text, o + 11))
      BY ONLY <2>1, <1>b, Zenon
    <2> QED
      BY ONLY <2>2, <2>3, <1>20, Steps, Skips, Zenon
  <1>22. f[o + 12] = At("text over", <<>>)
    <2>1. (o + 12) \in 1 .. Len(text) /\ (o + 12) - 1 = o + 11
      BY ONLY <1>d
    <2>2. Json!TokenAt(text, o + 12) = "end_object"
      BY <2>1 DEF Json!TokenAt, Json!Structural, Json!Newline
    <2>3. f[o + 12] = Json!Step(f[o + 11], Json!TokenAt(text, o + 12))
      BY ONLY <2>1, <1>b, Zenon
    <2> QED
      BY ONLY <2>2, <2>3, <1>21, Steps, Skips, Zenon
  <1>23. f[o + 13] = At("text over", <<>>)
    <2>1. (o + 13) \in 1 .. Len(text) /\ (o + 13) - 1 = o + 12 /\ (o + 13) > 1
      BY ONLY <1>d
    <2>2. Json!TokenAt(text, o + 13) = "none"
      BY <2>1 DEF Json!TokenAt, Json!Structural, Json!Newline
    <2>3. f[o + 13] = Json!Step(f[o + 12], Json!TokenAt(text, o + 13))
      BY ONLY <2>1, <1>b, Zenon
    <2> QED
      BY ONLY <2>2, <2>3, <1>22, Steps, Skips, Zenon
  <1>30. CASE Len(text) = o + 13
    BY ONLY <1>30, <1>c, <1>e, <1>23, Steps, Zenon
  <1>31. CASE Len(text) = o + 14 /\ text[o + 14] = Json!NUL
    <2>1. f[o + 14] = At("accepted", <<>>)
      <3>1. (o + 14) \in 1 .. Len(text) /\ (o + 14) - 1 = o + 13
        BY ONLY <1>31, <1>d
      <3>2. Json!TokenAt(text, o + 14) = "end"
        BY <3>1, <1>31 DEF Json!TokenAt, Json!Structural, Json!Newline
      <3>3. f[o + 14] = Json!Step(f[o + 13], Json!TokenAt(text, o + 14))
        BY ONLY <3>1, <1>b, Zenon
      <3> QED
        BY ONLY <3>2, <3>3, <1>23, Steps, Skips, Zenon
    <2> QED
      BY ONLY <1>31, <1>c, <1>e, <2>1, Steps, Zenon
  <1> QED
    BY ONLY <1>30, <1>31, \/ Len(text) = o + 13
                          \/ Len(text) = o + 14 /\ text[o + 14] = Json!NUL

-----------------------------------------------------------------------------
(* The texts that a line and the parts of a line make                      *)

\* The symbols of a line, one by one.
LEMMA Letters ==
  ASSUME NEW c \in Command
  PROVE  LET w == Width(c)
         IN  /\ w \in {1, 3} /\ Size(c) = 17 + w
             /\ Letter(c, 1) = "begin_object" /\ Letter(c, 2) \in Quoted
             /\ Letter(c, 3) = Json!Quote /\ Letter(c, 4) = "name_separator"
             /\ Letter(c, 5) = "begin_array" /\ Letter(c, 6) \in Number
             /\ w = 3 => Letter(c, 7) = "value_separator" /\ Letter(c, 8) \in Number
             /\ Letter(c, 6 + w) = "end_array" /\ Letter(c, 7 + w) = "value_separator"
             /\ Letter(c, 8 + w) \in Quoted /\ Letter(c, 9 + w) = Json!Quote
             /\ Letter(c, 10 + w) = "name_separator" /\ Letter(c, 11 + w) = "begin_object"
             /\ Letter(c, 12 + w) \in Quoted /\ Letter(c, 13 + w) = Json!Quote
             /\ Letter(c, 14 + w) = "name_separator" /\ Letter(c, 15 + w) \in Number
             /\ Letter(c, 16 + w) = "end_object" /\ Letter(c, 17 + w) = "end_object"
             /\ Letter(c, 18 + w) = Json!Newline /\ Letter(c, 19 + w) = Json!NUL
  <1> DEFINE t == Text(c)
             w == Width(c)
  <1>1. w \in {1, 3}
    BY TextIs
  <1>2. Size(c) = 17 + w
    BY DEF Size
  <1> HIDE DEF w
  <1>3. \A i \in 1 .. 17 + w : Letter(c, i) = t[i]
    BY <1>1, <1>2 DEF Letter
  <1>4. Letter(c, 18 + w) = Json!Newline /\ Letter(c, 19 + w) = Json!NUL
    BY <1>1, <1>2 DEF Letter
  <1> HIDE DEF t
  <1>5. /\ Letter(c, 1) = t[1] /\ Letter(c, 2) = t[2] /\ Letter(c, 3) = t[3] /\ Letter(c, 4) = t[4]
        /\ Letter(c, 5) = t[5] /\ Letter(c, 6) = t[6]
        /\ w = 3 => Letter(c, 7) = t[7] /\ Letter(c, 8) = t[8]
    BY ONLY <1>1, <1>3
  <1>6. /\ Letter(c, 6 + w) = t[6 + w] /\ Letter(c, 7 + w) = t[7 + w] /\ Letter(c, 8 + w) = t[8 + w]
        /\ Letter(c, 9 + w) = t[9 + w] /\ Letter(c, 10 + w) = t[10 + w]
        /\ Letter(c, 11 + w) = t[11 + w] /\ Letter(c, 12 + w) = t[12 + w]
        /\ Letter(c, 13 + w) = t[13 + w] /\ Letter(c, 14 + w) = t[14 + w]
        /\ Letter(c, 15 + w) = t[15 + w] /\ Letter(c, 16 + w) = t[16 + w]
        /\ Letter(c, 17 + w) = t[17 + w]
    BY ONLY <1>1, <1>3
  <1>7. c \in Number /\ "zero" \in Number /\ "seconds" \in Number /\ "bytes" \in Quoted
        /\ "meta" \in Quoted /\ "exec_timestamp" \in Quoted
    BY WireAssumption DEF Number, Quoted
  <1>8. /\ t[1] = "begin_object" /\ t[2] = "bytes" /\ t[3] = Json!Quote /\ t[4] = "name_separator"
        /\ t[5] = "begin_array" /\ t[6] = c /\ (w = 3 => t[7] = "value_separator" /\ t[8] = "zero")
    BY ONLY TextIs, c \in Command, Zenon DEF t, w
  <1>9. /\ t[6 + w] = "end_array" /\ t[7 + w] = "value_separator" /\ t[8 + w] = "meta"
        /\ t[9 + w] = Json!Quote
    BY ONLY TextIs, c \in Command, Zenon DEF t, w
  <1>10. /\ t[10 + w] = "name_separator" /\ t[11 + w] = "begin_object"
         /\ t[12 + w] = "exec_timestamp" /\ t[13 + w] = Json!Quote
    BY ONLY TextIs, c \in Command, Zenon DEF t, w
  <1>11. /\ t[14 + w] = "name_separator" /\ t[15 + w] = "seconds"
         /\ t[16 + w] = "end_object" /\ t[17 + w] = "end_object"
    BY ONLY TextIs, c \in Command, Zenon DEF t, w
  <1>12. /\ Letter(c, 1) = "begin_object" /\ Letter(c, 2) \in Quoted
         /\ Letter(c, 3) = Json!Quote /\ Letter(c, 4) = "name_separator"
         /\ Letter(c, 5) = "begin_array" /\ Letter(c, 6) \in Number
         /\ w = 3 => Letter(c, 7) = "value_separator" /\ Letter(c, 8) \in Number
    BY ONLY <1>5, <1>7, <1>8, Zenon
  <1>13. /\ Letter(c, 6 + w) = "end_array" /\ Letter(c, 7 + w) = "value_separator"
         /\ Letter(c, 8 + w) \in Quoted /\ Letter(c, 9 + w) = Json!Quote
    BY ONLY <1>6, <1>7, <1>9, Zenon
  <1>14. /\ Letter(c, 10 + w) = "name_separator" /\ Letter(c, 11 + w) = "begin_object"
         /\ Letter(c, 12 + w) \in Quoted /\ Letter(c, 13 + w) = Json!Quote
    BY ONLY <1>6, <1>7, <1>10, Zenon
  <1>15. /\ Letter(c, 14 + w) = "name_separator" /\ Letter(c, 15 + w) \in Number
         /\ Letter(c, 16 + w) = "end_object" /\ Letter(c, 17 + w) = "end_object"
    BY ONLY <1>6, <1>7, <1>11, Zenon
  <1> QED
    BY ONLY <1>1, <1>2, <1>4, <1>12, <1>13, <1>14, <1>15, Zenon DEF w

\* No symbol of a text is a newline or a NUL.
LEMMA NoNewlineWithin ==
  ASSUME NEW c \in Command, NEW i \in 1 .. Size(c)
  PROVE  Letter(c, i) \notin {Json!Newline, Json!NUL}
  <1> DEFINE w == Width(c)
  <1>1. w \in {1, 3} /\ Size(c) = 17 + w
    BY Letters
  <1> HIDE DEF w
  <1>2. \/ i \in 1 .. 6
        \/ w = 3 /\ i \in 7 .. 8
        \/ i \in 6 + w .. 11 + w
        \/ i \in 12 + w .. 17 + w
    <2>1. i \in 1 .. 17 + w
      BY <1>1
    <2>2. CASE w = 1
      <3>1. i \in 1 .. 18 /\ 6 + w = 7 /\ 11 + w = 12 /\ 12 + w = 13 /\ 17 + w = 18
        BY ONLY <2>1, <2>2
      <3> QED
        BY ONLY <3>1
    <2>3. CASE w = 3
      <3>1. i \in 1 .. 20 /\ 6 + w = 9 /\ 11 + w = 14 /\ 12 + w = 15 /\ 17 + w = 20
        BY ONLY <2>1, <2>3
      <3> QED
        BY ONLY <2>3, <3>1
    <2> QED
      BY ONLY <1>1, <2>2, <2>3
  <1> USE DEF Number, Quoted, Json!Quote, Json!Newline, Json!NUL
  <1>3. CASE i \in 1 .. 6
    <2>1. i = 1 \/ i = 2 \/ i = 3 \/ i = 4 \/ i = 5 \/ i = 6
      BY ONLY <1>3
    <2> QED
      BY <2>1, Letters
  <1>4. CASE w = 3 /\ i \in 7 .. 8
    <2>1. i = 7 \/ i = 8
      BY ONLY <1>4
    <2> QED
      BY <1>4, <2>1, Letters DEF w
  <1>5. CASE i \in 6 + w .. 11 + w
    <2>1. i = 6 + w \/ i = 7 + w \/ i = 8 + w \/ i = 9 + w \/ i = 10 + w \/ i = 11 + w
      BY ONLY <1>1, <1>5
    <2> QED
      BY <2>1, Letters DEF w
  <1>6. CASE i \in 12 + w .. 17 + w
    <2>1. i = 12 + w \/ i = 13 + w \/ i = 14 + w \/ i = 15 + w \/ i = 16 + w \/ i = 17 + w
      BY ONLY <1>1, <1>6
    <2> QED
      BY <2>1, Letters DEF w
  <1> QED
    BY <1>2, <1>3, <1>4, <1>5, <1>6

\* A line from its beginning is a text, whether the reader has got the NUL behind
\* its newline or not.
LEMMA LineAccepted ==
  ASSUME NEW c \in Command, NEW text, Len(text) \in {Size(c) + 1, Size(c) + 2},
         \A i \in 1 .. Len(text) : text[i] = Letter(c, i)
  PROVE  Json!Accepts(text)
  <1> DEFINE w == Width(c)
             o == 5 + w
  <1>1. w \in {1, 3} /\ Size(c) = 17 + w
    BY Letters
  <1> HIDE DEF w
  <1>2. /\ Len(text) \in Nat /\ o \in {6, 8} /\ (o = 8 <=> w = 3)
        /\ Len(text) = o + 13 \/ (Len(text) = o + 14 /\ o + 14 \in 1 .. Len(text)
             /\ o + 14 = 19 + w)
        /\ o + 1 = 6 + w /\ o + 2 = 7 + w /\ o + 3 = 8 + w /\ o + 4 = 9 + w /\ o + 5 = 10 + w
        /\ o + 6 = 11 + w /\ o + 7 = 12 + w /\ o + 8 = 13 + w /\ o + 9 = 14 + w
        /\ o + 10 = 15 + w /\ o + 11 = 16 + w /\ o + 12 = 17 + w /\ o + 13 = 18 + w
    BY <1>1
  <1> HIDE DEF o
  <1>3. \A i \in 1 .. o + 13 : i \in 1 .. Len(text)
    <2>1. o \in Nat /\ Len(text) \in Nat /\ o + 13 <= Len(text)
      BY <1>1 DEF o
    <2> QED
      BY ONLY <2>1
  <1>4. \A i \in 1 .. o + 13 : text[i] = Letter(c, i)
    BY ONLY <1>3, \A i \in 1 .. Len(text) : text[i] = Letter(c, i), Zenon
  <1>5. /\ 1 \in 1 .. o + 13 /\ 2 \in 1 .. o + 13 /\ 3 \in 1 .. o + 13 /\ 4 \in 1 .. o + 13
        /\ 5 \in 1 .. o + 13 /\ 6 \in 1 .. o + 13 /\ 7 \in 1 .. o + 13 /\ 8 \in 1 .. o + 13
        /\ o + 1 \in 1 .. o + 13 /\ o + 2 \in 1 .. o + 13 /\ o + 3 \in 1 .. o + 13
        /\ o + 4 \in 1 .. o + 13 /\ o + 5 \in 1 .. o + 13 /\ o + 6 \in 1 .. o + 13
        /\ o + 7 \in 1 .. o + 13 /\ o + 8 \in 1 .. o + 13 /\ o + 9 \in 1 .. o + 13
        /\ o + 10 \in 1 .. o + 13 /\ o + 11 \in 1 .. o + 13 /\ o + 12 \in 1 .. o + 13
        /\ o + 13 \in 1 .. o + 13
    <2>1. o = 6 \/ o = 8
      BY ONLY <1>2
    <2> QED
      BY ONLY <2>1
  <1>6. /\ Letter(c, 1) = "begin_object" /\ Letter(c, 2) \in Quoted
        /\ Letter(c, 3) = Json!Quote /\ Letter(c, 4) = "name_separator"
        /\ Letter(c, 5) = "begin_array" /\ Letter(c, 6) \in Number
        /\ w = 3 => Letter(c, 7) = "value_separator" /\ Letter(c, 8) \in Number
    BY ONLY Letters, c \in Command, Zenon DEF w
  <1>7. /\ Letter(c, 6 + w) = "end_array" /\ Letter(c, 7 + w) = "value_separator"
        /\ Letter(c, 8 + w) \in Quoted /\ Letter(c, 9 + w) = Json!Quote
        /\ Letter(c, 10 + w) = "name_separator" /\ Letter(c, 11 + w) = "begin_object"
        /\ Letter(c, 12 + w) \in Quoted /\ Letter(c, 13 + w) = Json!Quote
        /\ Letter(c, 14 + w) = "name_separator" /\ Letter(c, 15 + w) \in Number
        /\ Letter(c, 16 + w) = "end_object" /\ Letter(c, 17 + w) = "end_object"
        /\ Letter(c, 18 + w) = Json!Newline /\ Letter(c, 19 + w) = Json!NUL
    BY ONLY Letters, c \in Command, Zenon DEF w
  <1>8. /\ text[1] = "begin_object" /\ text[2] \in Quoted
        /\ text[3] = Json!Quote /\ text[4] = "name_separator"
        /\ text[5] = "begin_array" /\ text[6] \in Number
        /\ o = 8 => text[7] = "value_separator" /\ text[8] \in Number
    BY ONLY <1>2, <1>4, <1>5, <1>6, Zenon
  <1>9. /\ text[o + 1] = "end_array" /\ text[o + 2] = "value_separator"
        /\ text[o + 3] \in Quoted /\ text[o + 4] = Json!Quote
        /\ text[o + 5] = "name_separator" /\ text[o + 6] = "begin_object"
        /\ text[o + 7] \in Quoted /\ text[o + 8] = Json!Quote
    <2>1. /\ text[o + 1] = "end_array" /\ text[o + 2] = "value_separator"
          /\ text[o + 3] \in Quoted /\ text[o + 4] = Json!Quote
      BY ONLY <1>2, <1>4, <1>5, <1>7, Zenon
    <2>2. /\ text[o + 5] = "name_separator" /\ text[o + 6] = "begin_object"
          /\ text[o + 7] \in Quoted /\ text[o + 8] = Json!Quote
      BY ONLY <1>2, <1>4, <1>5, <1>7, Zenon
    <2> QED
      BY ONLY <2>1, <2>2
  <1>10. /\ text[o + 9] = "name_separator" /\ text[o + 10] \in Number
         /\ text[o + 11] = "end_object" /\ text[o + 12] = "end_object"
         /\ text[o + 13] = Json!Newline
    BY ONLY <1>2, <1>4, <1>5, <1>7, Zenon
  <1>11. \/ Len(text) = o + 13
         \/ Len(text) = o + 14 /\ text[o + 14] = Json!NUL
    BY ONLY <1>2, <1>7, \A i \in 1 .. Len(text) : text[i] = Letter(c, i), Zenon
  <1> QED
    BY ONLY <1>2, <1>8, <1>9, <1>10, <1>11, Whole, Zenon

\* A newline alone, or with its NUL, is no text.
LEMMA BadNewline ==
  ASSUME NEW text, Len(text) \in Nat, 1 <= Len(text), text[1] = Json!Newline,
         Len(text) >= 2 => text[2] = Json!NUL
  PROVE  ~Json!Accepts(text)
  <1> USE DEF Number, Quoted, Json!Quote, Json!NUL
  <1>1. Json!TokenAt(text, 1) = "none"
    BY DEF Json!TokenAt, Json!Structural, Json!Newline
  <1>2. PICK f : /\ f[0] = At("value", <<>>)
                 /\ \A i \in 1 .. Len(text) : f[i] = Json!Step(f[i - 1], Json!TokenAt(text, i))
                 /\ Json!Accepts(text) <=> Json!Step(f[Len(text)], "end").at = "accepted"
    BY ONLY AcceptsByRun, Len(text) \in Nat, Zenon DEF At, Json!Start
  <1>3. f[1] = At("value", <<>>)
    <2>1. 1 \in 1 .. Len(text) /\ 1 - 1 = 0
      OBVIOUS
    <2> QED
      BY ONLY <1>1, <1>2, <2>1, Skips, Zenon
  <1>4. CASE Len(text) = 1
    <2>1. Json!Step(f[Len(text)], "end").at = "error"
      BY ONLY <1>3, <1>4, Fails, Zenon
    <2> QED
      BY ONLY <1>2, <2>1
  <1>5. CASE Len(text) >= 2 /\ text[2] = Json!NUL
    <2>1. 2 \in 1 .. Len(text) /\ 2 - 1 = 1 /\ 2 \in 0 .. Len(text)
      BY <1>5
    <2>2. Json!TokenAt(text, 2) = "end"
      BY <1>5 DEF Json!TokenAt, Json!Structural, Json!Newline
    <2>3. ASSUME NEW g, Parses(text, g) PROVE g[2].at = "error"
      <3>1. 1 \in 1 .. Len(text) /\ 1 - 1 = 0
        OBVIOUS
      <3>2. g[1] = At("value", <<>>)
        BY ONLY <1>1, <2>3, <3>1, Skips, Zenon DEF Parses
      <3>3. g[2] = Json!Step(g[1], "end")
        BY ONLY <2>1, <2>2, <2>3, Zenon DEF Parses
      <3> QED
        BY ONLY <3>2, <3>3, Fails, Zenon
    <2> QED
      BY ONLY <2>1, <2>3, Stops, Len(text) \in Nat, Zenon
  <1>6. Len(text) = 1 \/ Len(text) >= 2
    OBVIOUS
  <1> QED
    BY <1>4, <1>5, <1>6

\* What is left of a line after its first symbols is no text.
LEMMA RestRefused ==
  ASSUME NEW c \in Command, NEW j \in 2 .. Size(c) + 2, NEW text, Len(text) \in Nat,
         1 <= Len(text), Size(c) + 2 <= Len(text) + j,
         \A d \in 1 .. Len(text) : (d - 1) + j <= Size(c) + 2 => text[d] = Letter(c, (d - 1) + j)
  PROVE  ~Json!Accepts(text)
  <1> DEFINE w == Width(c)
  <1>1. w \in {1, 3} /\ Size(c) = 17 + w
    BY Letters
  <1> HIDE DEF w
  <1>2. \A d \in 1 .. Len(text) : (d - 1) + j <= 19 + w => text[d] = Letter(c, (d - 1) + j)
    BY <1>1
  <1>3. Len(text) \in Nat /\ 1 <= Len(text) /\ j \in 2 .. 19 + w /\ 19 + w <= Len(text) + j
    BY <1>1
  <1>6. /\ Letter(c, 1) = "begin_object" /\ Letter(c, 2) \in Quoted
        /\ Letter(c, 3) = Json!Quote /\ Letter(c, 4) = "name_separator"
        /\ Letter(c, 5) = "begin_array" /\ Letter(c, 6) \in Number
        /\ w = 3 => Letter(c, 7) = "value_separator" /\ Letter(c, 8) \in Number
    BY ONLY Letters, c \in Command, Zenon DEF w
  <1>7. /\ Letter(c, 6 + w) = "end_array" /\ Letter(c, 7 + w) = "value_separator"
        /\ Letter(c, 8 + w) \in Quoted /\ Letter(c, 9 + w) = Json!Quote
        /\ Letter(c, 10 + w) = "name_separator" /\ Letter(c, 11 + w) = "begin_object"
        /\ Letter(c, 12 + w) \in Quoted /\ Letter(c, 13 + w) = Json!Quote
        /\ Letter(c, 14 + w) = "name_separator" /\ Letter(c, 15 + w) \in Number
        /\ Letter(c, 16 + w) = "end_object" /\ Letter(c, 17 + w) = "end_object"
        /\ Letter(c, 18 + w) = Json!Newline /\ Letter(c, 19 + w) = Json!NUL
    BY ONLY Letters, c \in Command, Zenon DEF w
  <1>8. \A d \in 0 .. 6 : j + d <= 18 + w => d + 1 \in 1 .. Len(text)
          /\ text[d + 1] = Letter(c, j + d)
    <2> SUFFICES ASSUME NEW d \in 0 .. 6, j + d <= 18 + w
                 PROVE  d + 1 \in 1 .. Len(text) /\ text[d + 1] = Letter(c, j + d)
      OBVIOUS
    <2>1. /\ d + 1 \in 1 .. Len(text) /\ ((d + 1) - 1) + j <= 19 + w
          /\ ((d + 1) - 1) + j = j + d
      BY ONLY <1>1, <1>3, d \in 0 .. 6, j + d <= 18 + w
    <2> QED
      BY ONLY <1>2, <2>1, Zenon
  <1>9. text[1] = Letter(c, j)
    <2>1. 1 \in 1 .. Len(text) /\ (1 - 1) + j <= 19 + w /\ (1 - 1) + j = j
      BY ONLY <1>1, <1>3
    <2> QED
      BY ONLY <1>2, <2>1, Zenon
  <1>10. CASE \/ j = 3 \/ j = 4 \/ (w = 3 /\ j = 7) \/ j = 6 + w \/ j = 7 + w \/ j = 9 + w
              \/ j = 10 + w \/ j = 13 + w \/ j = 14 + w \/ j = 16 + w \/ j = 17 + w \/ j = 19 + w
    <2>1. text[1] \in {Json!Quote, "name_separator", "value_separator", "end_array",
            "end_object", Json!NUL}
      BY ONLY <1>6, <1>7, <1>9, <1>10, Zenon
    <2> QED
      BY ONLY <1>3, <2>1, BadFirst, Zenon
  <1>11. CASE j = 2
    <2>1. 3 <= Len(text) /\ text[1] = Letter(c, 2) /\ text[2] = Letter(c, 3)
            /\ text[3] = Letter(c, 4)
      BY ONLY <1>11, <1>1, <1>3, <1>8
    <2> QED
      BY ONLY <1>11, <1>3, <1>6, <1>7, <2>1, BadName, Zenon
  <1>12. CASE j = 8 + w
    <2>1. 3 <= Len(text) /\ text[1] = Letter(c, 8 + w) /\ text[2] = Letter(c, 9 + w)
            /\ text[3] = Letter(c, 10 + w)
      BY ONLY <1>12, <1>1, <1>3, <1>8
    <2> QED
      BY ONLY <1>12, <1>3, <1>6, <1>7, <2>1, BadName, Zenon
  <1>13. CASE j = 12 + w
    <2>1. 3 <= Len(text) /\ text[1] = Letter(c, 12 + w) /\ text[2] = Letter(c, 13 + w)
            /\ text[3] = Letter(c, 14 + w)
      BY ONLY <1>13, <1>1, <1>3, <1>8
    <2> QED
      BY ONLY <1>13, <1>3, <1>6, <1>7, <2>1, BadName, Zenon
  <1>14. CASE w = 3 /\ j = 6
    <2>1. 2 <= Len(text) /\ text[1] = Letter(c, 6) /\ text[2] = Letter(c, 7)
      BY ONLY <1>14, <1>1, <1>3, <1>8
    <2> QED
      BY ONLY <1>14, <1>3, <1>6, <1>7, <2>1, BadNumber, Zenon
  <1>15. CASE w = 3 /\ j = 8
    <2>1. 2 <= Len(text) /\ text[1] = Letter(c, 8) /\ text[2] = Letter(c, 6 + w)
      BY ONLY <1>15, <1>1, <1>3, <1>8
    <2> QED
      BY ONLY <1>15, <1>3, <1>6, <1>7, <2>1, BadNumber, Zenon
  <1>16. CASE w = 1 /\ j = 6
    <2>1. 2 <= Len(text) /\ text[1] = Letter(c, 6) /\ text[2] = Letter(c, 6 + w)
      BY ONLY <1>16, <1>1, <1>3, <1>8
    <2> QED
      BY ONLY <1>16, <1>3, <1>6, <1>7, <2>1, BadNumber, Zenon
  <1>17. CASE j = 15 + w
    <2>1. 2 <= Len(text) /\ text[1] = Letter(c, 15 + w) /\ text[2] = Letter(c, 16 + w)
      BY ONLY <1>17, <1>1, <1>3, <1>8
    <2> QED
      BY ONLY <1>17, <1>3, <1>6, <1>7, <2>1, BadNumber, Zenon
  <1>18. CASE w = 1 /\ j = 5
    <2>1. 4 <= Len(text) /\ text[1] = Letter(c, 5) /\ text[2] = Letter(c, 6)
            /\ text[3] = Letter(c, 6 + w) /\ text[4] = Letter(c, 7 + w)
      BY ONLY <1>18, <1>1, <1>3, <1>8
    <2> QED
      BY ONLY <1>18, <1>3, <1>6, <1>7, <2>1, BadArray, Zenon
  <1>19. CASE w = 3 /\ j = 5
    <2>1. 6 <= Len(text) /\ text[1] = Letter(c, 5) /\ text[2] = Letter(c, 6)
            /\ text[3] = Letter(c, 7) /\ text[4] = Letter(c, 8) /\ text[5] = Letter(c, 6 + w)
                 /\ text[6] = Letter(c, 7 + w)
      BY ONLY <1>19, <1>1, <1>3, <1>8
    <2> QED
      BY ONLY <1>19, <1>3, <1>6, <1>7, <2>1, BadPair, Zenon
  <1>20. CASE j = 11 + w
    <2>1. 7 <= Len(text) /\ text[1] = Letter(c, 11 + w) /\ text[2] = Letter(c, 12 + w)
            /\ text[3] = Letter(c, 13 + w) /\ text[4] = Letter(c, 14 + w)
                 /\ text[5] = Letter(c, 15 + w) /\ text[6] = Letter(c, 16 + w)
                      /\ text[7] = Letter(c, 17 + w)
      BY ONLY <1>20, <1>1, <1>3, <1>8
    <2> QED
      BY ONLY <1>20, <1>3, <1>6, <1>7, <2>1, BadObject, Zenon
  <1>21. CASE j = 18 + w
    <2>1. text[1] = Json!Newline
      BY ONLY <1>21, <1>7, <1>9
    <2>2. Len(text) >= 2 => text[2] = Json!NUL
      <3> SUFFICES ASSUME Len(text) >= 2 PROVE text[2] = Json!NUL
        OBVIOUS
      <3>1. 2 \in 1 .. Len(text) /\ (2 - 1) + j <= 19 + w /\ (2 - 1) + j = 19 + w
        BY ONLY Len(text) >= 2, <1>21, <1>1, <1>3
      <3> QED
        BY ONLY <1>2, <1>7, <3>1, Zenon
    <2> QED
      BY ONLY <1>3, <2>1, <2>2, BadNewline
  <1>22. \/ j = 2 \/ j = 3 \/ j = 4 \/ j = 5 \/ j = 6
        \/ (w = 3 /\ j = 7) \/ (w = 3 /\ j = 8)
        \/ j = 6 + w \/ j = 7 + w \/ j = 8 + w \/ j = 9 + w \/ j = 10 + w \/ j = 11 + w
        \/ j = 12 + w \/ j = 13 + w \/ j = 14 + w \/ j = 15 + w \/ j = 16 + w \/ j = 17 + w
        \/ j = 18 + w \/ j = 19 + w
    <2>1. CASE w = 1
      <3>1. j \in 2 .. 20
        BY ONLY <2>1, <1>3
      <3> QED
        BY ONLY <2>1, <3>1
    <2>2. CASE w = 3
      <3>1. j \in 2 .. 22
        BY ONLY <2>2, <1>3
      <3> QED
        BY ONLY <2>2, <3>1
    <2> QED
      BY ONLY <1>1, <2>1, <2>2
  <1>23. w = 1 \/ w = 3
    BY <1>1
  <1> QED
    BY ONLY <1>10, <1>11, <1>12, <1>13, <1>14, <1>15, <1>16, <1>17, <1>18, <1>19, <1>20, <1>21,
       <1>22, <1>23, Zenon

-----------------------------------------------------------------------------
(* The stream                                                              *)

\* Every symbol i of the stream st is letter q[i] of the message l[i] of bs, and
\* the messages are there one after the other.
Placed(st, bs, l, q) ==
  \A i \in 1 .. Len(st) :
    /\ l[i] \in 1 .. Len(bs) /\ q[i] \in 1 .. Size(bs[l[i]]) + 2
    /\ st[i] = Letter(bs[l[i]], q[i])
    /\ i = 1 => l[i] = 1 /\ q[i] = 1
    /\ i > 1 =>
         IF q[i - 1] = Size(bs[l[i - 1]]) + 2
           THEN l[i] = l[i - 1] + 1 /\ q[i] = 1
           ELSE l[i] = l[i - 1] /\ q[i] = q[i - 1] + 1

\* A message has a symbol or more before its newline.
LEMMA SizeIs ==
  ASSUME NEW c \in Command
  PROVE  Size(c) \in Nat /\ Size(c) >= 18
  BY Letters

\* The stream ends behind letter k of message m.
EndsAt(st, bs, l, q, m, k) ==
  /\ Len(st) = 0 => m = 1 /\ k = 0
  /\ Len(st) > 0 =>
       \/ k = 0 /\ l[Len(st)] = m - 1 /\ q[Len(st)] = Size(bs[m - 1]) + 2
       \/ k > 0 /\ l[Len(st)] = m /\ q[Len(st)] = k

PlacedUpTo(st, bs, l, q, m, k) ==
  Placed(st, bs, l, q) /\ l[Len(st)] = m /\ q[Len(st)] = k

\* More letters of the message m, from the one behind k.
LEMMA Extended ==
  ASSUME NEW bs \in Seq(Command), NEW st \in Seq(Json!Symbol), NEW l, NEW q, Placed(st, bs, l, q),
         NEW m \in 1 .. Len(bs), NEW k \in Nat, NEW e \in Seq(Json!Symbol), Len(e) > 0,
         k + Len(e) <= Size(bs[m]) + 2,
         \A d \in 1 .. Len(e) : e[d] = Letter(bs[m], k + d),
         EndsAt(st, bs, l, q, m, k)
  PROVE  \E l2, q2 : PlacedUpTo(st \o e, bs, l2, q2, m, k + Len(e))
  <1> DEFINE n == Len(st)
             x == Len(e)
             l2 == [i \in 1 .. n + x |-> IF i <= n THEN l[i] ELSE m]
             q2 == [i \in 1 .. n + x |-> IF i <= n THEN q[i] ELSE k + (i - n)]
             w == Size(bs[m])
  <1>1. n \in Nat /\ x \in Nat /\ w \in Nat /\ m \in Nat /\ k + x <= w + 2 /\ k \in Nat
    BY SizeIs
  <1>2. /\ Len(st \o e) = n + x
        /\ \A i \in 1 .. n + x : (st \o e)[i] = IF i <= n THEN st[i] ELSE e[i - n]
    BY ConcatProperties
  <1>3. \A i \in 1 .. n : l2[i] = l[i] /\ q2[i] = q[i]
    BY <1>1
  <1>4. \A d \in 1 .. x : l2[n + d] = m /\ q2[n + d] = k + d /\ e[d] = Letter(bs[m], k + d)
    <2> TAKE d \in 1 .. x
    <2>1. n + d \in 1 .. n + x /\ ~(n + d <= n) /\ (n + d) - n = d
      BY <1>1
    <2> QED
      BY <2>1
  <1>5. ASSUME NEW i \in 1 .. n + x
        PROVE  /\ l2[i] \in 1 .. Len(bs) /\ q2[i] \in 1 .. Size(bs[l2[i]]) + 2
               /\ (st \o e)[i] = Letter(bs[l2[i]], q2[i])
               /\ i = 1 => l2[i] = 1 /\ q2[i] = 1
               /\ i > 1 =>
                    IF q2[i - 1] = Size(bs[l2[i - 1]]) + 2
                      THEN l2[i] = l2[i - 1] + 1 /\ q2[i] = 1
                      ELSE l2[i] = l2[i - 1] /\ q2[i] = q2[i - 1] + 1
    <2> HIDE DEF l2, q2, n, x, w
    <2>1. CASE i <= n
      <3>1. i \in 1 .. n /\ (i > 1 => i - 1 \in 1 .. n)
        BY ONLY <1>1, <2>1, <1>5
      <3>2. (st \o e)[i] = st[i]
        BY ONLY <1>2, <2>1, i \in 1 .. n + x
      <3>3. /\ l[i] \in 1 .. Len(bs) /\ q[i] \in 1 .. Size(bs[l[i]]) + 2
            /\ st[i] = Letter(bs[l[i]], q[i])
            /\ i = 1 => l[i] = 1 /\ q[i] = 1
            /\ i > 1 =>
                 IF q[i - 1] = Size(bs[l[i - 1]]) + 2
                   THEN l[i] = l[i - 1] + 1 /\ q[i] = 1
                   ELSE l[i] = l[i - 1] /\ q[i] = q[i - 1] + 1
        BY ONLY <3>1, Placed(st, bs, l, q), Zenon DEF Placed, n
      <3>4. l2[i] = l[i] /\ q2[i] = q[i] /\ (i > 1 => l2[i - 1] = l[i - 1] /\ q2[i - 1] = q[i - 1])
        BY ONLY <1>3, <3>1, Zenon
      <3> QED
        BY ONLY <3>2, <3>3, <3>4, Zenon
    <2>2. CASE i > n
      <3> DEFINE d == i - n
      <3>0. ~(i <= n) /\ d \in 1 .. x /\ n + d = i
        BY ONLY <1>1, <2>2, i \in 1 .. n + x
      <3>1. d \in 1 .. x /\ n + d = i /\ (st \o e)[i] = e[d]
        BY ONLY <1>2, <3>0, i \in 1 .. n + x, Zenon
      <3> HIDE DEF d
      <3>2. l2[i] = m /\ q2[i] = k + d /\ (st \o e)[i] = Letter(bs[m], k + d)
        BY ONLY <1>4, <3>1, Zenon
      <3>3. q2[i] \in 1 .. w + 2
        BY ONLY <1>1, <3>1, <3>2
      <3>4. CASE d > 1
        <4>1. d - 1 \in 1 .. x /\ n + (d - 1) = i - 1 /\ i > 1 /\ k + (d - 1) # w + 2
              /\ k + d = (k + (d - 1)) + 1
          BY ONLY <1>1, <3>1, <3>4
        <4>2. l2[i - 1] = m /\ q2[i - 1] = k + (d - 1)
          BY ONLY <1>4, <4>1, Zenon
        <4>3. i # 1
          BY ONLY <4>1, <1>1, <3>1
        <4> QED
          BY ONLY <3>2, <3>3, <4>1, <4>2, <4>3, m \in 1 .. Len(bs), Zenon DEF w
      <3>5. CASE d = 1
        <4>1. CASE n = 0
          <5>1. i = 1 /\ m = 1 /\ k = 0 /\ ~(i > 1) /\ k + d = 1
            BY ONLY <1>1, <3>1, <3>5, <4>1, EndsAt(st, bs, l, q, m, k) DEF n, EndsAt
          <5> QED
            BY ONLY <3>2, <3>3, <5>1, m \in 1 .. Len(bs), Zenon DEF w
        <4>2. CASE n > 0
          <5>1. i # 1 /\ i - 1 = n /\ n \in 1 .. n /\ m = (m - 1) + 1 /\ k + d = k + 1
            BY ONLY <1>1, <3>1, <3>5, <4>2
          <5>2. l2[i - 1] = l[n] /\ q2[i - 1] = q[n]
            BY ONLY <1>3, <5>1, Zenon
          <5>3. \/ k = 0 /\ l[n] = m - 1 /\ q[n] = Size(bs[m - 1]) + 2
                \/ k > 0 /\ l[n] = m /\ q[n] = k
            BY <4>2 DEF n, EndsAt
          <5>4. CASE k = 0 /\ l[n] = m - 1 /\ q[n] = Size(bs[m - 1]) + 2
            <6>1. k + d = 1
              BY ONLY <5>1, <5>4
            <6> QED
              BY ONLY <6>1, <3>2, <3>3, <5>1, <5>2, <5>4, m \in 1 .. Len(bs), Zenon DEF w
          <5>5. CASE k > 0 /\ l[n] = m /\ q[n] = k
            <6>1. k # w + 2
              BY ONLY <1>1, <3>1, <5>5
            <6> QED
              BY ONLY <6>1, <3>2, <3>3, <5>1, <5>2, <5>5, m \in 1 .. Len(bs), Zenon DEF w
          <5> QED
            BY ONLY <5>3, <5>4, <5>5
        <4>3. n = 0 \/ n > 0
          BY ONLY <1>1
        <4> QED
          BY ONLY <4>1, <4>2, <4>3, Zenon
      <3> QED
        BY ONLY <3>1, <3>4, <3>5
    <2>3. i <= n \/ i > n
      BY ONLY <1>1, i \in 1 .. n + x
    <2> QED
      BY ONLY <2>1, <2>2, <2>3, Zenon
  <1>6. l2[n + x] = m /\ q2[n + x] = k + x
    <2>1. x \in 1 .. x
      BY <1>1
    <2> QED
      BY ONLY <1>4, <2>1, Zenon
  <1> HIDE DEF l2, q2
  <1>7. Placed(st \o e, bs, l2, q2)
    BY ONLY <1>2, <1>5, Zenon DEF Placed
  <1> QED
    BY ONLY <1>2, <1>6, <1>7, Zenon DEF PlacedUpTo

\* A message goes on for as long as there are letters of it.
LEMMA Along ==
  ASSUME NEW bs \in Seq(Command), NEW st \in Seq(Json!Symbol), NEW l, NEW q, Placed(st, bs, l, q),
         NEW i \in 1 .. Len(st), NEW d \in Nat,
         i + d <= Len(st), q[i] + d <= Size(bs[l[i]]) + 2
  PROVE  l[i + d] = l[i] /\ q[i + d] = q[i] + d
  <1> DEFINE n == Len(st)
             j == q[i]
             w == Size(bs[l[i]])
             S == {y \in Nat : i + y <= n /\ j + y <= w + 2 => l[i + y] = l[i] /\ q[i + y] = j + y}
  <1>1. n \in Nat /\ j \in Nat /\ w \in Nat /\ i \in 1 .. n
    <2>1. l[i] \in 1 .. Len(bs) /\ q[i] \in 1 .. Size(bs[l[i]]) + 2
      BY ONLY Placed(st, bs, l, q), i \in 1 .. Len(st), Zenon DEF Placed
    <2>2. bs[l[i]] \in Command
      BY ONLY bs \in Seq(Command), <2>1
    <2>3. w \in Nat
      BY <2>2, SizeIs
    <2>4. j \in Nat
      BY ONLY <2>1, <2>3
    <2>5. n \in Nat
      BY ONLY st \in Seq(Json!Symbol)
    <2> QED
      BY ONLY <2>3, <2>4, <2>5, i \in 1 .. Len(st) DEF n
  <1>2. 0 \in S
    BY <1>1
  <1>3. ASSUME NEW y \in Nat, y \in S PROVE y + 1 \in S
    <2> SUFFICES ASSUME i + (y + 1) <= n, j + (y + 1) <= w + 2
                 PROVE  l[i + (y + 1)] = l[i] /\ q[i + (y + 1)] = j + (y + 1)
      OBVIOUS
    <2> DEFINE z == i + (y + 1)
    <2> HIDE DEF n, j, w
    <2>1. /\ z \in 1 .. n /\ z > 1 /\ z - 1 = i + y /\ i + y <= n /\ j + y <= w + 2 /\ j + y # w + 2
          /\ (j + y) + 1 = j + (y + 1)
      BY ONLY <1>1, y \in Nat, i + (y + 1) <= n, j + (y + 1) <= w + 2
    <2>2. l[z - 1] = l[i] /\ q[z - 1] = j + y
      BY ONLY <1>3, <2>1
    <2>3. IF q[z - 1] = Size(bs[l[z - 1]]) + 2
            THEN l[z] = l[z - 1] + 1 /\ q[z] = 1
            ELSE l[z] = l[z - 1] /\ q[z] = q[z - 1] + 1
      BY ONLY <2>1, Placed(st, bs, l, q), Zenon DEF Placed, n
    <2> QED
      BY ONLY <2>1, <2>2, <2>3, Zenon DEF w
  <1>4. d \in S
    <2> HIDE DEF S
    <2> QED
      BY <1>2, <1>3, Induction
  <1> QED
    BY <1>4

\* A part of the stream, and more messages, change nothing for what is there.
LEMMA PrefixPlaced ==
  ASSUME NEW bs \in Seq(Command), NEW st \in Seq(Json!Symbol), NEW l, NEW q, Placed(st, bs, l, q),
         NEW bs2 \in Seq(Command), Len(bs) <= Len(bs2), \A i \in 1 .. Len(bs) : bs2[i] = bs[i],
         NEW st2, Len(st2) \in Nat, Len(st2) <= Len(st), \A i \in 1 .. Len(st2) : st2[i] = st[i]
  PROVE  Placed(st2, bs2, l, q)
  <1> SUFFICES ASSUME NEW i \in 1 .. Len(st2)
               PROVE  /\ l[i] \in 1 .. Len(bs2) /\ q[i] \in 1 .. Size(bs2[l[i]]) + 2
                      /\ st2[i] = Letter(bs2[l[i]], q[i])
                      /\ i = 1 => l[i] = 1 /\ q[i] = 1
                      /\ i > 1 =>
                           IF q[i - 1] = Size(bs2[l[i - 1]]) + 2
                             THEN l[i] = l[i - 1] + 1 /\ q[i] = 1
                             ELSE l[i] = l[i - 1] /\ q[i] = q[i - 1] + 1
    BY Zenon DEF Placed
  <1>1. i \in 1 .. Len(st) /\ (i > 1 => i - 1 \in 1 .. Len(st))
    <2>1. Len(st) \in Nat
      OBVIOUS
    <2> QED
      BY ONLY <2>1, Len(st2) \in Nat, Len(st2) <= Len(st), i \in 1 .. Len(st2)
  <1>2. \A y \in 1 .. Len(st) : l[y] \in 1 .. Len(bs) /\ bs2[l[y]] = bs[l[y]]
    BY ONLY Placed(st, bs, l, q), \A y \in 1 .. Len(bs) : bs2[y] = bs[y], Zenon DEF Placed
  <1>3. l[i] \in 1 .. Len(bs2)
    <2>1. Len(bs) \in Nat /\ Len(bs2) \in Nat /\ l[i] \in 1 .. Len(bs)
      BY <1>1, <1>2
    <2> QED
      BY ONLY <2>1, Len(bs) <= Len(bs2)
  <1>4. st2[i] = st[i]
    OBVIOUS
  <1> QED
    BY ONLY <1>1, <1>2, <1>3, <1>4, Placed(st, bs, l, q), Zenon DEF Placed

\* The newlines among the first n symbols.
Count(st, n) == Cardinality({i \in 1 .. n : st[i] = Json!Newline})

\* A line has one newline and one NUL, at its end.
LEMMA OnlyNewline ==
  ASSUME NEW c \in Command, NEW i \in 1 .. Size(c) + 2
  PROVE  /\ Letter(c, i) = Json!Newline <=> i = Size(c) + 1
         /\ Letter(c, i) = Json!NUL <=> i = Size(c) + 2
  <1>1. Size(c) \in Nat
    BY SizeIs
  <1>2. Json!Newline # Json!NUL
    BY DEF Json!Newline, Json!NUL
  <1>3. CASE i \in 1 .. Size(c)
    <2>1. i # Size(c) + 1 /\ i # Size(c) + 2
      BY ONLY <1>1, <1>3
    <2> QED
      BY ONLY <1>3, <2>1, NoNewlineWithin, c \in Command, Zenon
  <1>4. CASE i = Size(c) + 1
    <2>1. ~(i <= Size(c)) /\ i # Size(c) + 2
      BY ONLY <1>1, <1>4
    <2> QED
      BY ONLY <1>2, <1>4, <2>1, Zenon DEF Letter
  <1>5. CASE i = Size(c) + 2
    <2>1. ~(i <= Size(c)) /\ i # Size(c) + 1
      BY ONLY <1>1, <1>5
    <2> QED
      BY ONLY <1>2, <1>5, <2>1, Zenon DEF Letter
  <1>6. i \in 1 .. Size(c) \/ i = Size(c) + 1 \/ i = Size(c) + 2
    BY ONLY <1>1, i \in 1 .. Size(c) + 2
  <1> QED
    BY ONLY <1>3, <1>4, <1>5, <1>6

\* Counting newlines, symbol by symbol.
LEMMA CountNext ==
  ASSUME NEW st, NEW n \in Nat
  PROVE  /\ Count(st, n) \in Nat /\ Count(st, 0) = 0
         /\ Count(st, n + 1) = IF st[n + 1] = Json!Newline THEN Count(st, n) + 1 ELSE Count(st, n)
  <1> DEFINE T(m) == {i \in 1 .. m : st[i] = Json!Newline}
  <1>1. IsFiniteSet(T(n)) /\ Cardinality(T(n)) \in Nat
    <2>1. IsFiniteSet(1 .. n)
      BY FS_Interval
    <2>2. T(n) \subseteq 1 .. n
      OBVIOUS
    <2> QED
      BY ONLY <2>1, <2>2, FS_Subset, FS_CardinalityType
  <1>2. T(0) = {}
    OBVIOUS
  <1>3. Cardinality(T(0)) = 0
    BY ONLY <1>2, FS_EmptySet
  <1>4. n + 1 \notin T(n)
    OBVIOUS
  <1>5. CASE st[n + 1] = Json!Newline
    <2>1. T(n + 1) = T(n) \cup {n + 1}
      BY <1>5
    <2> HIDE DEF T
    <2>2. Cardinality(T(n + 1)) = Cardinality(T(n)) + 1
      BY ONLY <1>1, <1>4, <2>1, FS_AddElement
    <2> QED
      BY <1>1, <1>3, <1>5, <2>2 DEF Count, T
  <1>6. CASE st[n + 1] # Json!Newline
    <2>1. T(n + 1) = T(n)
      BY <1>6
    <2> QED
      BY <1>1, <1>3, <1>6, <2>1 DEF Count
  <1> QED
    BY <1>5, <1>6

\* The messages that have passed at a position are those whose newline has.
LEMMA CountIs ==
  ASSUME NEW bs \in Seq(Command), NEW st \in Seq(Json!Symbol), NEW l, NEW q, Placed(st, bs, l, q),
         NEW n \in 0 .. Len(st)
  PROVE  Count(st, n) = IF n = 0 THEN 0 ELSE IF q[n] > Size(bs[l[n]]) THEN l[n] ELSE l[n] - 1
  <1> DEFINE Is(y) == Count(st,
               y) = IF y = 0 THEN 0 ELSE IF q[y] > Size(bs[l[y]]) THEN l[y] ELSE l[y] - 1
             S == {y \in Nat : y <= Len(st) => Is(y)}
  <1>0. Len(st) \in Nat
    OBVIOUS
  <1>1. 0 \in S
    BY CountNext
  <1>2. ASSUME NEW y \in Nat, y \in S PROVE y + 1 \in S
    <2> SUFFICES ASSUME y + 1 <= Len(st) PROVE Is(y + 1)
      OBVIOUS
    <2> DEFINE z == y + 1
               w == Size(bs[l[z]])
               v == Size(bs[l[y]])
    <2>1. z \in 1 .. Len(st) /\ z # 0 /\ z - 1 = y /\ y <= Len(st) /\ z \in Nat
      BY <1>0
    <2>2. Is(y)
      BY ONLY <1>2, <2>1
    <2>3. /\ l[z] \in 1 .. Len(bs) /\ q[z] \in 1 .. w + 2 /\ st[z] = Letter(bs[l[z]], q[z])
          /\ z = 1 => l[z] = 1 /\ q[z] = 1
          /\ z > 1 =>
               IF q[y] = v + 2 THEN l[z] = l[y] + 1 /\ q[z] = 1 ELSE l[z] = l[y] /\ q[z] = q[y] + 1
      BY ONLY <2>1, Placed(st, bs, l, q), Zenon DEF Placed
    <2>4. bs[l[z]] \in Command
      BY <2>3
    <2>5. w \in Nat /\ w >= 18
      BY <2>4, SizeIs
    <2>6. st[z] = Json!Newline <=> q[z] = w + 1
      BY ONLY <2>3, <2>4, OnlyNewline, Zenon
    <2>7. /\ Count(st, y) \in Nat
          /\ Count(st, z) = IF st[z] = Json!Newline THEN Count(st, y) + 1 ELSE Count(st, y)
      BY CountNext
    <2>8. CASE y = 0
      <3>1. z = 1 /\ Count(st, y) = 0
        BY ONLY <2>2, <2>8
      <3> HIDE DEF z, w
      <3>2. l[z] = 1 /\ q[z] = 1
        BY ONLY <2>3, <3>1, Zenon
      <3>3. q[z] # w + 1 /\ ~(q[z] > w) /\ l[z] - 1 = 0
        BY ONLY <2>5, <3>2
      <3>4. Count(st, z) = 0
        BY ONLY <2>6, <2>7, <3>1, <3>3, Zenon
      <3> QED
        BY ONLY <2>1, <3>3, <3>4, Zenon DEF w, z
    <2>9. CASE y > 0
      <3>1. y \in 1 .. Len(st)
        BY <2>1, <2>9
      <3>2. l[y] \in 1 .. Len(bs) /\ q[y] \in 1 .. v + 2
        BY ONLY <3>1, Placed(st, bs, l, q), Zenon DEF Placed
      <3>3. bs[l[y]] \in Command
        BY <3>2
      <3>4. v \in Nat
        BY <3>3, SizeIs
      <3>5. z > 1 /\ y # 0 /\ Len(bs) \in Nat
        BY <2>9
      <3>6. Count(st, y) = IF q[y] > v THEN l[y] ELSE l[y] - 1
        BY ONLY <2>2, <3>5, Zenon
      <3>7. q[y] # v + 2 => w = v
        BY ONLY <2>3, <3>5, Zenon
      <3> HIDE DEF z, w, v
      <3> DEFINE a == Count(st, y)
                 b == Count(st, z)
                 m == Len(bs)
      <3>8. a = IF q[y] > v THEN l[y] ELSE l[y] - 1
        BY ONLY <3>6
      <3>9. a \in Nat /\ b = IF q[z] = w + 1 THEN a + 1 ELSE a
        BY ONLY <2>6, <2>7, Zenon
      <3> HIDE DEF a, b, m
      <3>10. b = IF q[z] > w THEN l[z] ELSE l[z] - 1
        <4>1. CASE q[y] = v + 2
          <5>1. l[z] = l[y] + 1 /\ q[z] = 1
            BY ONLY <2>3, <3>5, <4>1, Zenon
          <5>2. a = l[y] /\ l[y] \in Nat
            BY ONLY <3>8, <4>1, <3>4, <3>2
          <5>3. ~(q[z] > w) /\ q[z] # w + 1
            BY ONLY <5>1, <2>5
          <5>4. b = a
            BY ONLY <3>9, <5>3
          <5>5. l[z] - 1 = l[y]
            BY ONLY <5>1, <5>2
          <5> QED
            BY ONLY <5>2, <5>3, <5>4, <5>5
        <4>2. CASE q[y] # v + 2
          <5>1. l[z] = l[y] /\ q[z] = q[y] + 1 /\ w = v
            BY ONLY <2>3, <3>5, <3>7, <4>2, Zenon
          <5>2. q[y] \in Nat /\ l[y] \in Nat /\ q[y] <= v + 1
            BY ONLY <3>2, <3>4, <4>2
          <5> QED
            BY ONLY <5>1, <5>2, <3>8, <3>9, <2>5
        <4> QED
          BY ONLY <4>1, <4>2
      <3> QED
        BY ONLY <3>10, <2>1, Zenon DEF b, z, w
    <2> QED
      BY ONLY <2>8, <2>9, y \in Nat
  <1>3. n \in S
    <2>1. n \in Nat
      BY <1>0
    <2> HIDE DEF S
    <2> QED
      BY <2>1, <1>1, <1>2, Induction
  <1> QED
    BY <1>0, <1>3

-----------------------------------------------------------------------------
(* The reader                                                              *)

\* Text up to and with its first x is a beginning of it, and all of it where it
\* does not end with an x.
LEMMA UpToIs ==
  ASSUME NEW text \in Seq(Json!Symbol), NEW x, 1 <= Len(text)
  PROVE  LET n == Len(UpTo(text, x))
         IN  /\ n \in 1 .. Len(text) /\ \A i \in 1 .. n : UpTo(text, x)[i] = text[i]
             /\ \A i \in 1 .. n : text[i] = x => i = n
             /\ text[n] # x => n = Len(text)
  <1> DEFINE ends == {i \in DOMAIN text : text[i] = x}
             k == Min(ends)
             u == UpTo(text, x)
  <1>1. DOMAIN text = 1 .. Len(text) /\ Len(text) \in Nat
          /\ \A i \in 1 .. Len(text) : text[i] \in Json!Symbol
    OBVIOUS
  <1>2. CASE ends = {}
    <2>1. u = text
      BY ONLY <1>2, Zenon DEF UpTo
    <2>2. \A i \in 1 .. Len(text) : text[i] # x
      BY ONLY <1>1, <1>2
    <2>3. Len(text) \in 1 .. Len(text)
      BY ONLY <1>1, 1 <= Len(text)
    <2> HIDE DEF ends, u
    <2> QED
      BY ONLY <2>1, <2>2, <2>3, Zenon DEF u
  <1>3. CASE ends # {}
    <2>1. ends \subseteq Nat
      BY ONLY <1>1
    <2>2. k \in ends /\ \A y \in ends : k <= y
      <3> HIDE DEF ends
      <3> QED
        BY ONLY <1>3, <2>1, MinIs, Zenon
    <2>3. k \in 1 .. Len(text) /\ text[k] = x
      BY ONLY <1>1, <2>2
    <2>4. u = SubSeq(text, 1, k)
      BY ONLY <1>3, Zenon DEF UpTo
    <2> HIDE DEF k
    <2>5. k \in Int /\ 1 \in Int /\ 1 <= k /\ k - 1 + 1 = k /\ \A i \in 1 .. k : 1 + i - 1 = i
            /\ i \in 1 .. Len(text)
      BY ONLY <1>1, <2>3
    <2>6. /\ Len(SubSeq(text, 1, k)) = IF 1 <= k THEN k - 1 + 1 ELSE 0
          /\ \A i \in 1 .. k - 1 + 1 : SubSeq(text, 1, k)[i] = text[1 + i - 1]
      BY ONLY <1>1, <2>5, SubSeqProperties
    <2>7. Len(u) = k /\ \A i \in 1 .. k : u[i] = text[i]
      BY ONLY <2>4, <2>5, <2>6
    <2>8. \A i \in 1 .. k : text[i] = x => i = k
      <3> SUFFICES ASSUME NEW i \in 1 .. k, text[i] = x PROVE i = k
        OBVIOUS
      <3>1. i \in ends
        BY ONLY <1>1, <2>5, text[i] = x
      <3>2. k <= i
        BY ONLY <2>2, <3>1, Zenon
      <3> QED
        BY ONLY <2>5, <3>2
    <2> HIDE DEF ends, u
    <2> QED
      BY ONLY <2>3, <2>7, <2>8, Zenon DEF u
  <1> QED
    BY <1>2, <1>3

\* The stop of Parsed.
Stop == IF side = "client" THEN Json!Newline ELSE Json!NUL

\* What the reader parses: the stream from taken on, up to the first stop, if any.
LEMMA ParsedIs ==
  ASSUME stream \in Seq(Json!Symbol), taken \in Nat, taken < Len(stream)
  PROVE  LET n == Len(Parsed)
         IN  /\ n \in Nat /\ 1 <= n /\ taken + n <= Len(stream)
             /\ \A d \in 1 .. n : Parsed[d] = stream[taken + d]
             /\ \A d \in 1 .. n : stream[taken + d] = Stop => d = n
             /\ stream[taken + n] # Stop => taken + n = Len(stream)
  <1> DEFINE L == Len(stream)
             text == SubSeq(stream, taken + 1, L)
             n == Len(Parsed)
  <1>1. L \in Nat /\ taken \in Nat /\ taken < L
    OBVIOUS
  <1>2. \A i \in taken + 1 .. L : stream[i] \in Json!Symbol
    OBVIOUS
  <1> HIDE DEF L
  <1>3. taken + 1 \in Int /\ L \in Int /\ taken + 1 <= L /\ L - (taken + 1) + 1 = L - taken
    BY ONLY <1>1
  <1>4. /\ text \in Seq(Json!Symbol)
        /\ Len(text) = IF taken + 1 <= L THEN L - (taken + 1) + 1 ELSE 0
        /\ \A i \in 1 .. L - (taken + 1) + 1 : text[i] = stream[(taken + 1) + i - 1]
    BY ONLY <1>2, <1>3, SubSeqProperties
  <1>5. Len(text) = L - taken /\ 1 <= Len(text)
    BY ONLY <1>1, <1>4
  <1>6. \A i \in 1 .. Len(text) : text[i] = stream[taken + i]
    <2> TAKE i \in 1 .. Len(text)
    <2>1. i \in 1 .. L - (taken + 1) + 1 /\ (taken + 1) + i - 1 = taken + i
      BY ONLY <1>1, <1>5, i \in 1 .. Len(text)
    <2> QED
      BY ONLY <1>4, <2>1
  <1>7. Parsed = UpTo(text, Stop)
    BY DEF Parsed, Stop, L
  <1> HIDE DEF text
  <1>8. /\ n \in 1 .. Len(text) /\ \A i \in 1 .. n : Parsed[i] = text[i]
        /\ \A i \in 1 .. n : text[i] = Stop => i = n
        /\ text[n] # Stop => n = Len(text)
    <2> DEFINE u == UpTo(text, Stop)
    <2>1. LET k == Len(u)
          IN  /\ k \in 1 .. Len(text) /\ \A i \in 1 .. k : u[i] = text[i]
              /\ \A i \in 1 .. k : text[i] = Stop => i = k
              /\ text[k] # Stop => k = Len(text)
      BY ONLY <1>4, <1>5, UpToIs, Zenon
    <2>2. Parsed = u
      BY ONLY <1>7
    <2> HIDE DEF u
    <2> QED
      BY ONLY <2>1, <2>2, Zenon DEF n
  <1> HIDE DEF n
  <1>9. n \in Nat /\ 1 <= n /\ taken + n <= L /\ n \in 1 .. n
          /\ \A i \in 1 .. n : i \in 1 .. Len(text)
    BY ONLY <1>1, <1>5, <1>8
  <1>10. /\ \A d \in 1 .. n : Parsed[d] = stream[taken + d]
         /\ \A d \in 1 .. n : stream[taken + d] = Stop => d = n
    BY ONLY <1>6, <1>8, <1>9, Zenon
  <1>11. stream[taken + n] # Stop => taken + n = L
    <2>1. stream[taken + n] # Stop => n = Len(text)
      BY ONLY <1>6, <1>8, <1>9, Zenon
    <2> QED
      BY ONLY <2>1, <1>1, <1>5, <1>9
  <1> QED
    BY ONLY <1>9, <1>10, <1>11 DEF n, L

\* What the reader parses consists of symbols.
LEMMA ParsedInSeq ==
  ASSUME stream \in Seq(Json!Symbol), taken \in Nat, taken < Len(stream)
  PROVE  Parsed \in Seq(Json!Symbol)
  <1> DEFINE text == SubSeq(stream, taken + 1, Len(stream))
  <1>1. /\ taken + 1 \in Int /\ Len(stream) \in Int
        /\ \A i \in taken + 1 .. Len(stream) : stream[i] \in Json!Symbol
    OBVIOUS
  <1>2. text \in Seq(Json!Symbol)
    BY ONLY <1>1, SubSeqProperties
  <1>3. Parsed = UpTo(text, Stop)
    BY DEF Parsed, Stop
  <1> HIDE DEF text
  <1> DEFINE ends == {i \in DOMAIN text : text[i] = Stop}
             k == Min(ends)
  <1>4. CASE ends = {}
    BY ONLY <1>2, <1>3, <1>4, Zenon DEF UpTo
  <1>5. CASE ends # {}
    <2>1. DOMAIN text = 1 .. Len(text) /\ Len(text) \in Nat
            /\ \A i \in 1 .. Len(text) : text[i] \in Json!Symbol
      BY <1>2
    <2>2. ends \subseteq Nat
      BY ONLY <2>1
    <2>3. k \in ends
      <3> HIDE DEF ends
      <3> QED
        BY ONLY <1>5, <2>2, MinIs, Zenon
    <2>4. k \in 1 .. Len(text)
      BY ONLY <2>1, <2>3
    <2>5. Parsed = SubSeq(text, 1, k)
      BY ONLY <1>3, <1>5, Zenon DEF UpTo
    <2> HIDE DEF k
    <2>6. 1 \in Int /\ k \in Int /\ \A i \in 1 .. k : text[i] \in Json!Symbol
      BY ONLY <2>1, <2>4
    <2> QED
      BY ONLY <2>5, <2>6, SubSeqProperties, Zenon
  <1> QED
    BY <1>4, <1>5

\* What there is of the message that the next read begins in.
LEMMA ParsedLetters ==
  ASSUME NEW l, NEW q, Placed(stream, broadcasts, l, q),
         broadcasts \in Seq(Command), stream \in Seq(Json!Symbol), taken \in Nat,
         NEW m \in Newlines
  PROVE  LET s == taken + 1
             c == broadcasts[l[s]]
         IN  /\ s \in 1 .. Len(stream) /\ l[s] \in 1 .. Len(broadcasts) /\ c \in Command
             /\ q[s] \in 1 .. Size(c) + 2
             /\ Size(c) + 2 <= Len(Parsed) + q[s]
             /\ \A d \in 1 .. Len(Parsed) :
                  (d - 1) + q[s] <= Size(c) + 2 => Parsed[d] = Letter(c, (d - 1) + q[s])
  <1> DEFINE s == taken + 1
             c == broadcasts[l[s]]
             w == Size(c)
             j == q[s]
             n == Len(Parsed)
             L == Len(stream)
  <1>1. L \in Nat /\ taken \in Nat /\ m \in s .. L /\ stream[m] = Json!Newline
    BY DEF Newlines
  <1>2. s \in 1 .. L /\ taken < L /\ s \in Nat
    BY ONLY <1>1
  <1>3. l[s] \in 1 .. Len(broadcasts) /\ j \in 1 .. w + 2
    BY ONLY <1>2, Placed(stream, broadcasts, l, q), Zenon DEF Placed
  <1>4. c \in Command
    BY <1>3
  <1>5. w \in Nat /\ w >= 18
    BY <1>4, SizeIs
  <1>6. /\ n \in Nat /\ 1 <= n /\ taken + n <= L
        /\ \A d \in 1 .. n : Parsed[d] = stream[taken + d]
        /\ \A d \in 1 .. n : stream[taken + d] = Stop => d = n
        /\ stream[taken + n] # Stop => taken + n = L
    BY ONLY <1>1, <1>2, stream \in Seq(Json!Symbol), ParsedIs, Zenon DEF n, L
  <1> HIDE DEF n, w, j, L
  <1>7. ASSUME NEW d \in Nat, s + d <= L, j + d <= w + 2
        PROVE  stream[s + d] = Letter(c, j + d)
    <2>1. l[s + d] = l[s] /\ q[s + d] = j + d
      <3>1. /\ s \in 1 .. Len(stream) /\ d \in Nat /\ s + d <= Len(stream)
            /\ q[s] + d <= Size(broadcasts[l[s]]) + 2
        BY ONLY <1>2, <1>7, Zenon DEF w, j, L
      <3> HIDE DEF s
      <3>2. l[s + d] = l[s] /\ q[s + d] = q[s] + d
        BY ONLY <3>1, Placed(stream, broadcasts, l, q), broadcasts \in Seq(Command),
                stream \in Seq(Json!Symbol), Along
      <3> QED
        BY ONLY <3>2, Zenon DEF j
    <2>2. s + d \in 1 .. L
      BY ONLY <1>1, <1>2, <1>7
    <2> QED
      BY ONLY <2>1, <2>2, Placed(stream, broadcasts, l, q), Zenon DEF Placed, L, c
  <1>8. ASSUME NEW d \in 1 .. n, (d - 1) + j <= w + 2
        PROVE  Parsed[d] = Letter(c, (d - 1) + j)
    <2>1. d - 1 \in Nat /\ s + (d - 1) = taken + d /\ s + (d - 1) <= L /\ j + (d - 1) = (d - 1) + j
          /\ j + (d - 1) <= w + 2
      BY ONLY <1>1, <1>3, <1>5, <1>6, <1>8
    <2>2. stream[s + (d - 1)] = Letter(c, j + (d - 1))
      BY ONLY <1>7, <2>1
    <2> QED
      BY ONLY <1>6, <2>1, <2>2, Zenon
  <1>9. w + 2 <= n + j
    <2> SUFFICES ASSUME ~(w + 2 <= n + j) PROVE FALSE
      OBVIOUS
    <2>1. n - 1 \in Nat /\ s + (n - 1) = taken + n /\ s + (n - 1) <= L /\ j + (n - 1) <= w + 2
          /\ j + (n - 1) \in 1 .. w
      BY ONLY <1>1, <1>3, <1>5, <1>6, ~(w + 2 <= n + j)
    <2>2. stream[taken + n] = Letter(c, j + (n - 1))
      BY ONLY <1>7, <2>1
    <2>3. stream[taken + n] \notin {Json!Newline, Json!NUL}
      BY ONLY <1>4, <2>1, <2>2, NoNewlineWithin, Zenon DEF w
    <2>4. taken + n = L
      BY ONLY <1>6, <2>3, Zenon DEF Stop
    <2> DEFINE d == m - s
    <2>5. d \in Nat /\ s + d = m /\ s + d <= L /\ j + d <= w + 2 /\ j + d \in 1 .. w
      BY ONLY <1>1, <1>3, <1>5, <1>6, <2>4, ~(w + 2 <= n + j)
    <2> HIDE DEF d
    <2>6. stream[m] = Letter(c, j + d)
      BY ONLY <1>7, <2>5
    <2> QED
      BY ONLY <1>1, <1>4, <2>5, <2>6, NoNewlineWithin, Zenon DEF w
  <1> QED
    BY ONLY <1>2, <1>3, <1>4, <1>8, <1>9, Zenon DEF w, j, n, L

\* Only a whole line is a text.
LEMMA OnlyWholeLines ==
  ASSUME NEW l, NEW q, Placed(stream, broadcasts, l, q),
         broadcasts \in Seq(Command), stream \in Seq(Json!Symbol), taken \in Nat,
         NEW m \in Newlines, Json!Accepts(Parsed)
  PROVE  q[taken + 1] = 1
  <1> DEFINE c == broadcasts[l[taken + 1]]
             j == q[taken + 1]
             n == Len(Parsed)
  <1>1. /\ taken + 1 \in 1 .. Len(stream) /\ c \in Command /\ j \in 1 .. Size(c) + 2
        /\ Size(c) + 2 <= n + j
        /\ \A d \in 1 .. n : (d - 1) + j <= Size(c) + 2 => Parsed[d] = Letter(c, (d - 1) + j)
    BY ParsedLetters
  <1>2. n \in Nat /\ 1 <= n
    <2>1. taken < Len(stream)
      BY <1>1
    <2> QED
      BY ONLY <2>1, stream \in Seq(Json!Symbol), taken \in Nat, ParsedIs, Zenon
  <1>3. Size(c) \in Nat
    BY <1>1, SizeIs
  <1> HIDE DEF c, j
  <1>4. j \in 2 .. Size(c) + 2 => ~Json!Accepts(Parsed)
    BY ONLY <1>1, <1>2, RestRefused, Zenon
  <1>5. j = 1 \/ j \in 2 .. Size(c) + 2
    BY ONLY <1>1, <1>3
  <1> QED
    BY <1>4, <1>5 DEF j

\* A whole line is a text, that of its message.
LEMMA WholeLines ==
  ASSUME NEW l, NEW q, Placed(stream, broadcasts, l, q),
         broadcasts \in Seq(Command), stream \in Seq(Json!Symbol), taken \in Nat,
         NEW m \in Newlines, q[taken + 1] = 1
  PROVE  /\ l[taken + 1] \in 1 .. Len(broadcasts)
         /\ Json!Accepts(Parsed) /\ Message(Parsed) = Text(broadcasts[l[taken + 1]])
  <1> DEFINE s == taken + 1
             c == broadcasts[l[s]]
             w == Size(c)
             n == Len(Parsed)
  <1>1. /\ s \in 1 .. Len(stream) /\ c \in Command /\ l[s] \in 1 .. Len(broadcasts)
        /\ w + 2 <= n + 1
        /\ \A d \in 1 .. n : (d - 1) + 1 <= w + 2 => Parsed[d] = Letter(c, (d - 1) + 1)
    BY ParsedLetters
  <1>2. w \in Nat /\ w >= 18
    BY <1>1, SizeIs
  <1>3. taken < Len(stream)
    BY <1>1
  <1>4. /\ n \in Nat /\ 1 <= n
        /\ \A d \in 1 .. n : Parsed[d] = stream[taken + d]
        /\ \A d \in 1 .. n : stream[taken + d] = Stop => d = n
    BY ONLY <1>3, stream \in Seq(Json!Symbol), taken \in Nat, ParsedIs, Zenon
  <1> HIDE DEF n, w, c
  <1>5. \A d \in 1 .. n : d <= w + 2 => Parsed[d] = Letter(c, d)
    <2> TAKE d \in 1 .. n
    <2>1. (d - 1) + 1 = d
      BY ONLY <1>4, d \in 1 .. n
    <2> QED
      BY ONLY <1>1, <2>1, d \in 1 .. n, Zenon
  <1>6. /\ Letter(c, w + 1) = Json!Newline /\ Letter(c, w + 2) = Json!NUL
        /\ \A i \in 1 .. w : Letter(c, i) \notin {Json!Newline, Json!NUL}
    <2>1. w + 1 \in 1 .. w + 2 /\ w + 2 \in 1 .. w + 2
      BY ONLY <1>2
    <2> QED
      BY ONLY <1>1, <2>1, OnlyNewline, NoNewlineWithin, Zenon DEF w
  <1>7. n = w + 1 \/ n = w + 2
    <2>1. n \in Nat /\ w + 1 <= n
      BY ONLY <1>1, <1>2, <1>4
    <2>2. ASSUME n > w + 2 PROVE FALSE
      <3>1. /\ w + 1 \in 1 .. n /\ w + 2 \in 1 .. n /\ w + 1 <= w + 2 /\ w + 2 <= w + 2
            /\ w + 1 # n /\ w + 2 # n
        BY ONLY <2>1, <1>2, <2>2
      <3>2. Parsed[w + 1] = Json!Newline /\ Parsed[w + 2] = Json!NUL
        BY ONLY <1>5, <1>6, <3>1, Zenon
      <3> QED
        BY ONLY <1>4, <3>1, <3>2, Zenon DEF Stop
    <2> QED
      BY ONLY <2>1, <2>2, <1>2
  <1>8. \A i \in 1 .. n : Parsed[i] = Letter(c, i)
    <2>1. \A i \in 1 .. n : i <= w + 2
      BY ONLY <1>2, <1>7
    <2> QED
      BY ONLY <1>5, <2>1, Zenon
  <1>9. Json!Accepts(Parsed)
    <2>1. n \in {w + 1, w + 2}
      BY <1>7
    <2>2. Len(Parsed) \in {Size(c) + 1, Size(c) + 2}
      BY ONLY <2>1, Zenon DEF n, w
    <2>3. \A i \in 1 .. Len(Parsed) : Parsed[i] = Letter(c, i)
      BY ONLY <1>8, Zenon DEF n
    <2> QED
      BY ONLY <1>1, <2>2, <2>3, LineAccepted
  <1>10. Message(Parsed) = Text(c)
    <2> DEFINE ends == {i \in DOMAIN Parsed : Parsed[i] \in {Json!Newline, Json!NUL}}
               k == Min(ends)
               t == Text(c)
    <2>1. DOMAIN Parsed = 1 .. n
      <3>1. Parsed \in Seq(Json!Symbol)
        BY <1>3, ParsedInSeq
      <3> QED
        BY <3>1 DEF n
    <2>2. w + 1 \in ends /\ ends \subseteq Nat
      <3>1. w + 1 \in 1 .. n
        BY ONLY <1>2, <1>7
      <3>2. Parsed[w + 1] = Json!Newline
        BY ONLY <3>1, <1>6, <1>8, Zenon
      <3> QED
        BY ONLY <3>1, <3>2, <2>1, <1>4
    <2>3. \A i \in ends : w + 1 <= i
      <3> SUFFICES ASSUME NEW i \in ends, ~(w + 1 <= i) PROVE FALSE
        OBVIOUS
      <3>1. i \in 1 .. n /\ Parsed[i] \in {Json!Newline, Json!NUL}
        BY ONLY <2>1, i \in ends
      <3>2. i \in 1 .. w
        BY ONLY <3>1, <1>2, <1>4, ~(w + 1 <= i)
      <3> QED
        BY ONLY <3>1, <3>2, <1>6, <1>8, Zenon
    <2>4. Message(Parsed) = SubSeq(Parsed, 1, k - 1)
      BY ONLY <2>2, Zenon DEF Message
    <2>5. k \in ends /\ \A y \in ends : k <= y
      <3> HIDE DEF ends
      <3> QED
        BY ONLY <2>2, MinIs, Zenon
    <2>6. k = w + 1
      <3>1. k <= w + 1 /\ w + 1 <= k /\ k \in Nat
        BY ONLY <2>2, <2>3, <2>5, Zenon
      <3> HIDE DEF k
      <3> QED
        BY ONLY <3>1, <1>2
    <2> HIDE DEF k, ends
    <2>7. Message(Parsed) = SubSeq(Parsed, 1, w)
      <3>1. k - 1 = w
        BY ONLY <2>6, <1>2
      <3> QED
        BY ONLY <2>4, <3>1, Zenon
    <2>8. t \in Seq(Json!Symbol) /\ Len(t) = w
      BY ONLY <1>1, TextIs, Zenon DEF w
    <2>9. \A i \in 1 .. w : Parsed[i] = t[i] /\ t[i] \in Json!Symbol
      <3> SUFFICES ASSUME NEW i \in 1 .. w PROVE Parsed[i] = t[i] /\ t[i] \in Json!Symbol
        OBVIOUS
      <3>1. i \in 1 .. n /\ i <= w
        BY ONLY <1>2, <1>7, i \in 1 .. w
      <3>2. Parsed[i] = t[i]
        BY ONLY <1>8, <3>1, Zenon DEF Letter, w
      <3> HIDE DEF t
      <3>3. t[i] \in Json!Symbol
        BY ONLY <2>8, i \in 1 .. w
      <3> QED
        BY ONLY <3>2, <3>3
    <2> HIDE DEF t
    <2>10. 1 \in Int /\ w \in Int /\ 1 <= w /\ w - 1 + 1 = w /\ \A i \in 1 .. w : 1 + i - 1 = i
      BY ONLY <1>2
    <2>11. /\ SubSeq(Parsed, 1, w) \in Seq(Json!Symbol)
           /\ Len(SubSeq(Parsed, 1, w)) = IF 1 <= w THEN w - 1 + 1 ELSE 0
           /\ \A i \in 1 .. w - 1 + 1 : SubSeq(Parsed, 1, w)[i] = Parsed[1 + i - 1]
      <3>1. \A i \in 1 .. w : Parsed[i] \in Json!Symbol
        BY ONLY <2>9, Zenon
      <3> QED
        BY ONLY <2>10, <3>1, SubSeqProperties
    <2>12. Len(SubSeq(Parsed, 1, w)) = w /\ \A i \in 1 .. w : SubSeq(Parsed, 1, w)[i] = t[i]
      BY ONLY <2>9, <2>10, <2>11, Zenon
    <2>13. SubSeq(Parsed, 1, w) = t
      BY ONLY <2>8, <2>11, <2>12, SeqEqual, Zenon
    <2> QED
      BY ONLY <2>7, <2>13 DEF t
  <1> QED
    BY ONLY <1>1, <1>9, <1>10, Zenon DEF c

-----------------------------------------------------------------------------
(* The invariant                                                           *)

\* The writer has the last of the broadcasts still before it.
Waiting ==
  /\ Len(write_msgs_) <= Len(broadcasts)
  /\ \A k \in 1 .. Len(write_msgs_) :
       write_msgs_[k] = broadcasts[(Len(broadcasts) - Len(write_msgs_)) + k]

\* While the connection lasts, the stream ends where the writer is.
Written(l, q) ==
  LET p == Len(broadcasts) - Len(write_msgs_)
      n == Len(stream)
  IN ~broken =>
       /\ written = "text" =>
            /\ write_msgs_ # <<>> /\ n > 0
            /\ l[n] = p + 1 /\ q[n] = Size(broadcasts[p + 1])
       /\ written = "nothing" =>
            IF n = 0 THEN p = 0 ELSE l[n] = p /\ q[n] = Size(broadcasts[p]) + 2

StreamInv == \E l, q : Placed(stream, broadcasts, l, q) /\ Written(l, q)

WireInv == TypeOK /\ Waiting /\ StreamInv

\* The invariant holds at the start.
LEMMA InitWire == Init => WireInv
  <1> SUFFICES ASSUME Init PROVE WireInv
    OBVIOUS
  <1>1. TypeOK
    <2>1. Len(stream) = 0 /\ stream \in Seq(Json!Symbol) /\ broadcasts \in Seq(Command)
          /\ write_msgs_ \in Seq(Command) /\ used \in Seq({Text(cmd) : cmd \in Command})
          /\ Len(broadcasts) = 0
      BY DEF Init
    <2>2. Len(broadcasts) <= MaxMessages /\ taken \in 0 .. Len(stream)
      BY <2>1, WireAssumption DEF Init
    <2> QED
      BY <2>1, <2>2, Zenon DEF Init, TypeOK
  <1>2. Len(broadcasts) = 0 /\ Len(write_msgs_) = 0 /\ Len(stream) = 0
    BY DEF Init
  <1>3. Waiting
    BY ONLY <1>2 DEF Waiting
  <1>4. Placed(stream, broadcasts, <<>>, <<>>) /\ Written(<<>>, <<>>)
    <2>1. Placed(stream, broadcasts, <<>>, <<>>)
      BY <1>2 DEF Placed
    <2>2. written = "nothing" /\ Len(broadcasts) - Len(write_msgs_) = 0
      BY <1>2 DEF Init
    <2> QED
      BY <1>2, <2>1, <2>2 DEF Written
  <1> QED
    BY ONLY <1>1, <1>3, <1>4, Zenon DEF WireInv, StreamInv

\* What the variables are in a step.
LEMMA WireTypes ==
  ASSUME WireInv
  PROVE  /\ stream \in Seq(Json!Symbol) /\ Len(stream) \in Nat
         /\ broadcasts \in Seq(Command) /\ Len(broadcasts) \in Nat
         /\ write_msgs_ \in Seq(Command) /\ Len(write_msgs_) \in Nat
         /\ Len(write_msgs_) <= Len(broadcasts)
         /\ taken \in 0 .. Len(stream) /\ taken \in Nat
  <1>1. /\ stream \in Seq(Json!Symbol) /\ broadcasts \in Seq(Command)
        /\ write_msgs_ \in Seq(Command) /\ taken \in 0 .. Len(stream)
    BY Zenon DEF WireInv, TypeOK
  <1>2. Len(write_msgs_) <= Len(broadcasts)
    BY Zenon DEF WireInv, Waiting
  <1> QED
    BY <1>1, <1>2

\* deliver() adds a message for the writer and leaves the stream alone.
LEMMA DeliverKeepsWire ==
  ASSUME WireInv, NEW cmd \in Command, Deliver(cmd)
  PROVE  WireInv'
  <1> DEFINE n == Len(broadcasts)
             m == Len(write_msgs_)
  <1>1. /\ stream \in Seq(Json!Symbol) /\ broadcasts \in Seq(Command) /\ n \in Nat
        /\ write_msgs_ \in Seq(Command) /\ m \in Nat /\ m <= n
    BY WireTypes
  <1>2. /\ broadcasts' = Append(broadcasts, cmd) /\ write_msgs_' = Append(write_msgs_, cmd)
        /\ n < MaxMessages
        /\ UNCHANGED <<side, written, stream, taken, reader, used, broken>>
    BY DEF Deliver, readerVars
  <1>3. /\ broadcasts' \in Seq(Command) /\ Len(broadcasts') = n + 1 /\ broadcasts'[n + 1] = cmd
        /\ \A i \in 1 .. n : broadcasts'[i] = broadcasts[i]
    BY ONLY <1>1, <1>2, cmd \in Command, AppendProperties
  <1>4. /\ write_msgs_' \in Seq(Command) /\ Len(write_msgs_') = m + 1 /\ write_msgs_'[m + 1] = cmd
        /\ \A i \in 1 .. m : write_msgs_'[i] = write_msgs_[i]
    BY ONLY <1>1, <1>2, cmd \in Command, AppendProperties
  <1>5. TypeOK'
    <2>1. Len(broadcasts') <= MaxMessages
      BY ONLY <1>1, <1>2, <1>3, WireAssumption
    <2> QED
      BY ONLY WireInv, <1>2, <1>3, <1>4, <2>1, Zenon DEF WireInv, TypeOK
  <1> HIDE DEF n, m
  <1>6. (n + 1) - (m + 1) = n - m /\ m + 1 <= n + 1
    BY ONLY <1>1
  <1>7. Waiting'
    <2>1. \A k \in 1 .. m + 1 : write_msgs_'[k] = broadcasts'[(n - m) + k]
      <3> TAKE k \in 1 .. m + 1
      <3>1. CASE k = m + 1
        <4>1. (n - m) + k = n + 1
          BY ONLY <1>1, <3>1
        <4> QED
          BY ONLY <1>3, <1>4, <3>1, <4>1, Zenon
      <3>2. CASE k # m + 1
        <4>1. k \in 1 .. m /\ (n - m) + k \in 1 .. n
          BY ONLY <1>1, <3>2, k \in 1 .. m + 1
        <4>2. write_msgs_[k] = broadcasts[(n - m) + k]
          BY ONLY WireInv, <4>1, Zenon DEF WireInv, Waiting, n, m
        <4> QED
          BY ONLY <1>3, <1>4, <4>1, <4>2, Zenon
      <3> QED
        BY <3>1, <3>2
    <2> QED
      BY ONLY <1>3, <1>4, <1>6, <2>1, Zenon DEF Waiting
  <1>8. StreamInv'
    <2>1. PICK l, q : Placed(stream, broadcasts, l, q) /\ Written(l, q)
      BY Zenon DEF WireInv, StreamInv
    <2>2. Placed(stream, broadcasts', l, q)
      <3>1. Len(broadcasts) <= Len(broadcasts') /\ Len(stream) \in Nat /\ Len(stream) <= Len(stream)
        BY <1>1, <1>3 DEF n
      <3>2. \A i \in 1 .. Len(stream) : stream[i] = stream[i]
        OBVIOUS
      <3> QED
        BY ONLY <1>1, <1>3, <2>1, <3>1, <3>2, PrefixPlaced DEF n
    <2>3. Written(l, q)'
      <3> DEFINE p == n - m
                 L == Len(stream)
      <3>1. /\ Len(broadcasts') - Len(write_msgs_') = p /\ p \in Nat
        BY ONLY <1>1, <1>3, <1>4, <1>6
      <3>2. /\ L \in Nat
            /\ ~broken /\ written = "text" =>
                 /\ write_msgs_ # <<>> /\ L > 0
                 /\ l[L] = p + 1 /\ q[L] = Size(broadcasts[p + 1])
            /\ ~broken /\ written = "nothing" =>
                 IF L = 0 THEN p = 0 ELSE l[L] = p /\ q[L] = Size(broadcasts[p]) + 2
        <4>1. L \in Nat
          BY WireTypes
        <4> QED
          BY ONLY <4>1, <2>1, Zenon DEF Written, n, m
      <3> HIDE DEF p
      <3>3. L # 0 => l[L] \in 1 .. n
        <4>1. L # 0 => L \in 1 .. L
          BY ONLY <3>2
        <4> QED
          BY ONLY <4>1, <2>1, Zenon DEF Placed, n
      <3>4. write_msgs_' # <<>>
        BY ONLY <1>1, <1>4
      <3>5. L > 0 => L # 0
        BY ONLY <3>2
      <3>6. /\ ~broken /\ written = "text" => broadcasts'[p + 1] = broadcasts[p + 1]
            /\ ~broken /\ written = "nothing" /\ L # 0 => broadcasts'[p] = broadcasts[p]
        BY ONLY <1>3, <3>2, <3>3, <3>5, Zenon
      <3> QED
        BY ONLY <1>2, <3>1, <3>2, <3>4, <3>5, <3>6, Zenon DEF Written
    <2> QED
      BY ONLY <1>2, <2>2, <2>3, Zenon DEF StreamInv
  <1> QED
    BY ONLY <1>5, <1>7, <1>8, Zenon DEF WireInv

\* A connection that breaks loses the end of the stream, never what was read.
LEMMA BreaksKeepsWire ==
  ASSUME WireInv, Breaks
  PROVE  /\ WireInv' /\ Len(stream') >= taken
         /\ \A i \in 1 .. taken : stream'[i] = stream[i]
  <1>1. PICK n \in taken .. Len(stream) : stream' = SubSeq(stream, 1, n)
    BY Zenon DEF Breaks
  <1>2. broken' = TRUE /\ UNCHANGED <<side, broadcasts, write_msgs_, written, taken, reader, used>>
    BY DEF Breaks, writerVars, readerVars
  <1>3. /\ stream \in Seq(Json!Symbol) /\ Len(stream) \in Nat /\ broadcasts \in Seq(Command)
        /\ taken \in Nat /\ taken <= Len(stream) /\ Len(broadcasts) \in Nat
    BY WireTypes
  <1>4. /\ 1 \in Int /\ n \in Int /\ n \in Nat /\ n <= Len(stream) /\ taken <= n
        /\ \A i \in 1 .. n : stream[i] \in Json!Symbol
        /\ n - 1 + 1 = n /\ \A i \in 1 .. n : 1 + i - 1 = i
    BY ONLY <1>1, <1>3
  <1>5. /\ stream' \in Seq(Json!Symbol)
        /\ Len(stream') = IF 1 <= n THEN n - 1 + 1 ELSE 0
        /\ \A i \in 1 .. n - 1 + 1 : stream'[i] = stream[1 + i - 1]
    BY ONLY <1>1, <1>4, SubSeqProperties
  <1>6. Len(stream') = n
    BY ONLY <1>4, <1>5
  <1>7. \A i \in 1 .. n : stream'[i] = stream[i]
    BY ONLY <1>4, <1>5, Zenon
  <1>8. TypeOK'
    <2>1. taken' \in 0 .. Len(stream') /\ broken' \in BOOLEAN
      BY ONLY <1>2, <1>3, <1>4, <1>6
    <2> QED
      BY ONLY WireInv, <1>2, <1>5, <2>1, Zenon DEF WireInv, TypeOK
  <1>9. Waiting'
    BY ONLY WireInv, <1>2, Zenon DEF WireInv, Waiting
  <1>10. StreamInv'
    <2>1. PICK l, q : Placed(stream, broadcasts, l, q)
      BY Zenon DEF WireInv, StreamInv
    <2>2. Placed(stream', broadcasts, l, q)
      <3>1. /\ Len(stream') \in Nat /\ Len(stream') <= Len(stream)
                 /\ Len(broadcasts) <= Len(broadcasts)
            /\ \A i \in 1 .. Len(broadcasts) : broadcasts[i] = broadcasts[i]
        BY ONLY <1>3, <1>4, <1>6
      <3>2. \A i \in 1 .. Len(stream') : stream'[i] = stream[i]
        BY ONLY <1>6, <1>7, Zenon
      <3> QED
        BY ONLY <1>3, <2>1, <3>1, <3>2, PrefixPlaced
    <2>3. Written(l, q)'
      BY ONLY <1>2, Zenon DEF Written
    <2> QED
      BY ONLY <1>2, <2>2, <2>3, Zenon DEF StreamInv
  <1>11. Len(stream') >= taken /\ \A i \in 1 .. taken : stream'[i] = stream[i]
    <2>1. \A i \in 1 .. taken : i \in 1 .. n
      BY ONLY <1>3, <1>4
    <2> QED
      BY ONLY <1>4, <1>6, <1>7, <2>1, <1>3
  <1> QED
    BY ONLY <1>8, <1>9, <1>10, <1>11, Zenon DEF WireInv

\* The front of the writer's messages.
LEMMA NextToWrite ==
  ASSUME WireInv, write_msgs_ # <<>>
  PROVE  LET p == Len(broadcasts) - Len(write_msgs_)
         IN  /\ p \in Nat /\ p + 1 \in 1 .. Len(broadcasts)
             /\ Head(write_msgs_) = broadcasts[p + 1] /\ broadcasts[p + 1] \in Command
  <1> DEFINE n == Len(broadcasts)
             m == Len(write_msgs_)
             p == n - m
  <1>1. /\ broadcasts \in Seq(Command) /\ n \in Nat
        /\ write_msgs_ \in Seq(Command) /\ m \in Nat /\ m <= n
    BY WireTypes
  <1>2. m > 0 /\ Head(write_msgs_) = write_msgs_[1]
    BY <1>1
  <1> HIDE DEF n, m
  <1>3. p \in Nat /\ p + 1 \in 1 .. n /\ 1 \in 1 .. m
    BY ONLY <1>1, <1>2
  <1>4. write_msgs_[1] = broadcasts[p + 1]
    BY ONLY WireInv, <1>3, Zenon DEF WireInv, Waiting, n, m
  <1>5. broadcasts[p + 1] \in Command
    BY ONLY <1>1, <1>3 DEF n
  <1> QED
    BY ONLY <1>2, <1>3, <1>4, <1>5, Zenon DEF n, m

\* The first write appends the text of the message that is next.
LEMMA WriteTextKeepsWire ==
  ASSUME WireInv, WriteText
  PROVE  WireInv' /\ Len(stream') >= taken /\ \A i \in 1 .. taken : stream'[i] = stream[i]
  <1> DEFINE p == Len(broadcasts) - Len(write_msgs_)
             c == broadcasts[p + 1]
             e == Text(c)
             L == Len(stream)
  <1>1. /\ ~broken /\ write_msgs_ # <<>> /\ written = "nothing"
        /\ stream' = stream \o Text(Head(write_msgs_)) /\ written' = "text"
        /\ UNCHANGED <<side, broadcasts, write_msgs_, taken, reader, used, broken>>
    BY DEF WriteText, readerVars
  <1>2. /\ p \in Nat /\ p + 1 \in 1 .. Len(broadcasts) /\ Head(write_msgs_) = c /\ c \in Command
    BY ONLY WireInv, <1>1, NextToWrite, Zenon
  <1>3. /\ stream \in Seq(Json!Symbol) /\ L \in Nat /\ broadcasts \in Seq(Command)
        /\ taken \in 0 .. L
    BY WireTypes
  <1> HIDE DEF c, p
  <1>4. e \in Seq(Json!Symbol) /\ Len(e) = Size(c) /\ Size(c) \in Nat /\ Size(c) >= 18
    BY <1>2, TextIs, SizeIs
  <1>5. \A d \in 1 .. Len(e) : e[d] = Letter(c, 0 + d)
    <2> TAKE d \in 1 .. Len(e)
    <2>1. 0 + d = d /\ d <= Size(c)
      BY ONLY <1>4, d \in 1 .. Len(e)
    <2> QED
      BY ONLY <2>1, Zenon DEF Letter
  <1> HIDE DEF e
  <1>6. stream' = stream \o e
    BY ONLY <1>1, <1>2, Zenon DEF e
  <1>7. /\ stream' \in Seq(Json!Symbol) /\ Len(stream') = L + Len(e)
        /\ \A i \in 1 .. L + Len(e) : stream'[i] = IF i <= L THEN stream[i] ELSE e[i - L]
    BY ONLY <1>3, <1>4, <1>6, Joined
  <1>8. Len(stream') >= taken /\ \A i \in 1 .. taken : stream'[i] = stream[i]
    <2>1. \A i \in 1 .. taken : i \in 1 .. L + Len(e) /\ i <= L
      BY ONLY <1>3, <1>4
    <2>2. Len(stream') >= taken
      BY ONLY <1>3, <1>4, <1>7
    <2> QED
      BY ONLY <1>7, <2>1, <2>2, Zenon
  <1>9. TypeOK'
    <2>1. taken' \in 0 .. Len(stream') /\ written' \in {"nothing", "text"}
      BY ONLY <1>1, <1>3, <1>4, <1>7
    <2> QED
      BY ONLY WireInv, <1>1, <1>7, <2>1, Zenon DEF WireInv, TypeOK
  <1>10. Waiting'
    BY ONLY WireInv, <1>1, Zenon DEF WireInv, Waiting
  <1>11. StreamInv'
    <2>1. PICK l, q : Placed(stream, broadcasts, l, q) /\ Written(l, q)
      BY Zenon DEF WireInv, StreamInv
    <2>2. IF L = 0 THEN p = 0 ELSE l[L] = p /\ q[L] = Size(broadcasts[p]) + 2
      BY ONLY <1>1, <2>1, Zenon DEF Written, p, L
    <2>3. 0 + Len(e) <= Size(c) + 2 /\ 0 \in Nat /\ (p + 1) - 1 = p /\ 0 = 0
      BY ONLY <1>2, <1>4
    <2> DEFINE r == p + 1
    <2>4. EndsAt(stream, broadcasts, l, q, r, 0)
      <3>1. L > 0 => L # 0
        BY ONLY <1>3
      <3>2. p = 0 => r = 1
        OBVIOUS
      <3>3. r - 1 = p
        BY ONLY <2>3
      <3> HIDE DEF r
      <3> QED
        BY ONLY <2>2, <3>1, <3>2, <3>3, Zenon DEF L, EndsAt
    <2>5. PICK l2, q2 : PlacedUpTo(stream \o e, broadcasts, l2, q2, r, 0 + Len(e))
      <3>1. c = broadcasts[r]
        BY DEF c
      <3> HIDE DEF r
      <3>2. r \in 1 .. Len(broadcasts)
        BY ONLY <1>2 DEF r
      <3>3. 0 + Len(e) <= Size(broadcasts[r]) + 2 /\ Len(e) > 0 /\ 0 \in Nat
        BY ONLY <2>3, <1>4, <3>1
      <3>4. \A d \in 1 .. Len(e) : e[d] = Letter(broadcasts[r], 0 + d)
        BY ONLY <1>5, <3>1
      <3> QED
        BY ONLY <1>3, <1>4, <2>1, <2>4, <3>2, <3>3, <3>4, Extended
    <2>6. Written(l2, q2)'
      <3>1. /\ Len(stream') > 0 /\ l2[Len(stream')] = p + 1
                 /\ q2[Len(stream')] = Size(broadcasts[p + 1])
        <4>1. Len(e) > 0 /\ 0 + Len(e) = Size(c) /\ Len(stream') > 0
          BY ONLY <1>3, <1>4, <1>7
        <4> QED
          BY ONLY <4>1, <1>6, <1>7, <2>5, Zenon DEF L, c, PlacedUpTo
      <3>2. written' # "nothing"
        BY <1>1
      <3> QED
        BY ONLY <1>1, <3>1, <3>2, Zenon DEF Written, p
    <2> QED
      BY ONLY <1>1, <1>6, <2>5, <2>6, Zenon DEF StreamInv, PlacedUpTo
  <1> QED
    BY ONLY <1>8, <1>9, <1>10, <1>11, Zenon DEF WireInv

\* The second write completes the line of the message.
LEMMA WriteNewlineKeepsWire ==
  ASSUME WireInv, WriteNewline
  PROVE  WireInv' /\ Len(stream') >= taken /\ \A i \in 1 .. taken : stream'[i] = stream[i]
  <1> DEFINE e == <<Json!Newline, Json!NUL>>
             L == Len(stream)
             n == Len(broadcasts)
             m == Len(write_msgs_)
             p == n - m
             c == broadcasts[p + 1]
  <1>1. /\ ~broken /\ written = "text" /\ written' = "nothing"
        /\ stream' = stream \o e /\ write_msgs_' = Tail(write_msgs_)
        /\ UNCHANGED <<side, broadcasts, taken, reader, used, broken>>
    BY DEF WriteNewline, readerVars
  <1>2. PICK l, q : Placed(stream, broadcasts, l, q) /\ Written(l, q)
    BY Zenon DEF WireInv, StreamInv
  <1>3. /\ write_msgs_ # <<>> /\ L > 0 /\ l[L] = p + 1 /\ q[L] = Size(c)
    BY ONLY <1>1, <1>2, Zenon DEF Written
  <1>4. /\ p \in Nat /\ p + 1 \in 1 .. n /\ c \in Command
    BY ONLY WireInv, <1>3, NextToWrite, Zenon
  <1>5. /\ stream \in Seq(Json!Symbol) /\ L \in Nat /\ broadcasts \in Seq(Command)
        /\ taken \in 0 .. L /\ write_msgs_ \in Seq(Command) /\ m \in Nat /\ n \in Nat /\ m <= n
    BY WireTypes
  <1>6. /\ Tail(write_msgs_) \in Seq(Command) /\ Len(Tail(write_msgs_)) = m - 1 /\ m > 0
        /\ \A k \in 1 .. m - 1 : Tail(write_msgs_)[k] = write_msgs_[k + 1]
    <2>1. Tail(write_msgs_) \in Seq(Command) /\ Len(Tail(write_msgs_)) = m - 1
      BY <1>3, <1>5, HeadTailProperties
    <2>2. m > 0
      BY <1>3, <1>5
    <2>3. \A k \in 1 .. m - 1 : Tail(write_msgs_)[k] = write_msgs_[k + 1]
      BY <1>3, <1>5
    <2> QED
      BY ONLY <2>1, <2>2, <2>3
  <1>7. e \in Seq(Json!Symbol) /\ Len(e) = 2 /\ e[1] = Json!Newline /\ e[2] = Json!NUL
    BY DEF Json!Symbol, Json!Newline, Json!NUL
  <1>8. Size(c) \in Nat /\ Size(c) >= 18
    BY <1>4, SizeIs
  <1> HIDE DEF c, p, e, n, m
  <1>9. \A d \in 1 .. Len(e) : e[d] = Letter(c, Size(c) + d)
    <2> TAKE d \in 1 .. Len(e)
    <2>1. d = 1 \/ d = 2
      BY ONLY <1>7, d \in 1 .. Len(e)
    <2>2. /\ ~(Size(c) + 1 <= Size(c)) /\ ~(Size(c) + 2 <= Size(c)) /\ Size(c) + 2 # Size(c) + 1
      BY ONLY <1>8
    <2> QED
      BY ONLY <1>7, <2>1, <2>2, Zenon DEF Letter
  <1>10. /\ stream' \in Seq(Json!Symbol) /\ Len(stream') = L + Len(e)
         /\ \A i \in 1 .. L + Len(e) : stream'[i] = IF i <= L THEN stream[i] ELSE e[i - L]
    BY ONLY <1>1, <1>5, <1>7, Joined
  <1>11. Len(stream') >= taken /\ \A i \in 1 .. taken : stream'[i] = stream[i]
    <2>1. \A i \in 1 .. taken : i \in 1 .. L + Len(e) /\ i <= L
      BY ONLY <1>5, <1>7
    <2>2. Len(stream') >= taken
      BY ONLY <1>5, <1>7, <1>10
    <2> QED
      BY ONLY <1>10, <2>1, <2>2, Zenon
  <1>12. TypeOK'
    <2>1. taken' \in 0 .. Len(stream') /\ written' \in {"nothing", "text"}
      BY ONLY <1>1, <1>5, <1>7, <1>10
    <2>2. write_msgs_' \in Seq(Command)
      BY ONLY <1>1, <1>6, Zenon
    <2> QED
      BY ONLY WireInv, <1>1, <1>10, <2>1, <2>2, Zenon DEF WireInv, TypeOK
  <1>13. Len(write_msgs_') = m - 1 /\ n - (m - 1) = p + 1 /\ m - 1 <= n
    BY ONLY <1>1, <1>5, <1>6 DEF p
  <1>14. Waiting'
    <2>1. \A k \in 1 .. m - 1 : write_msgs_'[k] = broadcasts[(p + 1) + k]
      <3> TAKE k \in 1 .. m - 1
      <3>1. k + 1 \in 1 .. m /\ (n - m) + (k + 1) = (p + 1) + k
        BY ONLY <1>5, <1>6, k \in 1 .. m - 1 DEF p
      <3>2. write_msgs_[k + 1] = broadcasts[(n - m) + (k + 1)]
        BY ONLY WireInv, <3>1, Zenon DEF WireInv, Waiting, n, m
      <3> QED
        BY ONLY <1>1, <1>6, <3>1, <3>2, Zenon
    <2> QED
      BY ONLY <1>1, <1>13, <2>1, Zenon DEF Waiting, n
  <1>15. StreamInv'
    <2> DEFINE r == p + 1
               w == Size(broadcasts[r])
    <2>1. c = broadcasts[r] /\ w = Size(c)
      BY DEF c
    <2>2. /\ r \in 1 .. Len(broadcasts) /\ w \in Nat /\ w > 0 /\ w + Len(e) <= w + 2
          /\ Len(stream) > 0 /\ Len(stream) # 0 /\ l[Len(stream)] = r /\ q[Len(stream)] = w
      <3>1. w \in Nat /\ w > 0 /\ w + Len(e) <= w + 2
        BY ONLY <1>7, <1>8, <2>1
      <3>2. Len(stream) > 0 /\ Len(stream) # 0
        BY ONLY <1>3, <1>5
      <3> QED
        BY ONLY <1>3, <1>4, <2>1, <3>1, <3>2, Zenon DEF n
    <2>3. \A d \in 1 .. Len(e) : e[d] = Letter(broadcasts[r], w + d)
      BY ONLY <1>9, <2>1
    <2> HIDE DEF r, w
    <2>4. PICK l2, q2 : PlacedUpTo(stream \o e, broadcasts, l2, q2, r, w + Len(e))
      <3>1. w + Len(e) <= Size(broadcasts[r]) + 2
        BY ONLY <2>2 DEF w
      <3>2. EndsAt(stream, broadcasts, l, q, r, w)
        BY ONLY <2>2, Zenon DEF EndsAt
      <3>3. Len(e) > 0
        BY ONLY <1>7
      <3> QED
        BY ONLY <1>2, <1>5, <1>7, <2>2, <2>3, <3>1, <3>2, <3>3, Extended
    <2>5. Written(l2, q2)'
      <3>1. Len(stream') # 0 /\ l2[Len(stream')] = r /\ q2[Len(stream')] = Size(broadcasts[r]) + 2
        <4>1. Len(e) > 0 /\ w + Len(e) = w + 2 /\ Len(stream') # 0
          BY ONLY <1>5, <1>7, <1>10, <2>2
        <4> QED
          BY ONLY <4>1, <1>1, <1>10, <2>4, Zenon DEF L, w, PlacedUpTo
      <3>2. written' # "text"
        BY <1>1
      <3>3. Len(broadcasts') - Len(write_msgs_') = r
        BY ONLY <1>1, <1>13, Zenon DEF r, n
      <3> QED
        BY ONLY <1>1, <3>1, <3>2, <3>3, Zenon DEF Written
    <2> QED
      BY ONLY <1>1, <2>4, <2>5, Zenon DEF StreamInv, PlacedUpTo
  <1> QED
    BY ONLY <1>11, <1>12, <1>14, <1>15, Zenon DEF WireInv

\* A read gets a newline, and no more than there is.
LEMMA ReadsSome ==
  ASSUME WireInv, ReadsLine
  PROVE  /\ taken' \in Nat /\ taken' <= Len(stream)
         /\ \E m \in Newlines : taken < m /\ m <= taken'
  <1>1. stream \in Seq(Json!Symbol) /\ Len(stream) \in Nat /\ taken \in Nat
    BY WireTypes
  <1> DEFINE a == Min(Newlines)
             B == {Len(stream), taken + MaxBuffer}
             b == Min(B)
  <1>2. Newlines # {} /\ taken' \in a .. b
    BY DEF ReadsLine
  <1>3. Newlines \subseteq Nat /\ \A i \in Newlines : taken < i
    BY <1>1 DEF Newlines
  <1>4. a \in Newlines
    BY ONLY <1>2, <1>3, MinIs
  <1>5. b \in Nat /\ b <= Len(stream)
    <2>1. B \subseteq Nat /\ B # {} /\ Len(stream) \in B
      BY ONLY <1>1, WireAssumption
    <2> HIDE DEF B
    <2>2. b \in B /\ b <= Len(stream)
      BY ONLY <2>1, MinIs
    <2> QED
      BY ONLY <2>1, <2>2
  <1> HIDE DEF a, b
  <1>6. a \in Nat /\ taken < a
    BY <1>3, <1>4
  <1>7. taken' \in Nat /\ taken' <= Len(stream) /\ a <= taken'
    BY ONLY <1>1, <1>2, <1>5, <1>6
  <1> QED
    BY ONLY <1>4, <1>6, <1>7, Zenon

\* async_read_until() comes back with a line.
LEMMA ThereIsALine ==
  ASSUME WireInv, ReadsLine
  PROVE  \E m : m \in Newlines
  BY DEF ReadsLine

\* Where the stream does not change, only what was read of it does.
LEMMA ReadKeepsStream ==
  ASSUME WireInv, UNCHANGED <<broadcasts, write_msgs_, written, stream>>, broken' \in {TRUE, broken}
  PROVE  Waiting' /\ StreamInv'
  <1>1. Waiting'
    BY Zenon DEF WireInv, Waiting
  <1>2. PICK l, q : Placed(stream, broadcasts, l, q) /\ Written(l, q)
    BY Zenon DEF WireInv, StreamInv
  <1>3. Written(l, q)'
    <2>1. ~broken' => ~broken
      BY Zenon
    <2> QED
      BY <1>2, <2>1, Zenon DEF Written
  <1> QED
    BY <1>1, <1>2, <1>3, Zenon DEF StreamInv

\* What a usable line is.
LEMMA UsesTheNext ==
  ASSUME WireInv, ReadsLine, Json!Accepts(Parsed)
  PROVE  /\ Count(stream, taken) + 1 \in 1 .. Len(broadcasts)
         /\ Message(Parsed) = Text(broadcasts[Count(stream, taken) + 1])
         /\ broadcasts[Count(stream, taken) + 1] \in Command
  <1>1. /\ stream \in Seq(Json!Symbol) /\ Len(stream) \in Nat /\ taken \in Nat
             /\ taken \in 0 .. Len(stream)
        /\ broadcasts \in Seq(Command)
    BY WireTypes
  <1>2. PICK l, q : Placed(stream, broadcasts, l, q)
    BY Zenon DEF WireInv, StreamInv
  <1>3. PICK m : m \in Newlines
    BY ThereIsALine
  <1> DEFINE s == taken + 1
             n == Count(stream, taken)
  <1>4. q[s] = 1
    BY ONLY <1>1, <1>2, <1>3, Json!Accepts(Parsed), OnlyWholeLines
  <1>5. l[s] \in 1 .. Len(broadcasts) /\ Message(Parsed) = Text(broadcasts[l[s]])
    BY ONLY <1>1, <1>2, <1>3, <1>4, WholeLines
  <1>6. s \in 1 .. Len(stream)
    BY ONLY <1>1, <1>2, <1>3, ParsedLetters, Zenon
  <1>7. n = IF taken = 0 THEN 0 ELSE IF q[taken] > Size(broadcasts[l[taken]]) THEN l[taken]
          ELSE l[taken] - 1
    BY ONLY <1>1, <1>2, CountIs
  <1> HIDE DEF n
  <1>8. l[s] = n + 1
    <2>1. CASE taken = 0
      <3>1. n = 0 /\ s = 1 /\ n + 1 = 1
        BY ONLY <1>7, <2>1
      <3> HIDE DEF s
      <3>2. l[s] = 1
        BY ONLY <1>2, <1>6, <3>1, Zenon DEF Placed
      <3> QED
        BY ONLY <3>1, <3>2
    <2>2. CASE taken # 0
      <3>1. s > 1 /\ s - 1 = taken /\ taken \in 1 .. Len(stream)
        BY ONLY <1>1, <2>2
      <3> HIDE DEF s
      <3>2. /\ l[taken] \in 1 .. Len(broadcasts) /\ q[taken] \in 1 .. Size(broadcasts[l[taken]]) + 2
            /\ IF q[taken] = Size(broadcasts[l[taken]]) + 2
                 THEN l[s] = l[taken] + 1 /\ q[s] = 1
                 ELSE l[s] = l[taken] /\ q[s] = q[taken] + 1
        BY ONLY <1>2, <1>6, <3>1, Zenon DEF Placed
      <3> DEFINE w == Size(broadcasts[l[taken]])
      <3>3. w \in Nat
        BY ONLY <1>1, <3>2, SizeIs
      <3> HIDE DEF w
      <3>4. q[taken] = w + 2 /\ l[s] = l[taken] + 1
        <4>1. q[taken] # w + 2 => q[s] = q[taken] + 1
          BY ONLY <3>2, Zenon DEF w
        <4>2. q[taken] \in Nat /\ q[taken] >= 1
          BY ONLY <3>2, <3>3 DEF w
        <4>3. q[taken] = w + 2
          BY ONLY <1>4, <4>1, <4>2, <3>3
        <4> QED
          BY ONLY <3>2, <4>3, Zenon DEF w
      <3>5. q[taken] > w
        BY ONLY <3>3, <3>4
      <3> QED
        BY ONLY <1>7, <2>2, <3>4, <3>5, Zenon DEF w
    <2> QED
      BY <2>1, <2>2
  <1>9. broadcasts[l[s]] \in Command
    BY ONLY <1>1, <1>5
  <1> QED
    BY ONLY <1>5, <1>8, <1>9 DEF n

\* What the reader uses is a text of a message.
LEMMA UsesKeepsWire ==
  ASSUME WireInv, ReaderUsesLine
  PROVE  WireInv'
  <1>1. /\ ReadsLine /\ Json!Accepts(Parsed) /\ used' = Append(used, Message(Parsed))
        /\ UNCHANGED <<side, broadcasts, write_msgs_, written, stream, reader, broken>>
    BY DEF ReaderUsesLine, Usable, writerVars
  <1>2. taken' \in Nat /\ taken' <= Len(stream) /\ Len(stream) \in Nat
    BY <1>1, ReadsSome, WireTypes
  <1>3. TypeOK'
    <2> DEFINE T == {Text(cmd) : cmd \in Command}
    <2>1. Message(Parsed) \in T
      BY <1>1, UsesTheNext
    <2>2. used \in Seq(T)
      BY Zenon DEF WireInv, TypeOK
    <2> HIDE DEF T
    <2>3. used' \in Seq(T)
      BY ONLY <1>1, <2>1, <2>2, AppendProperties
    <2>4. taken' \in 0 .. Len(stream')
      BY <1>1, <1>2
    <2> QED
      BY ONLY WireInv, <1>1, <2>3, <2>4, Zenon DEF WireInv, TypeOK, T
  <1>4. Waiting' /\ StreamInv'
    <2>1. broken' \in {TRUE, broken}
      BY ONLY <1>1, Zenon
    <2> QED
      BY <1>1, <2>1, ReadKeepsStream
  <1> QED
    BY <1>3, <1>4, Zenon DEF WireInv

\* Throwing a line away changes nothing in the stream.
LEMMA CaughtKeepsWire ==
  ASSUME WireInv, Caught, taken' \in 0 .. Len(stream)
  PROVE  WireInv'
  <1>1. /\ UNCHANGED <<side, broadcasts, write_msgs_, written, stream, used>>
        /\ reader' \in {"stopped", reader} /\ broken' \in {TRUE, broken}
    BY DEF Caught, writerVars
  <1>2. TypeOK'
    <2>1. reader' \in {"reading", "stopped"} /\ broken' \in BOOLEAN
      BY ONLY WireInv, <1>1, Zenon DEF WireInv, TypeOK
    <2> QED
      BY ONLY WireInv, <1>1, <2>1, taken' \in 0 .. Len(stream), Zenon DEF WireInv, TypeOK
  <1>3. Waiting' /\ StreamInv'
    BY <1>1, ReadKeepsStream
  <1> QED
    BY <1>2, <1>3, Zenon DEF WireInv

\* Every step keeps the invariant.
LEMMA NextWire == WireInv /\ [Next]_vars => WireInv'
  <1> SUFFICES ASSUME WireInv, [Next]_vars PROVE WireInv'
    OBVIOUS
  <1>1. ASSUME NEW cmd \in Command, Deliver(cmd) PROVE WireInv'
    BY <1>1, DeliverKeepsWire
  <1>2. CASE WriteText
    BY <1>2, WriteTextKeepsWire
  <1>3. CASE WriteNewline
    BY <1>3, WriteNewlineKeepsWire
  <1>4. CASE Breaks
    BY <1>4, BreaksKeepsWire
  <1>5. CASE ReaderUsesLine
    BY <1>5, UsesKeepsWire
  <1>6. CASE ReaderThrowsOnLine
    <2>1. ReadsLine /\ Caught
      BY <1>6 DEF ReaderThrowsOnLine
    <2>2. taken' \in 0 .. Len(stream)
      <3>1. taken' \in Nat /\ taken' <= Len(stream) /\ Len(stream) \in Nat
        BY <2>1, ReadsSome, WireTypes
      <3> QED
        BY <3>1
    <2> QED
      BY <2>1, <2>2, CaughtKeepsWire
  <1>7. CASE ReaderThrowsAtEnd
    <2>1. taken' = Len(stream) /\ Caught
      BY <1>7 DEF ReaderThrowsAtEnd
    <2>2. taken' \in 0 .. Len(stream)
      <3>1. Len(stream) \in Nat
        BY WireTypes
      <3> QED
        BY <2>1, <3>1
    <2> QED
      BY <2>1, <2>2, CaughtKeepsWire
  <1>8. CASE UNCHANGED vars
    BY <1>8, Zenon DEF vars, WireInv, TypeOK, Waiting, StreamInv, Written
  <1> QED
    BY <1>1, <1>2, <1>3, <1>4, <1>5, <1>6, <1>7, <1>8 DEF Next, Writer, Reader

\* What the socket has taken is always a sequence of whole messages and the
\* beginning of the next, in the order of deliver(), and what do_write() has still
\* before it are the last of them.
THEOREM WireInvariant == FairSpec => []WireInv
  BY InitWire, NextWire, PTL DEF FairSpec, Spec

\* The variables have their types; above all, both readers only ever use the text
\* of some message, never what a torn line leaves.
THEOREM WireTypeCorrect == FairSpec => []TypeOK
  <1>1. WireInv => TypeOK
    BY DEF WireInv
  <1> QED
    BY <1>1, WireInvariant, PTL

-----------------------------------------------------------------------------
(* The abstract line                                                       *)

Sent == [i \in DOMAIN broadcasts |-> Text(broadcasts[i])]
Passed == Count(stream, taken)

\* A read passes at least one more message, and none that was not sent.
LEMMA PassesSome ==
  ASSUME WireInv, ReadsLine, UNCHANGED <<stream, broadcasts>>
  PROVE  Passed' \in Passed + 1 .. Len(broadcasts)
  <1> DEFINE T(n) == {i \in 1 .. n : stream[i] = Json!Newline}
  <1>1. /\ stream \in Seq(Json!Symbol) /\ Len(stream) \in Nat /\ taken \in Nat
        /\ broadcasts \in Seq(Command) /\ Len(broadcasts) \in Nat
    BY WireTypes
  <1>2. PICK m \in Newlines : taken < m /\ m <= taken' /\ taken' \in Nat /\ taken' <= Len(stream)
    BY ReadsSome
  <1>3. m \in Nat /\ stream[m] = Json!Newline /\ m >= 1
    BY <1>1 DEF Newlines
  <1>4. Passed' = Count(stream, taken') /\ Passed = Count(stream, taken)
    BY Zenon DEF Passed, Count
  <1>5. ASSUME NEW n \in Nat PROVE IsFiniteSet(T(n)) /\ Cardinality(T(n)) \in Nat
    <2>1. IsFiniteSet(1 .. n)
      BY FS_Interval
    <2>2. T(n) \subseteq 1 .. n
      OBVIOUS
    <2> QED
      BY ONLY <2>1, <2>2, FS_Subset, FS_CardinalityType
  <1>6. m \notin T(taken) /\ T(taken) \cup {m} \subseteq T(taken')
    BY <1>1, <1>2, <1>3
  <1> HIDE DEF T
  <1>7. Cardinality(T(taken) \cup {m}) = Cardinality(T(taken)) + 1
    BY <1>1, <1>5, <1>6, FS_AddElement
  <1>8. Cardinality(T(taken) \cup {m}) <= Cardinality(T(taken'))
    BY <1>2, <1>5, <1>6, FS_Subset
  <1>9. Passed \in Nat /\ Passed' \in Nat /\ Passed + 1 <= Passed'
    <2>1. Passed = Cardinality(T(taken)) /\ Passed' = Cardinality(T(taken'))
      BY ONLY <1>4 DEF Count, T
    <2>2. Cardinality(T(taken)) \in Nat /\ Cardinality(T(taken')) \in Nat
      BY ONLY <1>1, <1>2, <1>5
    <2> QED
      BY ONLY <2>1, <2>2, <1>7, <1>8
  <1>10. Passed' <= Len(broadcasts)
    <2>1. PICK l, q : Placed(stream, broadcasts, l, q)
      BY Zenon DEF WireInv, StreamInv
    <2> DEFINE n == taken'
    <2>2. n \in 0 .. Len(stream) /\ n # 0 /\ n \in 1 .. Len(stream)
      BY ONLY <1>1, <1>2, <1>3
    <2> HIDE DEF n
    <2>3. Count(stream, n) = IF q[n] > Size(broadcasts[l[n]]) THEN l[n] ELSE l[n] - 1
      BY ONLY <1>1, <2>1, <2>2, CountIs
    <2>4. l[n] \in 1 .. Len(broadcasts)
      BY ONLY <2>1, <2>2, Zenon DEF Placed
    <2>5. Count(stream, n) <= Len(broadcasts)
      BY ONLY <1>1, <2>3, <2>4
    <2> QED
      BY ONLY <1>4, <2>5 DEF n
  <1> QED
    BY ONLY <1>1, <1>9, <1>10

\* What was read stays what it was.
LEMMA PassedStays ==
  ASSUME taken \in Nat, taken' = taken, \A i \in 1 .. taken : stream'[i] = stream[i]
  PROVE  Passed' = Passed
  <1>1. {i \in 1 .. taken : stream'[i] = Json!Newline}
          = {i \in 1 .. taken : stream[i] = Json!Newline}
    OBVIOUS
  <1> QED
    BY <1>1, Zenon DEF Passed, Count

\* The initial states map to initial states.
LEMMA LineInit == Init => Line!Init
  <1> SUFFICES ASSUME Init PROVE Line!Init
    OBVIOUS
  <1>1. Sent = <<>>
    BY DEF Init, Sent
  <1>2. Passed = 0
    <2>1. Count(stream, 0) = 0
      BY CountNext
    <2> QED
      BY <2>1, Zenon DEF Init, Passed
  <1> QED
    BY <1>1, <1>2, Zenon DEF Init, Line!Init, Sent, Passed, Count

\* Every step maps to a step or a stutter.
LEMMA LineNext == WireInv /\ [Next]_vars => [Line!Next]_(Line!lvars)
  <1> SUFFICES ASSUME WireInv, [Next]_vars PROVE [Line!Next]_(Line!lvars)
    OBVIOUS
  <1> DEFINE T == {Text(cmd) : cmd \in Command}
             Stutters == Sent' = Sent /\ Passed' = Passed /\ used' = used
             Sends == (\E c \in T : Sent' = Append(Sent, c)) /\ Passed' = Passed /\ used' = used
             Arrives == /\ Passed' \in Passed + 1 .. Len(Sent)
                        /\ used' \in {used, Append(used, Sent[Passed + 1])}
                        /\ Sent' = Sent
  <1>a. Stutters \/ Sends \/ Arrives => [Line!Next]_(Line!lvars)
    BY Zenon DEF Line!Next, Line!Send, Line!Arrive, Line!lvars, Sent, Passed, Count
  <1>b. /\ stream \in Seq(Json!Symbol) /\ Len(stream) \in Nat /\ taken \in Nat
        /\ broadcasts \in Seq(Command) /\ Len(broadcasts) \in Nat
    BY WireTypes
  <1>c. Len(Sent) = Len(broadcasts) /\ \A i \in 1 .. Len(broadcasts) : Sent[i] = Text(broadcasts[i])
    BY <1>b DEF Sent
  <1>d. broadcasts' = broadcasts => Sent' = Sent
    BY Zenon DEF Sent
  <1> HIDE DEF T, Stutters, Sends, Arrives
  <1>1. ASSUME NEW cmd \in Command, Deliver(cmd) PROVE Sends
    <2>1. /\ broadcasts' = Append(broadcasts, cmd) /\ used' = used /\ stream' = stream
               /\ taken' = taken
      BY <1>1 DEF Deliver, readerVars
    <2>2. Sent' = Append(Sent, Text(cmd))
      <3> DEFINE n == Len(broadcasts)
                 U == Sent'
                 V == Append(Sent, Text(cmd))
                 Q == T
      <3>1. /\ broadcasts' \in Seq(Command) /\ Len(broadcasts') = n + 1 /\ broadcasts'[n + 1] = cmd
            /\ \A i \in 1 .. n : broadcasts'[i] = broadcasts[i]
        BY ONLY <1>b, <2>1, cmd \in Command, AppendProperties
      <3>2. Sent \in Seq(T) /\ Text(cmd) \in T
        BY <1>b DEF Sent, T
      <3>3. /\ V \in Seq(T) /\ Len(V) = Len(Sent) + 1 /\ V[Len(Sent) + 1] = Text(cmd)
            /\ \A i \in 1 .. Len(Sent) : V[i] = Sent[i]
        BY ONLY <3>2, AppendProperties
      <3>4. DOMAIN broadcasts' = 1 .. n + 1 /\ \A i \in 1 .. n + 1 : broadcasts'[i] \in Command
        BY ONLY <1>b, <3>1
      <3>5. U = [i \in 1 .. n + 1 |-> Text(broadcasts'[i])]
        BY ONLY <3>4, Zenon DEF Sent
      <3>6. \A i \in 1 .. n + 1 : Text(broadcasts'[i]) \in T
        BY ONLY <3>4, Zenon DEF T
      <3> HIDE DEF U, V
      <3>7. U \in Seq(T) /\ Len(U) = n + 1 /\ \A i \in 1 .. n + 1 : U[i] = Text(broadcasts'[i])
        BY ONLY <1>b, <3>5, <3>6
      <3>8. \A i \in 1 .. n + 1 : U[i] = V[i]
        <4> TAKE i \in 1 .. n + 1
        <4>1. CASE i = n + 1
          BY ONLY <1>c, <3>1, <3>3, <3>7, <4>1, i \in 1 .. n + 1, Zenon
        <4>2. CASE i # n + 1
          <5>1. i \in 1 .. n
            BY ONLY <1>b, <4>2, i \in 1 .. n + 1
          <5> QED
            BY ONLY <1>c, <3>1, <3>3, <3>7, <5>1, i \in 1 .. n + 1, Zenon
        <4> QED
          BY <4>1, <4>2
      <3>9. U = V
        BY ONLY <1>c, <3>3, <3>7, <3>8, SeqEqual, Zenon
      <3> QED
        BY ONLY <3>9 DEF U, V
    <2>3. Passed' = Passed
      BY ONLY <2>1, Zenon DEF Passed, Count
    <2>4. Text(cmd) \in T
      BY DEF T
    <2> QED
      BY ONLY <2>1, <2>2, <2>3, <2>4, Zenon DEF Sends
  <1>2. ASSUME WriteText PROVE Stutters
    <2>1. broadcasts' = broadcasts /\ used' = used /\ taken' = taken
      BY <1>2 DEF WriteText, readerVars
    <2>2. \A i \in 1 .. taken : stream'[i] = stream[i]
      BY <1>2, WriteTextKeepsWire
    <2> QED
      <3>1. Passed' = Passed
        BY ONLY <1>b, <2>1, <2>2, PassedStays
      <3> QED
        BY ONLY <1>d, <2>1, <3>1 DEF Stutters
  <1>3. ASSUME WriteNewline PROVE Stutters
    <2>1. broadcasts' = broadcasts /\ used' = used /\ taken' = taken
      BY <1>3 DEF WriteNewline, readerVars
    <2>2. \A i \in 1 .. taken : stream'[i] = stream[i]
      BY <1>3, WriteNewlineKeepsWire
    <2> QED
      <3>1. Passed' = Passed
        BY ONLY <1>b, <2>1, <2>2, PassedStays
      <3> QED
        BY ONLY <1>d, <2>1, <3>1 DEF Stutters
  <1>4. ASSUME Breaks PROVE Stutters
    <2>1. broadcasts' = broadcasts /\ used' = used /\ taken' = taken
      BY <1>4 DEF Breaks, writerVars, readerVars
    <2>2. \A i \in 1 .. taken : stream'[i] = stream[i]
      BY <1>4, BreaksKeepsWire
    <2> QED
      <3>1. Passed' = Passed
        BY ONLY <1>b, <2>1, <2>2, PassedStays
      <3> QED
        BY ONLY <1>d, <2>1, <3>1 DEF Stutters
  <1>5. ASSUME ReaderUsesLine PROVE Arrives
    <2>1. /\ ReadsLine /\ Json!Accepts(Parsed) /\ used' = Append(used, Message(Parsed))
          /\ broadcasts' = broadcasts /\ stream' = stream
      BY <1>5 DEF ReaderUsesLine, Usable, writerVars
    <2>2. Passed' \in Passed + 1 .. Len(broadcasts)
      BY <2>1, PassesSome
    <2>3. Passed + 1 \in 1 .. Len(broadcasts) /\ Message(Parsed) = Text(broadcasts[Passed + 1])
      BY <2>1, UsesTheNext DEF Passed
    <2>4. used' = Append(used, Sent[Passed + 1])
      BY ONLY <1>c, <2>1, <2>3, Zenon
    <2>5. Sent' = Sent /\ Len(Sent) = Len(broadcasts)
      BY ONLY <1>c, <1>d, <2>1
    <2> QED
      BY ONLY <2>2, <2>4, <2>5 DEF Arrives
  <1>6. ASSUME ReaderThrowsOnLine PROVE Arrives
    <2>1. ReadsLine /\ broadcasts' = broadcasts /\ stream' = stream /\ used' = used
      BY <1>6 DEF ReaderThrowsOnLine, Caught, writerVars
    <2>2. Passed' \in Passed + 1 .. Len(broadcasts)
      BY <2>1, PassesSome
    <2>5. Sent' = Sent /\ Len(Sent) = Len(broadcasts)
      BY ONLY <1>c, <1>d, <2>1
    <2> QED
      BY ONLY <2>1, <2>2, <2>5 DEF Arrives
  <1>7. ASSUME ReaderThrowsAtEnd PROVE Stutters
    <2>1. Newlines = {} /\ taken' = Len(stream)
          /\ broadcasts' = broadcasts /\ stream' = stream /\ used' = used
      BY <1>7 DEF ReaderThrowsAtEnd, Caught, writerVars
    <2>2. taken <= Len(stream)
      BY WireTypes
    <2>3. {i \in 1 .. Len(stream) : stream[i] = Json!Newline}
            = {i \in 1 .. taken : stream[i] = Json!Newline}
      <3>1. \A i \in 1 .. Len(stream) : i \in 1 .. taken \/ i \in taken + 1 .. Len(stream)
        BY ONLY <1>b, <2>2
      <3>2. \A i \in 1 .. taken : i \in 1 .. Len(stream)
        BY ONLY <1>b, <2>2
      <3>3. \A i \in taken + 1 .. Len(stream) : stream[i] # Json!Newline
        BY <2>1 DEF Newlines
      <3> QED
        BY ONLY <3>1, <3>2, <3>3, Zenon
    <2>4. Passed' = Passed
      BY ONLY <2>1, <2>3, Zenon DEF Passed, Count
    <2> QED
      BY ONLY <1>d, <2>1, <2>4 DEF Stutters
  <1>8. ASSUME UNCHANGED vars PROVE Stutters
    <2>1. broadcasts' = broadcasts /\ used' = used /\ taken' = taken /\ stream' = stream
      BY ONLY <1>8 DEF vars, writerVars, readerVars
    <2>2. Passed' = Passed
      BY ONLY <2>1, Zenon DEF Passed, Count
    <2> QED
      BY ONLY <1>d, <2>1, <2>2 DEF Stutters
  <1> QED
    BY <1>a, <1>1, <1>2, <1>3, <1>4, <1>5, <1>6, <1>7, <1>8, Zenon DEF Next, Writer, Reader

\* Wherever the reads cut the stream and whenever the connection breaks, what the
\* client cues and the server relays are the messages delivered, in their order and
\* none twice: each step of the connection is one of LossyLine or changes nothing.
THEOREM LossyLineImplemented == FairSpec => ImplementsLossyLine
  BY LineInit, LineNext, WireInvariant, PTL DEF FairSpec, Spec, ImplementsLossyLine, Line!Spec

-----------------------------------------------------------------------------
(* Sessions end only on a torn line                                        *)

\* A line at whose beginning the reader stands never throws on the server.
LEMMA StopStep == WireInv /\ [Next]_vars => (reader' = "stopped" /\ reader = "reading"
  => broken \/ ~AtLineStart)
  <1> SUFFICES ASSUME WireInv, [Next]_vars, reader' = "stopped", reader = "reading", ~broken,
        AtLineStart
               PROVE  FALSE
    OBVIOUS
  <1>1. ReaderThrowsOnLine
    <2>1. reader' # reader
      OBVIOUS
    <2> QED
      BY <2>1, Zenon DEF Next, Writer, Reader, Deliver, WriteText, WriteNewline, Breaks,
         ReaderUsesLine,
         ReaderThrowsAtEnd, readerVars, writerVars, vars
  <1>2. ReadsLine /\ ~Usable(Parsed) /\ Caught
    BY ONLY <1>1 DEF ReaderThrowsOnLine
  <1>3. side = "server"
    BY <1>2, Zenon DEF Caught
  <1>4. ~Json!Accepts(Parsed)
    BY <1>2, <1>3 DEF Usable
  <1>5. /\ stream \in Seq(Json!Symbol) /\ Len(stream) \in Nat /\ taken \in Nat
             /\ taken <= Len(stream)
        /\ broadcasts \in Seq(Command)
    BY WireTypes
  <1>6. PICK l, q : Placed(stream, broadcasts, l, q)
    BY Zenon DEF WireInv, StreamInv
  <1>7. PICK m : m \in Newlines
    BY <1>2, ThereIsALine
  <1> DEFINE s == taken + 1
  <1>8. s \in 1 .. Len(stream)
    BY ONLY <1>5, <1>6, <1>7, ParsedLetters, Zenon
  <1>9. q[s] = 1
    <2>1. CASE taken = 0
      <3>1. s = 1
        BY ONLY <2>1
      <3> HIDE DEF s
      <3> QED
        BY ONLY <1>6, <1>8, <3>1, Zenon DEF Placed
    <2>2. CASE taken # 0
      <3>1. stream[taken] = Json!NUL
        BY <2>2 DEF AtLineStart
      <3>2. s > 1 /\ s - 1 = taken /\ taken \in 1 .. Len(stream)
        BY ONLY <1>5, <2>2
      <3> HIDE DEF s
      <3>3. /\ l[taken] \in 1 .. Len(broadcasts) /\ q[taken] \in 1 .. Size(broadcasts[l[taken]]) + 2
            /\ stream[taken] = Letter(broadcasts[l[taken]], q[taken])
            /\ q[taken] = Size(broadcasts[l[taken]]) + 2 => q[s] = 1
        BY ONLY <1>6, <1>8, <3>2, Zenon DEF Placed
      <3>4. broadcasts[l[taken]] \in Command
        BY ONLY <1>5, <3>3
      <3> QED
        BY ONLY <3>1, <3>3, <3>4, OnlyNewline, Zenon
    <2> QED
      BY <2>1, <2>2
  <1>10. Json!Accepts(Parsed)
    BY ONLY <1>5, <1>6, <1>7, <1>9, WholeLines
  <1> QED
    BY <1>4, <1>10

\* client_session::stop() is called by the reader only when the connection is
\* broken or a read began within a line: never because lines arrived together.
THEOREM StopsOnTornLines == FairSpec => StopsOnlyOnTornLine
  BY StopStep, WireInvariant, PTL DEF FairSpec, Spec, StopsOnlyOnTornLine

=============================================================================
