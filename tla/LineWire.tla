------------------------------ MODULE LineWire ------------------------------
(***************************************************************************)
(* One direction of a connection between server and client, symbol by      *)
(* symbol: the writer's two writes per message, the byte stream that TCP   *)
(* makes of them, and the reader that cuts lines from it.                  *)
(*                                                                         *)
(* boost::asio::buffer("\n") is a buffer of the literal's two bytes, so a  *)
(* newline is always followed by a NUL.  It belongs to no line: a read     *)
(* that ends between the two leaves it for the next one, whose line it     *)
(* then spoils.                                                            *)
(*                                                                         *)
(* Both readers are modelled: client_connection's, who parses the first    *)
(* line and goes on whatever happens, and client_session's, who parses the *)
(* buffer as a C string and stops on an error.  The writers are the same   *)
(* code on both sides.  A text is no longer than a buffer (2048 and 2096   *)
(* bytes, for messages of some 130), so that a newline is always found.    *)
(***************************************************************************)
EXTENDS Naturals, FiniteSetsExt, Sequences

CONSTANTS
  Command,      \* the commands sent: START, CONTINUE or SONG_POS
  MaxMessages,  \* bound: messages sent
  MaxBuffer     \* most symbols async_read_until() may gather

Quoted == {"bytes", "meta", "exec_timestamp"}
Number == {"START", "CONTINUE", "SONG_POS", "zero", "seconds"}

Json == INSTANCE JsonParser

VARIABLES
  side,         \* whose reader it is: "client" or "server"
  broadcasts,   \* the messages handed to deliver() so far
  write_msgs_,  \* those the writer has not finished
  written,      \* "nothing", or "text" of write_msgs_.front() only
  stream,       \* what the writer's socket has taken
  taken,        \* how much of stream the reader's reads have got
  reader,       \* "reading" or, on the server, "stopped"
  broken,       \* the connection is closed, by either end or the network
  used          \* the texts the reader made use of

vars == <<side, broadcasts, write_msgs_, written, stream, taken, reader, broken, used>>
writerVars == <<broadcasts, write_msgs_, written>>
readerVars == <<taken, reader, used>>

\* A message as dump() writes it, but for its clock_rate and uuid, which are no
\* other cases than its exec_timestamp.  SONG_POS has a second byte.
Text(cmd) ==
  LET bytes == IF cmd = "SONG_POS" THEN <<cmd, "value_separator", "zero">> ELSE <<cmd>>
  IN <<"begin_object", "bytes", Json!Quote, "name_separator", "begin_array">> \o bytes
     \o <<"end_array", "value_separator", "meta", Json!Quote, "name_separator", "begin_object",
          "exec_timestamp", Json!Quote, "name_separator", "seconds", "end_object", "end_object">>

ASSUME WireAssumption ==
  /\ Command \subseteq {"START", "CONTINUE", "SONG_POS"}
  /\ MaxMessages \in Nat
  /\ MaxBuffer \in Nat
  /\ \A cmd \in Command : Len(Text(cmd)) + 3 <= MaxBuffer

Init ==
  /\ side \in {"client", "server"}
  /\ broadcasts = <<>> /\ write_msgs_ = <<>> /\ written = "nothing"
  /\ stream = <<>> /\ taken = 0
  /\ reader = "reading" /\ broken = FALSE /\ used = <<>>

-----------------------------------------------------------------------------
(* The writer                                                              *)

\* deliver(): the message waits for the writer, open connection or not.
Deliver(cmd) ==
  /\ Len(broadcasts) < MaxMessages
  /\ broadcasts' = Append(broadcasts, cmd)
  /\ write_msgs_' = Append(write_msgs_, cmd)
  /\ UNCHANGED <<side, written, stream, readerVars, broken>>

\* The first write: the text of the message.
WriteText ==
  /\ ~broken /\ write_msgs_ # <<>> /\ written = "nothing"
  /\ stream' = stream \o Text(Head(write_msgs_))
  /\ written' = "text"
  /\ UNCHANGED <<side, broadcasts, write_msgs_, readerVars, broken>>

\* Mutant: the second write is the newline alone.
WriteNewlineAlone ==
  /\ ~broken /\ written = "text"
  /\ stream' = Append(stream, Json!Newline)
  /\ written' = "nothing"
  /\ write_msgs_' = Tail(write_msgs_)
  /\ UNCHANGED <<side, broadcasts, readerVars, broken>>

\* The second write, buffer("\n"), and pop_front().
WriteNewline ==
  /\ ~broken /\ written = "text"
  /\ stream' = stream \o <<Json!Newline, Json!NUL>>
  /\ written' = "nothing"
  /\ write_msgs_' = Tail(write_msgs_)
  /\ UNCHANGED <<side, broadcasts, readerVars, broken>>

\* The connection ends; some of what was written may never arrive.
Breaks ==
  /\ ~broken /\ broken' = TRUE
  /\ \E n \in taken .. Len(stream) : stream' = SubSeq(stream, 1, n)
  /\ UNCHANGED <<side, writerVars, readerVars>>

-----------------------------------------------------------------------------
(* The readers                                                             *)

Newlines == {i \in taken + 1 .. Len(stream) : stream[i] = Json!Newline}

\* The text up to and with its first symbol x.
UpTo(text, x) ==
  LET ends == {i \in DOMAIN text : text[i] = x}
  IN IF ends = {} THEN text ELSE SubSeq(text, 1, Min(ends))

\* What the reader parses: read_msg.substr(0, n) on the client, which ends with
\* a newline; read_msg.data(), which as a C string ends with a NUL, on the server.
Parsed ==
  UpTo(SubSeq(stream, taken + 1, Len(stream)),
       IF side = "client" THEN Json!Newline ELSE Json!NUL)

\* What the reader goes through with: relaying any JSON text on the server.  The
\* client's conversions throw unless there is an object with numbers in its meta;
\* an object without "bytes" gives it a message of no bytes.
Usable(text) ==
  /\ Json!Accepts(text)
  /\ side = "client" =>
       Head(text) = "begin_object" /\ \E i \in DOMAIN text : text[i] = "exec_timestamp"

\* What parse() makes of a line: the newline behind it is gone.
Message(text) ==
  LET ends == {i \in DOMAIN text : text[i] \in {Json!Newline, Json!NUL}}
  IN IF ends = {} THEN text ELSE SubSeq(text, 1, Min(ends) - 1)

(***************************************************************************)
(* async_read_until() gathers the stream in a fresh read_msg until there   *)
(* is a newline in it, and as much behind it as the last read_some() got.  *)
(* All of it is gone with read_msg, whatever the reader makes of the line. *)
(***************************************************************************)
ReadsLine ==
  /\ reader = "reading" /\ Newlines # {}
  /\ taken' \in Min(Newlines) .. Min({Len(stream), taken + MaxBuffer})

\* A line and it parses: the client cues the message, the server relays it.
ReaderUsesLine ==
  /\ ReadsLine /\ Usable(Parsed)
  /\ used' = Append(used, Message(Parsed))
  /\ UNCHANGED <<side, writerVars, stream, reader, broken>>

\* The catch of the client only logs, that of the server calls stop().
Caught ==
  /\ IF side = "server" THEN reader' = "stopped" /\ broken' = TRUE
                        ELSE UNCHANGED <<reader, broken>>
  /\ UNCHANGED <<side, writerVars, stream, used>>

\* A line that does not parse, because its beginning is missing or spoilt.
ReaderThrowsOnLine == ReadsLine /\ ~Usable(Parsed) /\ Caught

\* End of file, or the socket's error; the client tries again, for ever.
ReaderThrowsAtEnd ==
  /\ reader = "reading" /\ broken /\ Newlines = {}
  /\ taken' = Len(stream)
  /\ Caught

-----------------------------------------------------------------------------
Writer == WriteText \/ WriteNewline

Reader == ReaderUsesLine \/ ReaderThrowsOnLine \/ ReaderThrowsAtEnd

Next == (\E cmd \in Command : Deliver(cmd)) \/ Writer \/ Breaks \/ Reader

Spec == Init /\ [][Next]_vars

\* The io threads serve their coroutines and TCP brings what was written: the
\* reader reads a line that is there, whatever it then makes of it.
FairSpec == Spec /\ WF_vars(Writer) /\ WF_taken(ReadsLine)

-----------------------------------------------------------------------------
(* Properties                                                              *)

\* The variables have their types.
TypeOK ==
  /\ side \in {"client", "server"}
  /\ broadcasts \in Seq(Command) /\ Len(broadcasts) <= MaxMessages
  /\ write_msgs_ \in Seq(Command) /\ written \in {"nothing", "text"}
  /\ stream \in Seq(Json!Symbol) /\ taken \in 0 .. Len(stream)
  /\ reader \in {"reading", "stopped"} /\ broken \in BOOLEAN
  /\ used \in Seq({Text(cmd) : cmd \in Command})

Line == INSTANCE LossyLine WITH
  Content <- {Text(cmd) : cmd \in Command},
  sent    <- [i \in DOMAIN broadcasts |-> Text(broadcasts[i])],
  passed  <- Cardinality({i \in 1 .. taken : stream[i] = Json!Newline})

(***************************************************************************)
(* Wherever TCP cuts the stream and whenever the connection breaks, what   *)
(* the client cues and the server relays are messages that were sent, in   *)
(* their order and none twice; only the first of the lines that complete   *)
(* in a read is used.  What is left of a torn line never parses.           *)
(***************************************************************************)
ImplementsLossyLine == Line!Spec

\* The next read begins with a line.
AtLineStart == taken = 0 \/ stream[taken] = Json!NUL

(***************************************************************************)
(* However lines were torn and thrown away before: once the reader stands  *)
(* at the beginning of a line, having read the NUL of the line before, it  *)
(* uses this one, unless the connection breaks first.                      *)
(***************************************************************************)
LineAtStartIsUsed ==
  \A n \in 0 .. MaxMessages - 1 :
    AtLineStart /\ write_msgs_ # <<>> /\ Len(used) = n ~> Len(used) > n \/ broken

(***************************************************************************)
(* The server ends a session only when the connection breaks or at a line  *)
(* of which an earlier read took the beginning or left it the NUL before   *)
(* it: never because several lines arrived together.                       *)
(***************************************************************************)
StopsOnlyOnTornLine ==
  [][reader' = "stopped" /\ reader = "reading" => broken \/ ~AtLineStart]_vars

=============================================================================
