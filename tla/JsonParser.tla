----------------------------- MODULE JsonParser -----------------------------
(***************************************************************************)
(* nlohmann::json::parse() (utils/json.hpp) on the texts that midiPool     *)
(* sends: whether a piece of a connection's byte stream is a JSON text.    *)
(*                                                                         *)
(* A text is a sequence of symbols: the six structural characters, by the  *)
(* names that lexer_base::token_type has for them, an opening quote with   *)
(* what stands behind it (one symbol of Quoted), the closing quote, a      *)
(* number (one symbol of Number), a newline and a NUL.  A cut within a     *)
(* number leaves a number, as a cut before it would; a cut within a string *)
(* leaves text that, like a lone closing quote, the lexer refuses, at once *)
(* or at the next name.                                                    *)
(***************************************************************************)
EXTENDS SequencesExt

CONSTANTS Quoted, Number

Quote == "quote"
Newline == "newline"
NUL == "NUL"
Structural == {"begin_object", "end_object", "begin_array", "end_array",
               "name_separator", "value_separator"}
Symbol == Quoted \cup Number \cup Structural \cup {Quote, Newline, NUL}

\* Mutant: a newline is not white space.
TokenOrNewlineAt(text, i) ==
  IF text[i] = Newline THEN "error"
  ELSE IF text[i] \in Structural THEN text[i]
  ELSE IF text[i] \in Number THEN "number"
  ELSE IF text[i] = NUL THEN "end"
  ELSE IF text[i] = Quote THEN IF i > 1 /\ text[i - 1] \in Quoted THEN "none" ELSE "error"
  ELSE IF i < Len(text) /\ text[i + 1] = Quote THEN "string" ELSE "error"

\* lexer::scan() for the symbol at i of text: the token that begins there, or
\* "none" where none does.
TokenAt(text, i) ==
  CASE text[i] \in Structural -> text[i]
    [] text[i] \in Number -> "number"
    [] text[i] = Newline -> "none"
    [] text[i] = NUL -> "end"
    [] text[i] \in Quoted ->
         IF i < Len(text) /\ text[i + 1] = Quote THEN "string" ELSE "error"
    [] text[i] = Quote -> IF i > 1 /\ text[i - 1] \in Quoted THEN "none" ELSE "error"

-----------------------------------------------------------------------------
(* sax_parse_internal().  "states" is its stack, and "at" says which of    *)
(* its calls of get_token() comes next.                                    *)

Start == [at |-> "value", states |-> <<>>]
Expect(p, at) == [p EXCEPT !.at = at]
Error(p) == Expect(p, "error")

\* A value is complete: go on in the enclosing array or object, if any.
ValueEnds(states) ==
  [at |-> IF states = <<>> THEN "text over" ELSE "value over", states |-> states]

Opens(p, kind, at) == [at |-> at, states |-> Append(p.states, kind)]

Closes(p, kind) == IF Last(p.states) = kind THEN ValueEnds(Front(p.states)) ELSE Error(p)

\* The switch on last_token.
Value(p, token) ==
  CASE token = "begin_object" -> Opens(p, "object", "key or end")
    [] token = "begin_array" -> Opens(p, "array", "value or end")
    [] token \in {"number", "string"} -> ValueEnds(p.states)
    [] OTHER -> Error(p)

Key(p, token) == IF token = "string" THEN Expect(p, "separator") ELSE Error(p)

\* Mutant: parse() is not strict, so that anything may follow the text.
ConsumesLeniently(p, token) ==
  CASE p.at = "value" -> Value(p, token)
    [] p.at = "value or end" -> IF token = "end_array" THEN Closes(p, "array") ELSE Value(p, token)
    [] p.at = "key" -> Key(p, token)
    [] p.at = "key or end" -> IF token = "end_object" THEN Closes(p, "object") ELSE Key(p, token)
    [] p.at = "separator" -> IF token = "name_separator" THEN Expect(p, "value") ELSE Error(p)
    [] p.at = "value over" ->
         CASE token = "value_separator" -> Expect(p, IF Last(p.states) = "array" THEN "value" ELSE "key")
           [] token = "end_array" -> Closes(p, "array")
           [] token = "end_object" -> Closes(p, "object")
           [] OTHER -> Error(p)
    [] p.at = "text over" -> Expect(p, "accepted")
    [] p.at \in {"accepted", "error"} -> p

\* One token; at the end of the text the strict parse() asks for end_of_input.
Consumes(p, token) ==
  CASE p.at = "value" -> Value(p, token)
    [] p.at = "value or end" -> IF token = "end_array" THEN Closes(p, "array") ELSE Value(p, token)
    [] p.at = "key" -> Key(p, token)
    [] p.at = "key or end" -> IF token = "end_object" THEN Closes(p, "object") ELSE Key(p, token)
    [] p.at = "separator" -> IF token = "name_separator" THEN Expect(p, "value") ELSE Error(p)
    [] p.at = "value over" ->
         CASE token = "value_separator" -> Expect(p, IF Last(p.states) = "array" THEN "value" ELSE "key")
           [] token = "end_array" -> Closes(p, "array")
           [] token = "end_object" -> Closes(p, "object")
           [] OTHER -> Error(p)
    [] p.at = "text over" -> Expect(p, IF token = "end" THEN "accepted" ELSE "error")
    [] p.at \in {"accepted", "error"} -> p

\* get_token() passes over what is no token.
Step(p, token) == IF token = "none" THEN p ELSE Consumes(p, token)

\* The parser's state after each symbol; behind the last the lexer finds the end.
Accepts(text) ==
  LET After[i \in 0 .. Len(text)] ==
        IF i = 0 THEN Start ELSE Step(After[i - 1], TokenAt(text, i))
  IN Step(After[Len(text)], "end").at = "accepted"

=============================================================================
