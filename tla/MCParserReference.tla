------------------------- MODULE MCParserReference -------------------------
(***************************************************************************)
(* Instances of ParserReference for TLC.                                   *)
(***************************************************************************)
EXTENDS ParserReference

DigitSymbols == [d \in {"2", "5", "8"} |-> CASE d = "2" -> 2 [] d = "5" -> 5 [] d = "8" -> 8]

\* Every field, valid, empty and too long, in blocks of up to three lines; line
\* ends and the byte order mark with its prefixes; the number of a retry field,
\* up to and past its limit.
Streams ==
    {[bytes |-> {"data", "event", "id", "COLON", "NUL", "a", "LF"},
      max_line |-> 4, max_lines |-> 3],
     [bytes |-> {"data", "COLON", "SPACE", "CR", "LF", "EF", "BB", "BF"},
      max_line |-> 5, max_lines |-> 2],
     [bytes |-> {"retry", "COLON", "SPACE", "2", "5", "8", "a", "LF"},
      max_line |-> 5, max_lines |-> 1]}
=============================================================================
