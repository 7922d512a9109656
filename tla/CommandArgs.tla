---------------------------- MODULE CommandArgs ----------------------------
(***************************************************************************)
(* SplitCommandArgs (pkg/utils/cmd_args.go): the arguments that a          *)
(* resource's extraCmdArgs, a sequence of characters, stands for.          *)
(***************************************************************************)
EXTENDS Naturals, Sequences
LOCAL INSTANCE SequencesExt

Space == " "
Backslash == "\\"
Single == "'"
Double == "\""
NoQuote == ""

\* The arguments so far, the one being read, the open quote and the escape.
Scanner == [args |-> <<>>, value |-> <<>>, quote |-> NoQuote, escaped |-> FALSE]

\* Faulty variant: the value is not reset.
FlushKeeping(s) ==
    IF s.value = <<>> THEN s ELSE [s EXCEPT !.args = Append(@, s.value)]

\* An argument ends; an empty one, quoted or not, is none.
Flush(s) ==
    IF s.value = <<>> THEN s
    ELSE [s EXCEPT !.args = Append(@, s.value), !.value = <<>>]

Write(s, char) == [s EXCEPT !.value = Append(@, char), !.escaped = FALSE]

\* Faulty variant: a backslash escapes in single quotes as well.
ReadEscaping(s, char) ==
    IF s.escaped THEN Write(s, char)
    ELSE IF char = Backslash THEN [s EXCEPT !.escaped = TRUE]
    ELSE IF s.quote # NoQuote
    THEN IF char = s.quote THEN [s EXCEPT !.quote = NoQuote] ELSE Write(s, char)
    ELSE IF char \in {Single, Double} THEN [s EXCEPT !.quote = char]
    ELSE IF char = Space THEN Flush(s)
    ELSE Write(s, char)

\* One character; the cases of the switch in their order.
Read(s, char) ==
    IF s.escaped THEN Write(s, char)
    ELSE IF char = Backslash /\ s.quote # Single THEN [s EXCEPT !.escaped = TRUE]
    ELSE IF s.quote # NoQuote
    THEN IF char = s.quote THEN [s EXCEPT !.quote = NoQuote] ELSE Write(s, char)
    ELSE IF char \in {Single, Double} THEN [s EXCEPT !.quote = char]
    ELSE IF char = Space THEN Flush(s)
    ELSE Write(s, char)

\* An open quote or a trailing escape is an error.
SplitCommandArgs(input) ==
    LET end == FoldLeft(Read, Scanner, input) IN
    IF end.escaped \/ end.quote # NoQuote THEN [ok |-> FALSE, args |-> <<>>]
    ELSE [ok |-> TRUE, args |-> Flush(end).args]
=============================================================================
