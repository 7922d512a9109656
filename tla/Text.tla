-------------------------------- MODULE Text --------------------------------
(***************************************************************************)
(* Strings as sequences of characters, and what the code uses of Go's      *)
(* package strings.  A character that stands for a whole word (a key of a  *)
(* rule) is a character like any other.                                    *)
(***************************************************************************)
LOCAL INSTANCE Naturals
LOCAL INSTANCE Sequences
LOCAL INSTANCE SequencesExt

\* strings.TrimRight and strings.Trim: cut is the set of characters to drop.
TrimRight(s, cut) ==
    SubSeq(s, 1, SelectLastInSeq(s, LAMBDA c : c \notin cut))
TrimLeft(s, cut) ==
    LET first == SelectInSeq(s, LAMBDA c : c \notin cut) IN
    IF first = 0 THEN <<>> ELSE SubSeq(s, first, Len(s))
Trim(s, cut) == TrimLeft(TrimRight(s, cut), cut)

\* strings.Split: the parts between separators, one more than there are of them.
Split(s, sep) ==
    FoldLeft(LAMBDA parts, c :
                 IF c = sep THEN Append(parts, <<>>)
                 ELSE [parts EXCEPT ![Len(parts)] = Append(@, c)],
             <<<<>>>>, s)

\* strings.Cut: what comes before and after the first separator.
Cut(s, sep) ==
    LET i == SelectInSeq(s, LAMBDA c : c = sep) IN
    IF i = 0 THEN [found |-> FALSE, before |-> s, after |-> <<>>]
    ELSE [found |-> TRUE, before |-> SubSeq(s, 1, i - 1),
          after |-> SubSeq(s, i + 1, Len(s))]
=============================================================================
