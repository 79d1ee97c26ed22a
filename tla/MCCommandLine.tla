----------------------------- MODULE MCCommandLine -----------------------------
(* A buffer of nine characters, and names of one to three of which one is  *)
(* the beginning of another.  The typed lines are the beginnings of one    *)
(* line per command; one of them is long enough to be completed past the   *)
(* end of the buffer.                                                      *)
EXTENDS CommandLine

CONSTANT unnamed

MCChars == {"a", "b", "c", "d", "e", "f", "g", "h", "i", "k", "l", "m", "n", "o", "p",
            "r", "s", "t", "u", "w", " ", "/"}

Scripts ==
  { <<"h">>, <<"l">>, <<"c", "l">>, <<"c", "a", "t", " ", "a">>, <<"u", "p", "t">>,
    <<"e", "c", "h", "o", " ", "a", " ", "a", "b">>, <<"f">>, <<"t", "o", "p">>,
    <<"t", "o", "u", "c", "h", " ", "a">>, <<"r", "m", " ", "a">>,
    <<"e", "d", "i", "t", " ", "a">>, <<"p", "i", "n", "g", " ", "a">>, <<"i">>,
    <<"w", "g", "e", "t", " ", "/", "a">> }
MCLines == UNION {{SubSeq(s, 1, k) : k \in 0..Len(s)} : s \in Scripts}

aba == <<"a", "b", "a">>
MCNames == { <<"a">>, aba, <<"/", "a">> }
MCStored == [n \in MCNames |-> n]

MCContents == {"short"}
MCContentSize == [c \in MCContents |-> 6]
MCContentRows == [c \in MCContents |-> 3]
MCDefaultFiles == << <<aba, "short">> >>

ASSUME NoSpaces
=============================================================================
