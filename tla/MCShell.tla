-------------------------------- MODULE MCShell --------------------------------
(* Two slots, three names, and texts of up to six characters, one more than *)
(* an edited file may have: the beginnings of three texts.  They share a    *)
(* heap as roomy for them as the kernel's is for its 64 files of 4 KB.      *)
EXTENDS Shell

CONSTANTS a, b, d, unnamed

MCNames == {a, b, d}
MCStored == [n \in MCNames |-> n]
MCTexts == { <<"c", "nl", "c", "c", "nl", "c">>, <<"c", "c">>, <<"nl">> }
MCContents == UNION {{SubSeq(t, 1, k) : k \in 0..Len(t)} : t \in MCTexts}
MCContentSize == [t \in MCContents |-> Len(t)]
MCDownloads == {<<"c", "nl">>}
MCDefaultFiles == << <<a, <<"c", "nl", "c">> >> >>

(* Neither name has a file at boot and nothing orders the two.              *)
OtherNames == Permutations({b, d})
=============================================================================
