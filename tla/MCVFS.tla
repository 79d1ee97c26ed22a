--------------------------------- MODULE MCVFS ---------------------------------
(* Three slots over a heap that holds two or three contents: writes that   *)
(* reuse the file's own block, split another, or find no memory; a content *)
(* larger than a file may be; names short enough to be stored whole.       *)
EXTENDS VFSRefinement

CONSTANTS a, b, d, unnamed, nothing, small, middle, large, huge

MCNames == {a, b, d}
MCStored == [n \in MCNames |-> n]
MCContents == {small, middle, large, huge}
MCContentSize ==
  [x \in MCContents |->
     CASE x = small -> 3 [] x = middle -> 14 [] x = large -> 40 [] x = huge -> 61]
MCDefaultFiles == << <<a, middle>>, <<b, small>> >>

ASSUME ShortNames /\ DefaultsWritten
=============================================================================
