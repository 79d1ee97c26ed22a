----------------------------- MODULE MCVFSLongNames -----------------------------
(* One of two names is longer than a name field and is stored cut off.     *)
EXTENDS VFS

CONSTANTS cut, long, unnamed, small

MCNames == {cut, long}
MCStored == [n \in MCNames |-> cut]
MCContents == {small}
MCContentSize == [x \in MCContents |-> 3]
MCDefaultFiles == << <<cut, small>> >>
=============================================================================
