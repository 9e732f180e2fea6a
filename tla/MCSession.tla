----------------------------- MODULE MCSession -----------------------------
(* A small session for TLC: two files and one file of an archive.          *)
EXTENDS Session

CONSTANTS f1, f2, e1

TheFiles   == {f1, f2}
TheEntries == {e1}
=============================================================================
