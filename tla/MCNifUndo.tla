----------------------------- MODULE MCNifUndo -----------------------------
(* Small documents for TLC: an array of two links and its size.            *)
EXTENDS NifUndo

CONSTANTS l1, l2

TwoRows == <<l1, l2>>
ZeroOne == {0, 1}
OneTwo  == {1, 2}
=============================================================================
