---------------------------- MODULE MCXmlChecker ----------------------------
(***************************************************************************)
(* Three files, one with errors, and two workers: while one checks a file, *)
(* the other can end, be deleted or be started.                            *)
(***************************************************************************)
EXTENDS XmlChecker

CONSTANTS f1, f2, f3

TheFiles  == {f1, f2, f3}
TheErrors == [f \in TheFiles |-> IF f = f1 THEN 1 ELSE 0]
=============================================================================
