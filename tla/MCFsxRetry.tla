------------------------------ MODULE MCFsxRetry ------------------------------
(***************************************************************************)
(* An instance of FsxTransaction for TLC: one copy between two files,      *)
(* whose undo may be interrupted and tried again.                          *)
(***************************************************************************)
EXTENDS FsxTransaction

CONSTANTS a, b, d

Copies == {<<CopyFile(a, b)>>, <<CopyFile(b, a)>>}
==============================================================================
