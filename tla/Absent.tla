------------------------------ MODULE Absent ------------------------------
(* The value that stands for nothing: no file, no holder, no answer yet.    *)
CONSTANT None
OrNone(S) == S \cup {None}
============================================================================
