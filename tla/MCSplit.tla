------------------------------ MODULE MCSplit ------------------------------
(* Every split size from a negative one to one past the largest file.      *)
EXTENDS Split

Sizes == -1 .. MaxSize + 1
=============================================================================
