------------------------------ MODULE MCFuncParser ------------------------------
(* split_to_funcs on every string of up to MaxLen characters of an alphabet. *)
EXTENDS FuncReference

CONSTANTS
  MaxLen,      \* bound on the length of the input
  Alphabet     \* the characters it is made of

MCLetter == {"a"}
MCInputs == BoundedSeq(Alphabet, MaxLen)
===============================================================================
