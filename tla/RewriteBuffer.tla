---------------------------- MODULE RewriteBuffer ----------------------------
(***************************************************************************)
(* The part of clang::Rewriter that src/clangUtils.cpp uses: the buffer of *)
(* one file and ReplaceText on a range of it.  Not code of this project:   *)
(* modelled from how replaceWith calls it.                                 *)
(*                                                                         *)
(* Positions are those of the original file, counted in tokens from 1; the *)
(* token at position p is p itself, so that the text shows what became of  *)
(* every piece of the original.  The buffer keeps how far each original    *)
(* position has moved; a position inside text that was already replaced    *)
(* moves as if the text were still there.                                  *)
(***************************************************************************)
EXTENDS Integers, Sequences

\* The buffer of an unedited file of n tokens.
Unedited(n) == [text  |-> [p \in 1..n |-> p],
                shift |-> [p \in 1..(n + 1) |-> 0]]

\* getMappedOffset
Mapped(buffer, p) == p + buffer.shift[p]

\* getRangeSize: both ends belong to the range.
RangeSize(buffer, first, last) == Mapped(buffer, last) - Mapped(buffer, first) + 1

\* RewriteRope::erase asserts that what is erased is there: it begins and ends
\* inside the text, or right behind it.
CanReplace(buffer, first, size) ==
  LET before == Mapped(buffer, first) - 1
  IN  before \in 0..Len(buffer.text) /\ before + size \in 0..Len(buffer.text)

\* ReplaceText.  The size of a range with an invalid end is -1: nothing is
\* erased, and the token before the range appears twice.
Replace(buffer, first, size, new) ==
  LET at == Mapped(buffer, first)
  IN  [text  |-> SubSeq(buffer.text, 1, at - 1) \o new
                   \o SubSeq(buffer.text, at + size, Len(buffer.text)),
       shift |-> [p \in DOMAIN buffer.shift |->
                    IF p > first THEN buffer.shift[p] + Len(new) - size
                                 ELSE buffer.shift[p]]]
===============================================================================
