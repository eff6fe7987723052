------------------------- MODULE AnnotationProperties -------------------------
(***************************************************************************)
(* What a run of the tool does to the source, compared with definitions    *)
(* that do not follow the code.                                            *)
(***************************************************************************)
EXTENDS AnnotationPipeline, SequencesExt

\* The declarations of source file f that a method was asked to replace in file.
Replaced(f, file) ==
  {d \in Range(units[f]) :
     /\ d.file = file
     /\ \/ MethodFor(d).effect = "replace"
        \/ MethodFor(d).effect = "replaceInMain" /\ file = f}

\* A declaration, with its template<...>, and the ';' that ends it.
Extent(d) == d.outer..(d.last + 1)

\* The replacements do not touch each other, every declaration ends at a ';',
\* and none begins or ends inside a macro.
Tidy(f, file) ==
  /\ \A d \in Replaced(f, file) :
       /\ d.last + 1 \in Semicolons[file]
       /\ ~d.macroFirst /\ d.macroLast # "inside"
  /\ \A d, e \in Replaced(f, file) : d # e => Extent(d) \cap Extent(e) = {}

\* The text of file with every replaced declaration given its replacement and
\* everything else kept.
ReplacedText(f, file) ==
  FlattenSeq([p \in 1..Length[file] |->
    IF \E d \in Replaced(f, file) : p = d.outer
    THEN MethodFor(CHOOSE d \in Replaced(f, file) : p = d.outer).replacement
    ELSE IF \E d \in Replaced(f, file) : p \in Extent(d) THEN <<>>
    ELSE <<p>>])

\* When the matches of a file are done, every buffer of its rewriter holds the
\* replacements asked for in this file and nothing else: none is lost, none is
\* left over from another file, and the order in which disjoint declarations
\* are replaced, and how much longer or shorter they get, makes no difference.
BuffersHoldTheReplacements ==
  phase = "matching" /\ MatchesDone =>
    \A file \in Anywhere :
      Tidy(current, file) =>
        rewriter_.buffers[file].text = ReplacedText(current, file)

\* When the replacements asked for in a file do not overlap, what belongs to none of
\* them is still there, though a declaration may lack its ';' or end in a macro: an
\* end that is not found must not take the text behind the declaration along.
EditsStayInside ==
  phase = "matching" /\ MatchesDone =>
    \A file \in Anywhere :
      (\A d, e \in Replaced(current, file) : d # e => Extent(d) \cap Extent(e) = {}) =>
        (1..Length[file]) \ UNION {Extent(d) : d \in Replaced(current, file)}
          \subseteq Range(rewriter_.buffers[file].text)

\* replaceWith: "replaces clang matchResult with |replacement| in source code".
\* What belongs to no declaration that was replaced is in the text that is saved.
\* The code breaks it for a class inside a class that has been replaced: the
\* position of the inner one has moved in front of the outer one, and what stands
\* there is erased.
OtherTextStays ==
  \A f \in finished :
    (1..Length[f]) \ UNION {Extent(d) : d \in Replaced(f, f)} \subseteq Range(saved[f])

\* The usage of kRequiredAnnotationPrefix: an annotated variable "will be
\* replaced".  Replacing a declaration does not end the process.
ReplacingGoesOn == phase # "aborted"
===============================================================================
