------------------------- MODULE MCAnnotationPipeline -------------------------
(***************************************************************************)
(* Three source files and a header.  Two of the files have fifteen tokens: *)
(*    1-4 . 5-10 a class that holds another one at 7-8 with a ';' at 9;    *)
(*    11 ';' . 12-13 a second declaration . 14 ';' . 15                    *)
(* the header has four: 1-2 a class . 3 ';' . 4; and the third file, one.  *)
(***************************************************************************)
EXTENDS AnnotationProperties

MCFiles      == {"m", "n", "o"}
MCHeaders    == {"h"}
MCLength     == [m |-> 15, n |-> 15, o |-> 1, h |-> 4]
MCSemicolons == [m |-> {9, 11, 14}, n |-> {9, 11, 14}, o |-> {}, h |-> {3}]
MCLetter     == {"r", "s"}

\* A method that replaces by one token, one that removes, in the main file
\* only, and one that grows the text or does nothing to it; in one of the maps
\* the name "r" hides "rs".
MCMethodMaps ==
  {<<"r">> :> [effect |-> "replace", replacement |-> <<-1>>] @@
   <<"s">> :> [effect |-> "replaceInMain", replacement |-> <<>>],
   <<"r">> :> [effect |-> "report", replacement |-> <<>>] @@
   <<"r", "s">> :> [effect |-> "replace", replacement |-> <<-1, -2, -3>>] @@
   <<"s", "r">> :> [effect |-> "replace", replacement |-> <<-1, -2, -3>>],
   <<"r", "s">> :> [effect |-> "replace", replacement |-> <<-1, -2, -3>>] @@
   <<"s">> :> [effect |-> "replace", replacement |-> <<>>]}

Gen(text) == [gen |-> TRUE, text |-> text]

MCAttrs == {<<Gen(<<"r", "s">>)>>, <<Gen(<<"s", "r">>)>>,
            <<[gen |-> FALSE, text |-> <<"r", "s">>], Gen(<<"r", "s">>)>>}

Class(file, attrs, first, last) ==
  [file |-> file, attrs |-> attrs, invalid |-> FALSE, kind |-> "record",
   outer |-> first, first |-> first, last |-> last,
   macroFirst |-> FALSE, macroLast |-> "no"]

Optional(decls) == {<<>>} \cup {<<d>> : d \in decls}

InHeader == {Class("h", a, 1, 2) : a \in MCAttrs}
Outer(f) == {Class(f, a, 5, 10) : a \in MCAttrs}
Inner(f) == {Class(f, a, 7, 8) : a \in MCAttrs}
Second(f) == {Class(f, a, 12, 13) : a \in MCAttrs}
Template(f) == {[d EXCEPT !.kind = "template", !.first = 13] : d \in Second(f)}

\* The declarations that replaceWith has trouble with, one at a time.
Odd(f) ==
  LET d == CHOOSE e \in Second(f) : e.attrs = <<Gen(<<"r", "s">>)>>
      t == [d EXCEPT !.kind = "template"]
  IN  {[d EXCEPT !.invalid = TRUE], [d EXCEPT !.kind = "other"],
       [d EXCEPT !.last = 12], [d EXCEPT !.macroFirst = TRUE],
       [t EXCEPT !.macroFirst = TRUE], [d EXCEPT !.macroLast = "inside"],
       [d EXCEPT !.macroLast = "end"]}

Chain(a, b) == {s \o t : s \in a, t \in b}

\* Everything in the first file, a little in the second, nothing in the third.
MCUnitMaps ==
  LET first  == Chain(Optional(InHeader),
                  Chain(Optional(Outer("m")),
                        Optional(Second("m") \cup Template("m") \cup Odd("m"))))
                \cup Chain(Optional(Inner("m")), Optional(Second("m")))
      second == {<<>>} \cup
                Chain({<<Class("h", <<Gen(<<"r", "s">>)>>, 1, 2)>>},
                      Optional(Second("n")))
  IN  {[m |-> u, n |-> v, o |-> <<>>] : u \in first, v \in second}

\* For the runs about one kind of declaration.
OnlyIn(u) == {[m |-> s, n |-> <<>>, o |-> <<>>] : s \in u}
MCVariableUnits == OnlyIn({<<[d EXCEPT !.kind = "other"]>> : d \in Second("m")})
MCNestedUnits == OnlyIn(Chain(Optional(Outer("m")), Optional(Inner("m"))))
===============================================================================
