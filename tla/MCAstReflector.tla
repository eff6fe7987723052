---------------------------- MODULE MCAstReflector ----------------------------
(***************************************************************************)
(*   namespace A { class X;                                                *)
(*     inline namespace v { namespace { typedef .. T; }                    *)
(*                          namespace { typedef .. T; } }                  *)
(*     inline namespace v { namespace { typedef .. T;  enum E; } } }       *)
(*   namespace A { class X { field; class I { }; class J; union { }; };    *)
(*                 namespace B { class S<..>, S<..>; } }                   *)
(*   extern "C++" { class Z;  namespace C { class W; } }                   *)
(***************************************************************************)
EXTENDS AstReflector, TLC

MCParent == [A |-> "unit", A2 |-> "unit", v |-> "A", v2 |-> "A", N |-> "v", N2 |-> "v",
             N3 |-> "v2", B |-> "A2", L |-> "unit", C |-> "L"]
MCContext == DOMAIN MCParent \cup {"unit"}
MCAnonymous == {"N", "N2", "N3"}
MCKind == [c \in MCContext |-> IF c = "unit" THEN "unit"
                               ELSE IF c = "L" THEN "linkage" ELSE "namespace"]
MCPrimary == [c \in MCContext |->
  CASE c = "A2" -> "A" [] c = "v2" -> "v" [] c \in MCAnonymous -> "N" [] OTHER -> c]
MCName == MCPrimary

Where == [x1 |-> "A", x2 |-> "A2", i |-> "A2", j |-> "A2", s1 |-> "B", s2 |-> "B",
          t1 |-> "N", t2 |-> "N2", t3 |-> "N3", e |-> "N3", z |-> "L", w |-> "C"]
MCDecl == DOMAIN Where
MCWithin == Where
MCWhat == [d \in MCDecl |-> IF d = "e" THEN "enum"
                            ELSE IF d \in {"t1", "t2", "t3"} THEN "typedef" ELSE "class"]
MCQualifiedName == [d \in MCDecl |->
  CASE d \in {"x1", "x2"} -> "X" [] d \in {"s1", "s2"} -> "S"
    [] d \in {"t1", "t2", "t3"} -> "T"
    [] OTHER -> d]
MCDefinition == [d \in MCDecl |->
  CASE d \in {"x1", "x2"} -> "x2" [] d \in {"i", "s1", "s2"} -> d
    [] OTHER -> None]
MCBody == [d \in MCDecl |->
  CASE d = "x2" -> <<[is |-> "field", decl |-> None], [is |-> "decl", decl |-> "i"],
                     [is |-> "decl", decl |-> "j"], [is |-> "unnamed", decl |-> None]>>
    [] d = "s1" -> <<[is |-> "decl", decl |-> "j"], [is |-> "variable", decl |-> None]>>
    [] OTHER -> <<>>]
===============================================================================
