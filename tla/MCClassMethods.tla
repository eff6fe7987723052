----------------------------- MODULE MCClassMethods -----------------------------
(***************************************************************************)
(* Every class of SpecialMembers is listed; the methods of two of them are *)
(* printed: one declares nothing, and Clang has added some members; one    *)
(* declares all.  The methods differ in what they are declared with, or in *)
(* the type of their parameter.                                            *)
(***************************************************************************)
EXTENDS ClassMethods

-------------------------------------------------------------------------------
(* Types. *)

Bare(c) ==
  [class |-> c, quals |-> {}, kind |-> "none", namespace |-> <<>>,
   scope |-> <<>>, name |-> <<>>]
Of(c, quals) == [Bare(c) EXCEPT !.quals = quals]
Template(namespace, name, kind) ==
  [Bare("TemplateSpecialization") EXCEPT !.namespace = namespace, !.name = name,
                                         !.kind = kind]

Builtins  == {[Bare("Builtin") EXCEPT !.kind = k] : k \in {"Int", "WChar_S", "Half"}}
\* A class X in a class X in a namespace X, an anonymous one, a global one.
Records   == {[Bare("Record") EXCEPT !.namespace = <<"X">>, !.scope = <<"X">>, !.name = <<"X">>],
              [Bare("Record") EXCEPT !.namespace = <<"N">>, !.scope = <<"X">>],
              [Bare("Record") EXCEPT !.name = <<"X">>]}
Templates == {Template(<<"std">>, <<"vector">>, "none"),
              Template(<<"N">>, <<"vector">>, "none")}
Strings   == {Template(n, <<"basic_string">>, k) :
                n \in {<<"std">>, <<"std", "::", "__cxx11">>},
                k \in {"Char_S", "WChar_S", "Char16", "Char8", "dependent"}}
             \cup {[Template(<<>>, <<"basic_string">>, "Char_S") EXCEPT !.scope = <<"std">>]}
Simple    == {Bare(c) : c \in {"Enum", "Decltype", "TemplateTypeParm", "Other"}}

Leafs  == {<<l>> : l \in Builtins \cup Records \cup Templates \cup Strings \cup Simple}
Few    == {<<Of(c, q)>> : c \in {"Record", "TemplateTypeParm"}, q \in {{}, {"const"}}}
\* Something, or something under one layer of the set.
Under(layers, types) == types \cup {<<l>> \o t : l \in layers, t \in types}

Sugars   == {Of("Typedef", q) : q \in {{"const"}, {"volatile"}}}
Pointers == {Of("Pointer", q) : q \in {{}, {"const"}}}
Arrays   == {Bare("ConstantArray")}
Aliases  == {[Bare("AliasTemplate") EXCEPT !.namespace = <<"N">>, !.name = <<"Alias">>]}
Refs     == {Bare(c) : c \in References}

Values == Under(Pointers, Under(Sugars, Leafs \cup Few))
Deep   == Under(Sugars, Under(Pointers, Under(Sugars, Under(Pointers, Few))))
Tables == {<<a>> \o t : a \in Arrays, t \in Under(Sugars, Under(Arrays, Under(Pointers, Few)))}
\* What is written between an array and a pointer or reference to it.
Between == Sugars \cup {Bare("Paren")}
Rows   == {<<a, p, s, b>> \o t : a \in Arrays, p \in Pointers, s \in Between, b \in Arrays,
                                t \in Under(Pointers, Few)}
\* Arrays of arrays of arrays, and of pointers to them.
Cubes  == {<<a>> \o t : a \in Arrays, t \in Tables}
          \cup {<<a, p, s>> \o t : a \in Arrays, p \in Pointers, s \in Between, t \in Tables}
Behind(layers) == {<<a>> \o t : a \in Aliases, t \in Under(layers, Under(Pointers, Few))}

\* What the visitor cannot visit, alone or below something else, and what is inside.
Stopped ==
  {<<l>> \o t : l \in {Of(c, q) : c \in Unvisited, q \in {{}, {"volatile"}}},
               t \in Under(Sugars, Under(Pointers, Few))}
Stops ==
  Under(Pointers \cup Sugars \cup Arrays \cup Aliases \cup Refs \cup {Bare("Decayed")}, Stopped)
  \cup {<<Bare("Paren"), r>> \o t : r \in Refs, t \in Under(Pointers, Few)}

\* An array is a parameter by reference, or it decays.
Types ==
  Under(Refs \cup {Bare("Elaborated")}, Values) \cup Deep
  \cup {<<Bare("Decayed")>> \o t : t \in Under(Sugars, Tables \cup Rows)}
  \cup {<<r, s>> \o t : r \in Refs, s \in Between, t \in Tables \cup Rows} \cup Stops
  \cup Under(Refs, Behind(Arrays)) \cup Behind(Refs)
  \cup Tables \cup Cubes \cup {<<a>> \o b : a \in Arrays, b \in Behind(Arrays)}

-------------------------------------------------------------------------------
(* Methods. *)

Int    == <<CHOOSE b \in Builtins : b.kind = "Int">>
\* A class X or an unnamed one, in a class O or not, in a namespace or not.
Places == [namespace : {<<>>, <<"N">>}, scope : {<<>>, <<"O">>}, name : {<<>>, <<"X">>}]
Home   == [namespace |-> <<>>, scope |-> <<>>, name |-> <<"X">>]

Plain ==
  [member |-> "none", isImplicit |-> FALSE, maker |-> "ReflectMethod",
   kind |-> "method", specifiers |-> {}, trailing |-> {}, implied |-> {},
   definition |-> "declared",
   params |-> <<Int>>, class |-> Home, name |-> <<"m">>]

Definitions == {"declared", "inline", "outside", "pure", "deleted", "defaulted",
                "defaultedUsed", "defaultedDeleted"}

Flagged ==
  {[Plain EXCEPT !.kind = k, !.specifiers = s, !.trailing = t, !.implied = i,
                 !.definition = d] :
     k \in {"method", "operator"}, s \in SUBSET {"virtual", "constexpr", "static"} \cup {{"inline"}},
     t \in SUBSET {"const", "noexcept"} \cup
           {{"noexcept(false)"}, {"override"}, {"const", "&"}},
     i \in {{}, {"virtual"}, {"static"}, {"const"}},
     d \in {"declared", "inline", "outside", "pure", "deleted"}}

\* Static methods are neither virtual nor const, and what is pure is virtual; what
\* overrides is virtual with the word or without; only operators are static without
\* the word, and only constexpr methods const.
Legal(d) ==
  /\ "static" \in d.specifiers \cup d.implied =>
       "virtual" \notin d.specifiers /\ d.trailing \cap {"const", "&", "override"} = {}
  /\ "static" \in d.specifiers => d.kind = "method" /\ d.implied = {}
  /\ "static" \in d.implied => d.kind = "operator"
  /\ "const" \in d.implied => "constexpr" \in d.specifiers
  /\ d.definition = "pure" => "virtual" \in d.specifiers \cup d.implied
  /\ "override" \in d.trailing => "virtual" \in d.implied

\* The parameter as it is written, and as setupConstructor and the like make it.
Ref(c, quals) == <<Bare(c), [Of("Record", quals) EXCEPT !.name = <<"X">>]>>
ParamsOf(m, byClang) ==
  CASE m \in Copies           -> <<Ref("LValueReference", {"const"})>>
    [] m \in {"move", "move="} -> <<Ref("RValueReference", IF byClang THEN {} ELSE {"const"})>>
    [] OTHER                  -> <<>>

SpecialDecl(m, implicit, maker, d, place) ==
  [Plain EXCEPT
     !.member = m, !.isImplicit = implicit, !.maker = maker, !.definition = d,
     !.kind = IF m \in Constructors THEN "constructor"
              ELSE IF m = "destructor" THEN "destructor" ELSE "operator",
     !.params = ParamsOf(m, maker = "ReflectMethod"),
     !.class = place,
     !.name = IF m \in Constructors THEN place.name ELSE <<m>>]

MCDecls ==
  {d \in Flagged : Legal(d)}
  \cup {[Plain EXCEPT !.params = <<t>>] : t \in Types}
  \cup {[Plain EXCEPT !.params = <<>>]}
  \cup {SpecialDecl(m, FALSE, "ReflectMethod", d, Home) :
          m \in Special, d \in Definitions \ {"pure"}}
  \cup {[SpecialDecl(m, FALSE, "ReflectMethod", d, Home) EXCEPT !.implied = i] :
          m \in Special, d \in {"defaulted", "defaultedUsed", "defaultedDeleted"},
          i \in SUBSET {"constexpr", "noexcept"}}
  \cup {[SpecialDecl("destructor", FALSE, "ReflectMethod", d, Home) EXCEPT
           !.implied = {"virtual", "noexcept"}] : d \in {"declared", "inline", "outside"}}
  \cup {[SpecialDecl(m, FALSE, "ReflectMethod", "inline", Home) EXCEPT
           !.specifiers = {"explicit"}] : m \in Constructors}
  \cup {SpecialDecl(m, TRUE, "ReflectMethod", "defaulted", p) : m \in Special, p \in Places}
  \cup {SpecialDecl(m, TRUE, "ReflectImplicitSpecialMembers", "declared", p) :
          m \in Special, p \in Places}

MCWatched ==
  {c \in Classes : /\ ~c.otherConstructor /\ c.nonConst = {} /\ ~c.destructorDeleted
                   /\ c.userProvidedDefault = (c.written # {})
                   /\ \/ c.written = {} /\ c.declared = {"default", "move"}
                      \/ c.written = Special /\ c.declared = {}}
===============================================================================
