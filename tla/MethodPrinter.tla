----------------------------- MODULE MethodPrinter -----------------------------
(***************************************************************************)
(* A method on its way to generated code: a MethodInfo is made of it, by   *)
(* ReflectMethod or as an implicit member, and the functions of            *)
(* clang_utils print it again.  Printed text is a sequence of words; a     *)
(* parameter list and a statement are one word each.                       *)
(***************************************************************************)
EXTENDS TypeInfo

CONSTANTS
  Decls,     \* the methods there are
  NoMethod   \* no method, no text yet

\* The words around a method's name that the functions can print, each by a
\* statement of its own; pure is = 0, and the last two have a = as well.
Specifiers == {"explicit", "virtual", "constexpr", "static"}
Qualifying == {"const", "noexcept"}
Trailers   == Qualifying \cup {"pure", "delete", "default"}

\* What a method ends with, and what says that it ends.
Ending == {"semicolon", "open brace", "statement", "close brace"}

Phrases == Specifiers \cup Trailers \cup Ending \cup {"return type"}

\* What Clang answers for a method that is not written so: one that overrides is
\* virtual, a defaulted special member may be constexpr and noexcept, a constexpr
\* method of C++11 is const, an operator new is static.
Implied == {"virtual", "constexpr", "static"} \cup Qualifying

\* No word stands on both sides of the name, and what is written after the
\* parameters is apart from how the method is defined.  Only constructors are
\* explicit.  Nobody writes what ReflectImplicitSpecialMembers lists.
ASSUME DeclsAssumption ==
  /\ NoMethod \notin Seq(Phrases)
  /\ \A d \in Decls :
       /\ {d.class.namespace, d.class.scope, d.class.name, d.name} \subseteq Seq(STRING)
       /\ d.params # <<>> => d.params = <<d.params[1]>> /\ IsType(d.params[1])
       /\ d.specifiers \cap (Phrases \ Specifiers) = {}
       /\ d.trailing \cap (Phrases \ Qualifying) = {}
       /\ d.implied \subseteq Implied
       /\ "explicit" \in d.specifiers => d.kind = "constructor"
       /\ d.maker # "ReflectMethod" =>
            d.specifiers \cup d.trailing \cup d.implied = {} /\ d.definition = "declared"

VARIABLES
  asserts,      \* the build has DCHECKs
  declared,     \* the method that is looked at, as Clang knows it
  methodInfo,   \* the MethodInfo made of it
  printed       \* what each function has printed of it, and the options given

printerVars == <<typeVars, asserts, declared, methodInfo, printed>>

ForwardingAll == Specifiers \cup {"return type"}
TrailingAll   == Trailers \cup {"body"}

PrinterInit ==
  /\ TypeInit
  /\ asserts \in BOOLEAN
  /\ declared = NoMethod /\ methodInfo = NoMethod
  /\ printed = [forwarding |-> NoMethod, trailing |-> NoMethod,
                decl |-> NoMethod, names |-> NoMethod, options |-> {}]

-------------------------------------------------------------------------------
(* Clang's side. *)

\* What stands at the end of a declaration, or Clang has put there.
Clauses(d) ==
  CASE d.definition = "pure"             -> {"pure"}
    [] d.definition = "deleted"          -> {"delete"}
    [] d.definition \in {"defaulted", "defaultedUsed"} -> {"default"}
    [] d.definition = "defaultedDeleted" -> {"delete", "default"}
    [] OTHER                             -> {}

HasBody(d) == d.definition \in {"inline", "outside", "defaultedUsed"}

\* The text from where the body begins to where it ends.  Clang makes the body of
\* a defaulted method when the method is used, and both ends are one place.
BodyText(d) == IF d.definition = "defaultedUsed" THEN <<>> ELSE <<"open brace", "statement", "close brace">>

-------------------------------------------------------------------------------
(* The makers of MethodInfo. *)

FullScope(namespace, scope) ==
  IF scope = <<>> THEN namespace ELSE namespace \o <<"::">> \o scope

\* Faulty: the namespace is taken for a part of the scope.
MutFullQualifiedName(n) == Scoped(n.scope, n.name)

\* NamedDeclInfo::GetFullQualifiedName: what has no name is not qualified either.
FullQualifiedName(n) ==
  IF n.name = <<>> THEN <<>> ELSE Scoped(FullScope(n.namespace, n.scope), n.name)

\* SetupNamedDeclInfo goes up from the method, and passes over unnamed classes.
ScopeIn(c) == IF c.name = <<>> THEN c.scope ELSE Scoped(c.scope, c.name)

\* ReflectMethod copies the flags Clang has.
Flags(d) ==
  (d.specifiers \cap Specifiers) \cup (d.trailing \cap Trailers) \cup Clauses(d) \cup d.implied
  \cup (IF "noexcept(false)" \in d.trailing THEN {"noexcept"} ELSE {})

\* Faulty: a body counts as inlined wherever it stands.
MutInlined(d) == HasBody(d)
Inlined(d) == HasBody(d) /\ d.definition # "outside"

\* The offset of the closing brace is where the copy ends.
Content(d) ==
  IF HasBody(d) /\ BodyText(d) # <<>>
  THEN SubSeq(BodyText(d), 1, Len(BodyText(d)) - 1) ELSE <<>>

ReflectMethod(d, params) ==
  [kind |-> d.kind, is |-> Flags(d), hasReturnType |-> TRUE, params |-> params,
   isDefined |-> d.definition \notin {"declared", "pure"},
   isClassScopeInlined |-> Inlined(d), body |-> Content(d),
   called |-> [namespace |-> d.class.namespace, scope |-> ScopeIn(d.class), name |-> d.name]]

\* setupImplicitMember: the qualified name of the class is the scope.
ImplicitMember(d, params) ==
  [kind |-> d.kind, is |-> {}, hasReturnType |-> FALSE, params |-> params,
   isDefined |-> FALSE, isClassScopeInlined |-> FALSE, body |-> <<>>,
   called |-> [namespace |-> d.class.namespace,
               scope |-> FullQualifiedName(d.class), name |-> d.name]]

\* A method of the list is looked at: first the types of its parameters.
Look(d) ==
  /\ declared' = d
  /\ IF d.params = <<>> THEN UNCHANGED typeVars ELSE CreateForType(d.params[1])
  /\ UNCHANGED <<asserts, methodInfo, printed>>

CreateStep == Create /\ UNCHANGED <<asserts, declared, methodInfo, printed>>

MakeMethodInfo ==
  /\ declared # NoMethod /\ methodInfo = NoMethod
  /\ declared.params = <<>> \/ Done
  /\ LET params == IF declared.params = <<>> THEN <<>> ELSE <<created>>
     IN  methodInfo' = IF declared.maker = "ReflectMethod"
                       THEN ReflectMethod(declared, params)
                       ELSE ImplicitMember(declared, params)
  /\ UNCHANGED <<typeVars, asserts, declared, printed>>

-------------------------------------------------------------------------------
(* The functions that print. *)

Said(word, words) == IF word \in words THEN <<word>> ELSE <<>>

SaidBefore(words) ==
  Said("explicit", words) \o Said("virtual", words)
  \o Said("constexpr", words) \o Said("static", words)

SaidAfter(words) ==
  Said("const", words) \o Said("noexcept", words)
  \o Said("pure", words) \o Said("delete", words) \o Said("default", words)

\* Faulty: the return type is printed first.
MutForwarding(mi, options) ==
  (IF mi.hasReturnType THEN Said("return type", options) ELSE <<>>)
  \o SaidBefore(options \cap mi.is)

\* printMethodForwarding.
Forwarding(mi, options) ==
  SaidBefore(options \cap mi.is)
  \o (IF mi.hasReturnType THEN Said("return type", options) ELSE <<>>)

ForwardingAsserts(mi, options) ==
  "return type" \in options /\ mi.kind \in {"constructor", "destructor"}

CanHaveBody(mi) == mi.isDefined /\ mi.isClassScopeInlined

\* printMethodTrailing.
Trailing(mi, options) ==
  SaidAfter(options \cap mi.is)
  \o (IF "body" \notin options THEN <<>>
      ELSE IF CanHaveBody(mi) THEN mi.body ELSE <<"semicolon">>)

TrailingAsserts(mi, options) ==
  "body" \in options /\ CanHaveBody(mi) /\ mi.body = <<>>

\* printMethodDecl, which asks Clang and not a MethodInfo.
Decl(d) ==
  IF d.kind # "method" THEN <<>>
  ELSE SaidBefore(Flags(d)) \o <<"return type">> \o SaidAfter(Flags(d))
       \o (IF HasBody(d) THEN <<"open brace", "statement", "close brace">> ELSE <<>>)

\* forwardMethodParamNames.
ForwardedNames(params) ==
  [i \in DOMAIN params |->
     [moved |-> CanBeMoved(params[i]) \/ params[i].rvReference, comma |-> i # Len(params)]]

\* A function is called and prints, or fails its DCHECK.
PrintOnce(what, text, options, failing) ==
  /\ methodInfo # NoMethod /\ ~crashed
  /\ printed[what] = NoMethod
  /\ crashed' = (asserts /\ failing)
  /\ printed' = IF asserts /\ failing THEN printed
                ELSE [printed EXCEPT ![what] = text, !.options = @ \cup options]
  /\ UNCHANGED <<type, at, frames, created, asserts, declared, methodInfo>>

PrintMethodForwarding(options) ==
  PrintOnce("forwarding", Forwarding(methodInfo, options), options,
        ForwardingAsserts(methodInfo, options))

PrintMethodTrailing(options) ==
  /\ printed.forwarding # NoMethod
  /\ PrintOnce("trailing", Trailing(methodInfo, options), options,
           TrailingAsserts(methodInfo, options))

PrintMethodDecl ==
  /\ printed.trailing # NoMethod /\ declared.maker = "ReflectMethod"
  /\ PrintOnce("decl", Decl(declared), {}, FALSE)

ForwardMethodParamNames ==
  /\ printed.trailing # NoMethod
  /\ PrintOnce("names", ForwardedNames(methodInfo.params), {}, FALSE)

\* The masks that leave nothing out, and those a generator takes for constructors
\* and for declarations.
PrinterStep ==
  \/ CreateStep \/ MakeMethodInfo
  \/ \E options \in {ForwardingAll, ForwardingAll \ {"return type"}} :
       PrintMethodForwarding(options)
  \/ \E options \in {TrailingAll, TrailingAll \ {"body"}} : PrintMethodTrailing(options)
  \/ PrintMethodDecl \/ ForwardMethodParamNames
===============================================================================
