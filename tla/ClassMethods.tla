----------------------------- MODULE ClassMethods -----------------------------
(***************************************************************************)
(* The composition: SpecialMembers lists the methods of a class, and then  *)
(* a plugin takes one of the list (forEachDeclaredMethod) and prints it.   *)
(***************************************************************************)
EXTENDS SpecialMembers, MethodPrinter

CONSTANT Watched   \* the classes whose methods the plugin prints

allVars == <<vars, printerVars>>

ClassInit == Init /\ PrinterInit

ListStep ==
  /\ \/ DefaultConstructor \/ CopyConstructor \/ MoveConstructor \/ Destructor
     \/ CopyAssignment \/ MoveAssignment \/ Methods
  /\ UNCHANGED printerVars

\* ReflectMethod has listed the members Clang declared, implicit or not, and
\* the methods that are no special members; the implicit ones that are left are
\* of ReflectImplicitSpecialMembers.
IsListed(d) ==
  LET byClang == IF d.member \in class.declared THEN 1 ELSE 0
  IN  CASE d.member = "none"           -> TRUE
        [] d.maker = "ReflectMethod"   -> d.member \in (IF d.isImplicit THEN class.declared
                                                        ELSE class.written)
        [] OTHER                       -> methods[d.member, d.isImplicit] > byClang

forEachDeclaredMethod ==
  /\ next = "done" /\ class \in Watched /\ declared = NoMethod
  /\ \E d \in Decls : IsListed(d) /\ Look(d)
  /\ UNCHANGED vars

Finished == next = "done" /\ (class \notin Watched \/ declared # NoMethod) /\ UNCHANGED allVars

ClassNext ==
  \/ ListStep
  \/ forEachDeclaredMethod
  \/ PrinterStep /\ UNCHANGED vars
  \/ Finished

ClassSpec == ClassInit /\ [][ClassNext]_allVars

-------------------------------------------------------------------------------
(* What printing gets wrong, and nothing else. *)

\* A parameter that is an lvalue reference names an object of the caller's.  The
\* generated call moves out of it exactly in these cases: a class taken by plain
\* reference, a template parameter, an lvalue reference that && has been added to,
\* and a reference that an alias template stands for.
MovedLvalues ==
  LET isOutside(i)   == \A j \in 1..(i - 1) : type[j].class \notin Nesting \cup Unvisited
      hasOutside(S)  == \E i \in DOMAIN type : isOutside(i) /\ type[i].class \in S
      lvalue         == {"LValueReference", "CollapsedReference"}
      plain          == created.quals \cap {"const"} = {} /\ ~hasOutside({"Pointer"})
  IN  (/\ printed.names \notin {NoMethod, <<>>}
       /\ \E i \in DOMAIN type : type[i].class \in lvalue) =>
        (printed.names[1].moved <=>
           \/ hasOutside({"CollapsedReference", "TemplateTypeParm"})
           \/ plain /\ hasOutside({"Record"})
           \/ plain /\ hasOutside({"AliasTemplate"}) /\ ~hasOutside(lvalue))

\* A method that ReflectMethod made is called as its class is, and by its own name
\* after that, if both have a name; with "::" in front if the class is in nothing.
\* An implicit member is called as ReflectMethod would call it only if it has no
\* name, as a constructor of an unnamed class; if its class is in nothing; or if
\* its class is unnamed and in a namespace only.  Else its scope says twice what
\* the class is in.
NamedAlike ==
  methodInfo # NoMethod =>
    LET d   == declared
        c   == d.class
        own == FullQualifiedName(methodInfo.called)
        isInNothing == c.namespace = <<>> /\ c.scope = <<>>
    IN  IF d.maker = "ReflectMethod"
        THEN c.name # <<>> /\ d.name # <<>> =>
               own = (IF isInNothing THEN <<"::">> ELSE <<>>)
                       \o FullQualifiedName(c) \o <<"::">> \o d.name
        ELSE own = FullQualifiedName(ReflectMethod(d, methodInfo.params).called) <=>
               \/ d.name = <<>>
               \/ IF c.name = <<>> THEN c.scope = <<>> ELSE isInNothing

\* The words a declaration is written with.
Written(d) ==
  d.specifiers \cup d.trailing
  \cup (IF d.definition = "defaultedDeleted" THEN {"default"} ELSE Clauses(d))
  \cup (IF d.kind \in {"constructor", "destructor"} THEN {} ELSE {"return type"})

Words(text) == {text[i] : i \in DOMAIN text}
IsComplete(text) == text # <<>> /\ text[Len(text)] \in {"semicolon", "close brace"}

\* What printMethodForwarding and printMethodTrailing print around the name says
\* of the method what its declaration says, and is complete, exactly if nothing
\* of this is at hand: a word that they have no option for, noexcept(false), a
\* word that Clang has for the method though it is not written (Implied),
\* a body, a default that Clang deletes or has already made a body for, a return
\* type asked for a constructor, and an implicit operator, which has none.
PrintedSaysTheSame ==
  LET d    == declared
      text == printed.forwarding \o printed.trailing
  IN  (printed.trailing # NoMethod /\ "body" \in printed.options) =>
        ((Words(text) \ Ending = Written(d) /\ IsComplete(text)) <=>
           /\ d.specifiers \subseteq Specifiers /\ d.trailing \subseteq Qualifying
           /\ d.implied \subseteq d.specifiers \cup d.trailing
           /\ d.definition \notin {"inline", "defaultedUsed", "defaultedDeleted"}
           /\ IF d.kind \in {"constructor", "destructor"}
              THEN d.maker = "ReflectMethod" => "return type" \notin printed.options
              ELSE d.maker = "ReflectMethod" /\ "return type" \in printed.options)

\* The places of a text where its body and the semicolon do not stand.
BeforeBody(text) == {i \in DOMAIN text : text[i] \notin Ending}

\* printMethodDecl takes its words from Clang, the other two from the MethodInfo.
\* Of a plain method they print the same in the same order, but for a body, of
\* which printMethodDecl alone prints the end, or the whole if it stands outside.
DeclAgreesWithParts ==
  LET text == printed.forwarding \o printed.trailing
      decl == printed.decl
  IN  (/\ decl # NoMethod
       /\ declared.kind = "method"
       /\ printed.options = ForwardingAll \cup TrailingAll) =>
        /\ BeforeBody(decl) = BeforeBody(text)
        /\ \A i \in BeforeBody(decl) : decl[i] = text[i]
        /\ (BeforeBody(decl) # DOMAIN decl) = HasBody(declared)
===============================================================================
