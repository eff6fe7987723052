------------------------------- MODULE TypeInfo -------------------------------
(***************************************************************************)
(* TypeInfo::Create: TypeUnwrapper visits a clang::QualType layer by layer *)
(* and notes what it meets; below an array and an alias template Create is *)
(* called once more.  A type is the sequence of its layers, outermost      *)
(* first.  Names are sequences of identifiers and "::".                    *)
(***************************************************************************)
EXTENDS Naturals, Sequences, FiniteSets

CONSTANT NoInfo   \* no TypeInfo (a null TypeInfoPtr)

Sugar      == {"Elaborated", "Typedef", "Decayed"}
References == {"LValueReference", "RValueReference", "CollapsedReference"}
Nesting    == {"ConstantArray", "AliasTemplate"}
\* Types without a Visit function, and with others inside: ParenType, which also
\* stands for all that is but a name for what is inside (auto, an attributed type,
\* a substituted template parameter); IncompleteArrayType, also for the arrays of
\* variable or dependent size; MemberPointerType, also for functions and the like.
Unvisited  == {"Paren", "IncompleteArray", "MemberPointer"}
Named      == {"Record", "Enum"}
Leaves     == Named \cup {"Builtin", "Decltype", "TemplateTypeParm",
                          "TemplateSpecialization", "Other"}
LayerClasses ==
  Sugar \cup References \cup Nesting \cup Unvisited \cup Leaves \cup {"Pointer"}
Qualifiers == {"const", "volatile"}

\* Only the last layer is a leaf.  A reference is outside of everything but names
\* for it: nothing points to one or is an array of some, and of references to
\* references getPointeeType leaves the outermost.  What decays is the whole type
\* of a parameter.
IsType(t) ==
  /\ Len(t) \in Nat \ {0} /\ DOMAIN t = 1..Len(t)
  /\ \A i \in 1..Len(t) :
       /\ t[i].class \in LayerClasses
       /\ t[i].quals \subseteq Qualifiers
       /\ t[i].kind \in STRING
       /\ {t[i].namespace, t[i].scope, t[i].name} \subseteq Seq(STRING)
       /\ t[i].class \in Leaves <=> i = Len(t)
       /\ t[i].class = "Decayed" => i = 1
       /\ t[i].class \in References =>
            \A j \in 1..(i - 1) :
              t[j].class \in {"Elaborated", "Typedef", "AliasTemplate", "Paren"}

VARIABLES
  type,      \* the type Create was called for, or NoInfo
  at,        \* the layer that is visited next
  frames,    \* the TypeInfos that are being filled in, one for each call
  created,   \* what Create has returned, or NoInfo
  crashed    \* the process has ended in the visitor

typeVars == <<type, at, frames, created, crashed>>

Fresh ==
  [quals |-> {}, reference |-> FALSE, rvReference |-> FALSE, pointers |-> 0,
   declaredName |-> <<>>, scopedName |-> <<>>, fullName |-> <<>>,
   type |-> "NoType", wellKnown |-> "none",
   inner |-> <<>>]   \* the item type of an array or what an alias stands for,
                     \* what is inside of that, and so on

TypeInit ==
  /\ type = NoInfo /\ at = 1 /\ frames = <<>>
  /\ created = NoInfo /\ crashed = FALSE

\* TypeInfo::Create(qt, astContext) is called.
CreateForType(t) ==
  /\ type' = t /\ at' = 1 /\ frames' = <<Fresh>> /\ created' = NoInfo
  /\ UNCHANGED crashed

Layer    == type[at]
Top      == frames[Len(frames)]
Below    == SubSeq(frames, 1, Len(frames) - 1)
Visiting == frames # <<>> /\ at <= Len(type) /\ ~crashed

\* isConstQualified and isVolatileQualified look through what the canonical type
\* leaves out, and at the elements of an array.
SeenThrough == {"Elaborated", "Typedef", "Paren", "IncompleteArray"} \cup Nesting
CanonicalQuals(i) ==
  UNION {type[j].quals : j \in {k \in i..Len(type) :
                                  \A l \in i..(k - 1) : type[l].class \in SeenThrough}}

\* Faulty: the qualifiers of a layer replace those of the layers around it.
MutQualified(info) == [info EXCEPT !.quals = CanonicalQuals(at)]

\* VisitQualType, for the TypeInfo that is filled in now.
Qualified(info) == [info EXCEPT !.quals = @ \cup CanonicalQuals(at)]

\* The visitor has noted something and goes on to the next layer.
Note(info) ==
  /\ frames' = Append(Below, info)
  /\ at' = at + 1
  /\ UNCHANGED <<type, created, crashed>>

\* VisitElaboratedType, VisitTypedefType, VisitDecayedType.
VisitSugar == Visiting /\ Layer.class \in Sugar /\ Note(Qualified(Top))

\* T& is spelled as an lvalue reference.  T&& is not, nor is the lvalue reference
\* that && makes of a T that is one itself.
SpelledAsLValue == Layer.class = "LValueReference"

VisitReferenceType ==
  /\ Visiting /\ Layer.class \in References
  /\ Note([Qualified(Top) EXCEPT !.reference = @ \/ SpelledAsLValue,
                                 !.rvReference = @ \/ ~SpelledAsLValue])

VisitPointerType ==
  /\ Visiting /\ Layer.class = "Pointer"
  /\ Note([Qualified(Top) EXCEPT !.pointers = @ + 1])

-------------------------------------------------------------------------------
(* The layers at which the visitor stops. *)

Scoped(scope, name) == IF scope = <<>> THEN name ELSE scope \o <<"::">> \o name

\* FillDeclDependentFields and the names of a builtin type.
WithNames(info, namespace, scope, name) ==
  [info EXCEPT !.declaredName = name, !.scopedName = Scoped(scope, name),
               !.fullName = Scoped(namespace, Scoped(scope, name))]

NamedByDecl(info) == WithNames(info, Layer.namespace, Layer.scope, Layer.name)

CharKinds == {"Char_U", "Char_S", "WChar_U", "WChar_S", "SChar", "UChar",
              "Char16", "Char32"}
IntKinds  == {"Void", "Bool", "UShort", "Short", "UInt", "Int", "ULong", "Long",
              "ULongLong", "LongLong", "Float", "Double", "LongDouble", "NullPtr"}

\* The classes that VisitBuiltinType sorts the kinds into; those that are no
\* characters have a class of their own for each pair of signed and unsigned.  None
\* is WChar, so that a string of wchar_t is a StdString, and none a StdWstring.
BuiltinClass(kind) ==
  CASE kind \in CharKinds -> "Char"
    [] kind \in IntKinds  -> "Other"
    [] OTHER              -> "Extended"

VisitBuiltinType ==
  /\ Visiting /\ Layer.class = "Builtin"
  /\ LET name == IF BuiltinClass(Layer.kind) = "Extended" THEN <<>> ELSE <<Layer.kind>>
     IN  Note(WithNames([Qualified(Top) EXCEPT !.type = "Builtin"], <<>>, <<>>, name))

\* VisitRecordType, VisitEnumType.
VisitNamedType ==
  /\ Visiting /\ Layer.class \in Named
  /\ Note(NamedByDecl([Qualified(Top) EXCEPT !.type = Layer.class]))

\* VisitDecltypeType, VisitTemplateTypeParmType.
VisitUnnamedType ==
  /\ Visiting /\ Layer.class \in {"Decltype", "TemplateTypeParm"}
  /\ Note([Qualified(Top) EXCEPT !.type = Layer.class])

\* No Visit function takes the type: it is NoType, and VisitType of clang's
\* TypeVisitor returns false, so nothing that is inside is visited.
VisitOther ==
  /\ Visiting /\ Layer.class \in Unvisited \cup {"Other"}
  /\ frames' = Append(Below, Qualified(Top))
  /\ at' = Len(type) + 1
  /\ UNCHANGED <<type, created, crashed>>

Std(name) == <<"std", "::", name>>

OtherWellKnown ==
  {"vector", "array", "list", "deque", "map", "set", "unordered_map",
   "unordered_set", "shared_ptr", "unique_ptr", "optional"}

\* DetectWellKnownType, by the full name and, of a string, the first argument.
WellKnown(info) ==
  IF info.fullName = Std("basic_string")
  THEN CASE BuiltinClass(Layer.kind) = "Char"  -> "StdString"
         [] BuiltinClass(Layer.kind) = "WChar" -> "StdWstring"
         [] OTHER                              -> "none"
  ELSE IF \E n \in OtherWellKnown : info.fullName = Std(n) THEN "Std" ELSE "none"

\* The first argument of a string is no builtin type: DCHECK(charType), and then
\* the null pointer is dereferenced.
NoCharType(info) == info.fullName = Std("basic_string") /\ Layer.kind = "dependent"

VisitTemplateSpecializationType ==
  /\ Visiting /\ Layer.class = "TemplateSpecialization"
  /\ LET named == NamedByDecl(Qualified(Top))
         known == WellKnown(named)
     IN  IF NoCharType(named)
         THEN crashed' = TRUE /\ UNCHANGED <<type, at, frames, created>>
         ELSE Note([named EXCEPT !.wellKnown = known,
                                 !.type = IF known = "none" THEN "Template"
                                          ELSE "WellKnownType"])

-------------------------------------------------------------------------------
(* The calls of Create below. *)

\* VisitConstantArrayType, and VisitTemplateSpecializationType for an alias.
\* What it is goes into the TypeInfo at the end, where nothing has asked for it.
VisitNesting ==
  /\ Visiting /\ Layer.class \in Nesting
  /\ LET outer == IF Layer.class = "ConstantArray"
                  THEN [Qualified(Top) EXCEPT !.type = "Array"]
                  ELSE NamedByDecl([Qualified(Top) EXCEPT !.type = "Template"])
     IN  frames' = Append(Append(Below, outer), Fresh)
  /\ at' = at + 1
  /\ UNCHANGED <<type, created, crashed>>

\* An array of arrays becomes one array, of what the inner one is of.
Item(outer, element) ==
  IF outer.type = "Array" /\ element.type = "Array" THEN element.inner
  ELSE <<element>> \o element.inner

Unwrapped == frames # <<>> /\ at > Len(type)

ReturnToVisitor ==
  /\ Unwrapped /\ Len(frames) > 1
  /\ LET outer == Below[Len(Below)]
     IN  frames' = [Below EXCEPT ![Len(Below)].inner = Item(outer, Top)]
  /\ UNCHANGED <<type, at, created, crashed>>

ReturnToCaller ==
  /\ Unwrapped /\ Len(frames) = 1
  /\ created' = Top
  /\ frames' = <<>>
  /\ UNCHANGED <<type, at, crashed>>

Create ==
  \/ VisitSugar \/ VisitReferenceType \/ VisitPointerType
  \/ VisitBuiltinType \/ VisitNamedType \/ VisitUnnamedType \/ VisitOther
  \/ VisitTemplateSpecializationType \/ VisitNesting
  \/ ReturnToVisitor \/ ReturnToCaller
-------------------------------------------------------------------------------
(* A TypeInfo taken apart and put together again. *)

\* Faulty: the first place where the name occurs is taken.
MutOccurrence(places) == CHOOSE i \in places : \A j \in places : i <= j

\* boost::algorithm::find_last; an empty name is found at the end.
Occurrence(places) == CHOOSE i \in places : \A j \in places : j <= i

\* What is before the name and the "::" that separates them.
GetScope(full, name) ==
  LET places == {i \in 1..(Len(full) - Len(name) + 1) :
                   SubSeq(full, i, i + Len(name) - 1) = name}
      begin  == Occurrence(places)
  IN  IF begin = 1 THEN <<>> ELSE SubSeq(full, 1, begin - 2)

GetTypeDescr(info) ==
  [name |-> info.declaredName,
   scopeSpec |-> GetScope(info.scopedName, info.declaredName),
   namespaceQual |-> GetScope(info.fullName, info.scopedName),
   info |-> info]   \* the fields that are copied

CreateForDescr(descr) ==
  WithNames(descr.info, descr.namespaceQual, descr.scopeSpec, descr.name)

\* Faulty: const is looked at in templates only.
MutCanBeMoved(info) ==
  LET movable == info.rvReference \/ info.pointers = 0
  IN  \/ info.type = "TemplateTypeParm"
      \/ info.type = "Record" /\ movable
      \/ info.type \in {"Template", "WellKnownType"} /\ movable
         /\ (info.reference \/ "const" \in info.quals => info.rvReference)

\* TypeInfo::canBeMoved.
CanBeMoved(info) ==
  LET movable == info.rvReference \/ ("const" \notin info.quals /\ info.pointers = 0)
  IN  \/ info.type = "TemplateTypeParm"
      \/ info.type = "Record" /\ movable
      \/ info.type \in {"Template", "WellKnownType"} /\ movable
         /\ (info.reference => info.rvReference)

-------------------------------------------------------------------------------
(* Properties. *)

\* The layers that the visitor comes to: it stops at what it cannot visit.
Reached == {i \in DOMAIN type : \A j \in 1..(i - 1) : type[j].class \notin Unvisited}

\* The layers whose qualifiers it sees, there or from there.
Shown ==
  {i \in DOMAIN type :
     \E s \in Reached : s <= i /\ \A l \in s..(i - 1) : type[l].class \in SeenThrough}

LayersOf(class) == {i \in Reached : type[i].class = class}

Done == created # NoInfo

\* The TypeInfo of Create and those inside it.
Infos == <<created>> \o created.inner

QualifiersOf(infos) == UNION {infos[n].quals : n \in DOMAIN infos}

\* Each level of each TypeInfo counts.
PointersOf(infos) ==
  Cardinality(UNION {{n} \X (1..infos[n].pointers) : n \in DOMAIN infos})

\* An array of pointers to arrays, however many levels and typedefs between.  Written
\* without a typedef it has a ParenType, and the inner array is not reached.
ArrayOfPointersToArrays ==
  \E outer, inner \in LayersOf("ConstantArray"), p \in LayersOf("Pointer") :
    /\ outer < p /\ p < inner
    /\ \A i \in (outer + 1)..(inner - 1) : type[i].class \notin Nesting

\* However the layers are nested, the TypeInfo and those inside it know every
\* pointer up to the layer at which the visitor stops, every const and volatile that
\* is seen from there, and no other; what is behind a parenthesis, an array of no
\* constant size or a pointer to a member is lost.  Flattening an array drops a
\* TypeInfo, but what that knew is known outside too, unless its elements are
\* pointers: these are lost, and may take along what they point to as const.
LayersKept ==
  LET shown == UNION {type[i].quals : i \in Shown}
  IN  Done =>
        /\ QualifiersOf(Infos) \subseteq shown
        /\ (PointersOf(Infos) = Cardinality(LayersOf("Pointer"))) = ~ArrayOfPointersToArrays
        /\ ArrayOfPointersToArrays \/ QualifiersOf(Infos) = shown

\* getTypeDescr splits the qualified names at the place where the shorter one
\* occurs last; put together again they are what they were, for names that occur
\* more than once and for empty ones too.
DescribedAgain == Done => CreateForDescr(GetTypeDescr(created)) = created
===============================================================================
