----------------------------- MODULE AstReflector -----------------------------
(***************************************************************************)
(* reflection::AstReflector: ReflectClass, ReflectEnum and ReflectTypedef  *)
(* make the info of a declaration and enter it into the NamespacesTree,    *)
(* unless the tree has an info of that name.  A plugin calls them one      *)
(* after the other, with a tree or without.                                *)
(*                                                                         *)
(* Of an info the model keeps the declaration, the namespace it says it    *)
(* lies in, and for a class what it lists of the definition.  Methods,     *)
(* bases and types have no part in the tree.                               *)
(***************************************************************************)
EXTENDS NamespacesTree

CONSTANTS
  Decl,            \* declarations of classes, enums and typedefs
  Asked,           \* those that plugins ask for
  What,            \* of a declaration: "class", "enum" or "typedef"
  Within,          \* of a declaration: the context it lies in
  QualifiedName,   \* of a declaration
  Definition,      \* of a class: the declaration that defines it, or None
  Body,            \* of a class definition: what is declared in it
  Primary,         \* of a context: the first that opens the same namespace
  Inline,          \* the inline namespaces
  CheckAsserts     \* TRUE for a build in which DCHECK ends the process

Whats == {"class", "enum", "typedef"}

\* What a class declares: a class, an enum or a typedef, given by decl, or a
\* data member; an unnamed union, and all that the loop passes over.
Member == [is : {"decl", "field", "variable", "unnamed", "other"},
           decl : Decl \cup {None}]

\* A typedef in an extern "C" block is not an input: GetNamespace would take the
\* block for a namespace.
ASSUME DeclAssumption ==
  /\ None \notin Decl \cup [decl : Decl, asked : Decl, recursive : BOOLEAN]
  /\ Asked \subseteq Decl
  /\ What \in [Decl -> Whats]
  /\ Within \in [Decl -> Context]
  /\ \A d \in Decl : What[d] = "typedef" => Kind[Within[d]] # "linkage"
  /\ DOMAIN QualifiedName = Decl
  /\ Body \in [Decl -> Seq(Member)]
  /\ Inline \subseteq Context \ Anonymous
  /\ CheckAsserts \in BOOLEAN

\* A definition is the declaration of a class that defines itself, under the name of
\* those it defines.
ASSUME DefinitionAssumption ==
  /\ Definition \in [Decl -> Decl \cup {None}]
  /\ \A d \in Decl : Definition[d] # None =>
       /\ What[d] = "class" /\ What[Definition[d]] = "class"
       /\ Definition[Definition[d]] = Definition[d]
       /\ QualifiedName[Definition[d]] = QualifiedName[d]

\* Of the contexts that open one namespace the first is the same for all.
ASSUME PrimaryAssumption ==
  /\ Primary \in [Context -> Context]
  /\ \A c \in Context :
       /\ Primary[Primary[c]] = Primary[c]
       /\ Kind[Primary[c]] = Kind[c] /\ Name[Primary[c]] = Name[c]
       /\ c \in Anonymous <=> Primary[c] \in Anonymous

VARIABLES
  op,          \* the call that is running, or None
  contents,    \* of every info of a namespace: its classes, enums, typedefs
  known,       \* for each declaration, what a call with the tree returned
  aborted      \* a DCHECK has ended the process

reflectVars == <<op, contents, known, aborted>>
vars == <<treeVars, reflectVars>>

-------------------------------------------------------------------------------
(* What an info says.                                                      *)

\* Faulty: any declaration of a class will do.
MutDescribed(d) == d

\* A class is reflected by its definition if it has one.
Described(d) ==
  IF What[d] = "class" /\ Definition[d] # None THEN Definition[d] ELSE d

\* DeclContext::isFileContext, and the namespace or unit a context lies in.
FileContext[c \in Context] ==
  IF Kind[c] = "linkage" THEN FileContext[Parent[c]] ELSE c

\* That namespace, by the first of the contexts that open it.
NamespaceOf(c) == Primary[FileContext[c]]

\* The contexts that open one namespace lie in one namespace, and so do the
\* declarations of one class.
ASSUME NamespaceAssumption ==
  /\ \A b, c \in Context : Kind[b] = "namespace" /\ Primary[b] = Primary[c] =>
       NamespaceOf(Parent[b]) = NamespaceOf(Parent[c])
  /\ \A d \in Decl : Definition[d] # None =>
       NamespaceOf(Within[Definition[d]]) = NamespaceOf(Within[d])

\* The names of the namespaces a context lies in, the unwritten ones left out.
WrittenNames[c \in Context] ==
  IF c = Unit THEN <<>>
  ELSE IF Kind[c] = "linkage" \/ c \in Anonymous \cup Inline
  THEN WrittenNames[Parent[c]]
  ELSE Append(WrittenNames[Parent[c]], Name[c])

\* SetupNamedDeclInfo prints the name of the nearest namespace and cuts
\* "(anonymous)" out of it.
NamespaceQualifier(d) ==
  LET ns == FileContext[Within[d]]
  IN  IF ns = Unit \/ ns \in Anonymous THEN WrittenNames[ns]
      ELSE Append(WrittenNames[Parent[ns]], Name[ns])

\* An info without what is inside the class.
Plain(d) == [decl |-> d, namespaceQualifier |-> NamespaceQualifier(d),
             members |-> <<>>, innerDecls |-> <<>>]

IsDataMember(m) == m.is \in {"field", "variable"}
IsInnerDecl(m)  == m.is = "decl"

\* The info of a class, with what it lists of the declarations inside.
ClassInfo(d, inner) ==
  [Plain(d) EXCEPT !.members = SelectSeq(Body[d], IsDataMember), !.innerDecls = inner]

\* The inner classes are reflected in turn, without a tree.
InnerInfos[d \in Decl] ==
  LET inner == SelectSeq(Body[d], IsInnerDecl)
      InfoOf(e) == IF What[e] = "class" THEN ClassInfo(Described(e), InnerInfos[Described(e)])
                   ELSE Plain(e)
  IN  [i \in DOMAIN inner |-> InfoOf(inner[i].decl)]

\* Without recursive the inner classes are listed, but with no info.
Info(d, recursive) ==
  LET IsClass(info) == What[info.decl] = "class"
      inner == InnerInfos[d]
  IN  IF What[d] # "class" THEN Plain(d)
      ELSE IF recursive THEN ClassInfo(d, inner)
      ELSE ClassInfo(d, [i \in DOMAIN inner |-> IF IsClass(inner[i]) THEN None ELSE inner[i]])

Defined(d) == What[d] = "class" /\ Definition[d] # None

\* DCHECK(nsTree) fails in a call for a class with a definition that is given no
\* tree; the call for an inner class is one.
TreeMissing(d, recursive) ==
  /\ Defined(d) /\ recursive
  /\ \E i \in DOMAIN Body[d] : Body[d][i].is = "decl" /\ Defined(Body[d][i].decl)

-------------------------------------------------------------------------------
Init ==
  /\ TreeInit
  /\ op = None
  /\ contents = [c \in Context |-> [w \in Whats |-> <<>>]]
  /\ known = [d \in Decl |-> None]
  /\ aborted = FALSE

Idle == op = None /\ ~aborted

\* A typedef asks for the context it lies in, the others for the namespace, by
\* the first of the contexts that open it.
NsContext(d) ==
  IF What[d] = "typedef" THEN Within[d] ELSE NamespaceOf(Within[d])

\* The call begins: nsTree->GetNamespace(nsContext).  Only ReflectClass has the
\* parameter recursive.
Reflect(d, recursive) ==
  /\ Idle /\ (What[d] = "class" \/ recursive)
  /\ op' = [decl |-> Described(d), asked |-> d, recursive |-> recursive]
  /\ calls' = <<NsContext(d)>>
  /\ returned' = None
  /\ UNCHANGED <<m_namespaces, m_rootNamespace, innerNamespaces, qualifier,
                 contents, known, aborted>>

GetNamespace ==
  /\ op # None
  /\ GetNamespaceStep
  /\ UNCHANGED reflectVars

\* FindExisting in the list that fits.
Listed == contents[returned][What[op.decl]]

\* Faulty: the declarations themselves are compared.
MutExisting ==
  {i \in DOMAIN Listed : Listed[i].decl = op.asked}

Existing ==
  {i \in DOMAIN Listed :
     QualifiedName[Listed[i].decl] = QualifiedName[op.decl]}

Answer(info) ==
  /\ op' = None
  /\ known' = [known EXCEPT ![op.asked] = info]

FoundExisting ==
  /\ op # None /\ calls = <<>> /\ Existing # {}
  /\ Answer(Listed[CHOOSE i \in Existing : \A j \in Existing : i <= j])
  /\ UNCHANGED <<treeVars, contents, aborted>>

\* Faulty: the info is not entered.
MutMakeInfo ==
  /\ op # None /\ calls = <<>> /\ Existing = {}
  /\ ~(CheckAsserts /\ TreeMissing(op.decl, op.recursive))
  /\ Answer(Info(op.decl, op.recursive))
  /\ UNCHANGED <<treeVars, contents, aborted>>

\* The info is made and entered last.
MakeInfo ==
  /\ op # None /\ calls = <<>> /\ Existing = {}
  /\ ~(CheckAsserts /\ TreeMissing(op.decl, op.recursive))
  /\ LET info == Info(op.decl, op.recursive)
     IN  /\ Answer(info)
         /\ contents' = [contents EXCEPT ![returned][What[op.decl]] = Append(@, info)]
  /\ UNCHANGED <<treeVars, aborted>>

\* A class inside the class has a definition.
InnerClassAborts ==
  /\ op # None /\ calls = <<>> /\ Existing = {}
  /\ CheckAsserts /\ TreeMissing(op.decl, op.recursive)
  /\ aborted' = TRUE
  /\ UNCHANGED <<treeVars, op, contents, known>>

\* The same calls with no tree: the info is made and nothing is entered, but a
\* class with a definition fails the DCHECK.
ReflectWithoutTree(d) ==
  /\ Idle
  /\ aborted' = (CheckAsserts /\ Defined(d))
  /\ UNCHANGED <<treeVars, op, contents, known>>

Dead == aborted /\ UNCHANGED vars

Next ==
  \/ \E d \in Asked, recursive \in BOOLEAN : Reflect(d, recursive)
  \/ \E d \in Asked : ReflectWithoutTree(d)
  \/ GetNamespace \/ FoundExisting \/ MakeInfo \/ InnerClassAborts
  \/ Dead

\* A call that is running goes on; nobody has to call.
Spec == Init /\ [][Next]_vars /\ WF_vars(GetNamespace)

-------------------------------------------------------------------------------
(* What holds of the infos.                                                *)

\* The types of the reflector's own state; with no call running GetNamespace is
\* not running either.
TypeOK ==
  /\ TreeTypeOK
  /\ op # None => op.decl \in Decl /\ op.asked \in Decl
  /\ op = None => calls = <<>>
  /\ \A c \in Context : \A w \in Whats :
       \A i \in DOMAIN contents[c][w] : What[contents[c][w][i].decl] = w
  /\ \A d \in Decl : known[d] # None => What[known[d].decl] = What[d]
  /\ aborted \in BOOLEAN

\* No list of a namespace has two infos of one name.
OneInfoPerName ==
  \A c \in Context : \A w \in Whats :
    \A i, j \in DOMAIN contents[c][w] :
      QualifiedName[contents[c][w][i].decl] = QualifiedName[contents[c][w][j].decl]
        => i = j

\* The names of the namespaces a context lies in.
Path[c \in Context] ==
  IF c = Unit THEN <<>>
  ELSE IF Kind[c] = "linkage" \/ c \in Anonymous THEN Path[Parent[c]]
  ELSE Append(Path[Parent[c]], Name[c])

InlineAbove[c \in Context] ==
  IF c = Unit THEN FALSE
  ELSE Parent[c] \in Inline \/ InlineAbove[Parent[c]]

\* A declaration is listed by the namespace it lies in; and the two ways in which
\* the code comes by the name of that namespace, up the contexts in
\* SetupNamedDeclInfo and down the tree in GetNamespace, agree on it, unless it
\* lies in an inline namespace.
PlacedWhereDeclared ==
  \A c \in Context : \A w \in Whats :
    \A i \in DOMAIN contents[c][w] :
      LET info == contents[c][w][i]
      IN  /\ FullQualifiedName(c) = Path[Within[info.decl]]
          /\ ~InlineAbove[Within[info.decl]] =>
               info.namespaceQualifier = FullQualifiedName(c)

\* The block whose info a context has: an anonymous namespace shares that of the
\* block around it.
Block[c \in Context] == IF c \in Anonymous THEN Block[Parent[c]] ELSE c

\* The pairs of declarations of one thing: of one kind and one name, in one
\* namespace, though not always in the same of the blocks that open it.
Redeclared ==
  {p \in Decl \X Decl :
     /\ What[p[1]] = What[p[2]] /\ QualifiedName[p[1]] = QualifiedName[p[2]]
     /\ NamespaceOf(Within[p[1]]) = NamespaceOf(Within[p[2]])}

\* Declarations of one class or one enum get the same info, whichever of them is
\* asked for first, whether or not it is the definition and in whichever block of
\* the namespace it stands.  The declarations of a typedef do so only within one
\* block: ReflectTypedef asks for the block itself, and in a block that opens the
\* namespace again the same typedef has another info.
AnsweredAlike ==
  \A p \in Redeclared :
    LET d == p[1]
        e == p[2]
    IN  known[d] # None /\ known[e] # None =>
          (known[d] = known[e] <=> (What[d] = "typedef" => Block[Within[d]] = Block[Within[e]]))

\* What declares the same as d.
Same(d) ==
  {e \in Decl : e = d \/ (What[d] = "class" /\ What[e] = "class" /\
                          Definition[d] # None /\ Definition[e] = Definition[d])}

\* The declarations whose name no other declaration of their kind has.
ToldApart ==
  {d \in Decl :
     {e \in Decl : What[e] = What[d] /\ QualifiedName[e] = QualifiedName[d]} = Same(d)}

\* What a call returns is the info of what it was asked for, and if there is a
\* definition of that, as long as the name tells the declarations apart.
InfoIsOfTheDecl ==
  \A d \in ToldApart : known[d] # None =>
    /\ known[d].decl \in Same(d)
    /\ Definition[d] # None => known[d].decl = Definition[d]

\* ReflectClass: DCHECK(nsTree).  A call that is given a tree never fails it.
TreeGivenIsEnough == aborted => op = None
===============================================================================
