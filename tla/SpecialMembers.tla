---------------------------- MODULE SpecialMembers ----------------------------
(***************************************************************************)
(* The methods of a ClassInfo: ReflectImplicitSpecialMembers lists the     *)
(* special members nobody wrote, then ReflectMethod the ones Clang has     *)
(* declarations of.  Clang declares an implicit member when it is first    *)
(* used, so it may have declared any of them.  What is kept of the list is *)
(* how often each is in it; methods that are no special members are left   *)
(* out.                                                                    *)
(***************************************************************************)
EXTENDS Naturals

Constructors == {"default", "copy", "move"}
Copies       == {"copy", "copy="}
Special      == Constructors \cup Copies \cup {"destructor", "move="}

VARIABLES
  class,     \* what Clang knows of the class
  methods,   \* classInfo->methods: how many of each, by what isImplicit says
  next       \* the statement that is next

vars == <<class, methods, next>>

\* The members Clang adds to a class when it comes to need them.
Implicit(c) ==
  LET noneOf(S) == c.written \cap S = {}
      noMove == noneOf({"copy", "move", "copy=", "move=", "destructor"})
  IN  {m \in Special :
         /\ m \notin c.written
         /\ m = "default" => noneOf(Constructors) /\ ~c.otherConstructor
         /\ m \in {"move", "move="} => noMove}

Classes ==
  {c \in [written : SUBSET Special,            \* the user declares these
          userProvidedDefault : BOOLEAN,       \* and the default one has a body
          otherConstructor : BOOLEAN,
          nonConst : SUBSET Copies,            \* copies of a non-const object
          destructorDeleted : BOOLEAN,         \* a defaulted one would be
          declared : SUBSET Special] :         \* Clang has added these so far
     /\ c.userProvidedDefault => "default" \in c.written
     /\ c.declared \subseteq Implicit(c)}

Has(c, m) == m \in c.written \cup Implicit(c)

Init ==
  /\ class \in Classes
  /\ methods = [entry \in Special \X BOOLEAN |-> 0]
  /\ next = "default"

\* One of the six conditional statements of ReflectImplicitSpecialMembers.
ListIf(m, condition, following) ==
  /\ next = m
  /\ next' = following
  /\ methods' = IF condition THEN [methods EXCEPT ![<<m, TRUE>>] = @ + 1] ELSE methods
  /\ UNCHANGED class

DefaultConstructor ==
  ListIf("default", ~class.userProvidedDefault /\ Has(class, "default"), "copy")

\* Faulty: a copy constructor that the user declares is not looked for.
MutCopyConstructor == ListIf("copy", "copy" \notin class.nonConst, "move")

CopyConstructor ==
  ListIf("copy", "copy" \notin class.written /\ "copy" \notin class.nonConst, "move")

MoveConstructor ==
  ListIf("move", "move" \notin class.written /\ Has(class, "move"), "destructor")

Destructor ==
  ListIf("destructor", "destructor" \notin class.written /\ ~class.destructorDeleted,
         "copy=")

CopyAssignment ==
  ListIf("copy=", "copy=" \notin class.written /\ "copy=" \notin class.nonConst, "move=")

\* Faulty: what the user declares is looked at, not what the class has.
MutMoveAssignment == ListIf("move=", "move" \notin class.written, "methods")

\* The user's move constructor is asked for, not the user's move assignment.
MoveAssignment ==
  ListIf("move=", "move" \notin class.written /\ Has(class, "move="), "methods")

\* for (auto methodDecl : decl->methods()): ReflectMethod takes isImplicit from
\* the declaration.
Methods ==
  /\ next = "methods"
  /\ next' = "done"
  /\ methods' = [entry \in Special \X BOOLEAN |->
                   LET isImplicit == entry[2]
                       byClang    == IF isImplicit THEN class.declared ELSE class.written
                   IN  methods[entry] + (IF entry[1] \in byClang THEN 1 ELSE 0)]
  /\ UNCHANGED class

-------------------------------------------------------------------------------
Times(m) == methods[<<m, TRUE>>] + methods[<<m, FALSE>>]

\* What the guards leave out, though the class has it: copies of a non-const
\* object, and a destructor that cannot be called.
LeftOut == class.nonConst \cup (IF class.destructorDeleted THEN {"destructor"} ELSE {})

\* ReflectImplicitSpecialMembers and the loop together list none the class does
\* not have.  They leave none out that is written, or that Clang has declared; of
\* the others just those of LeftOut can be missing.
ExactlyTheMembers ==
  next = "done" =>
    \A m \in Special :
      /\ Times(m) > 0 => Has(class, m)
      /\ Has(class, m) /\ (m \in LeftOut => m \in class.written \cup class.declared)
           => Times(m) > 0

\* A member is in the list twice only if Clang had declared it already, or if it
\* is a default constructor without a body of the user's, or a move assignment of
\* the user's in a class without a move constructor of the user's.  In the last two
\* cases one of the two is listed as implicit, though the user has declared it.
TwiceOnlyThen ==
  \A m \in Special :
    /\ Times(m) <= 2
    /\ Times(m) = 2 =>
         \/ m \in class.declared
         \/ m = "default" /\ ~class.userProvidedDefault
         \/ m = "move=" /\ "move" \notin class.written
===============================================================================
