---------------------------- MODULE NamespacesTree ----------------------------
(***************************************************************************)
(* reflection::NamespacesTree: the namespaces that the reflected           *)
(* declarations lie in.  GetNamespace makes the NamespaceInfo of a         *)
(* declaration context, and those above it, when it is first asked for     *)
(* them; it is recursive, and one step here is one call or one return.     *)
(*                                                                         *)
(* clang has a context for every block  namespace A { }, for the           *)
(* translation unit and for every extern "C++" { }.  A NamespaceInfo is    *)
(* called by the context it was made for.                                  *)
(***************************************************************************)
EXTENDS Integers, Sequences

CONSTANTS
  Context,      \* the contexts of the translation unit
  Unit,         \* the translation unit itself
  Parent,       \* of a context: the one it lies in
  Kind,         \* of a context: "unit", "namespace" or "linkage"
  Anonymous,    \* the anonymous namespaces
  Name,         \* of a context: its name
  None          \* a null pointer

ASSUME ContextAssumption ==
  /\ Unit \in Context /\ None \notin Context
  /\ Kind \in [Context -> {"unit", "namespace", "linkage"}]
  /\ \A c \in Context : Kind[c] = "unit" <=> c = Unit
  /\ Parent \in [Context \ {Unit} -> Context]
  /\ Anonymous \subseteq Context /\ Unit \notin Anonymous
  /\ DOMAIN Name = Context
  /\ \A S \in SUBSET (Context \ {Unit}) : S # {} => \E c \in S : Parent[c] \notin S

VARIABLES
  m_namespaces,      \* the contexts that have been asked for, and their infos
  m_rootNamespace,
  innerNamespaces,   \* of every info
  qualifier,         \* of every info: namespaceQualifier, a sequence of names
  calls,             \* the calls of GetNamespace that have not returned
  returned           \* what the last one has returned, or None

treeVars == <<m_namespaces, m_rootNamespace, innerNamespaces, qualifier, calls,
              returned>>

TreeInit ==
  /\ m_namespaces = <<>>
  /\ m_rootNamespace = None
  /\ innerNamespaces = [c \in Context |-> <<>>]
  /\ qualifier = [c \in Context |-> <<>>]
  /\ calls = <<>>
  /\ returned = None

\* A function with one more argument.
With(f, x, y) == [z \in DOMAIN f \cup {x} |-> IF z = x THEN y ELSE f[z]]

\* GetFullQualifiedName of a namespace; the root has no name.
FullQualifiedName(ns) ==
  IF ns = Unit THEN <<>> ELSE Append(qualifier[ns], Name[ns])

Top == calls[Len(calls)]

\* A call that has just begun, or one that goes on with the info of its parent.
Begun   == calls # <<>> /\ returned = None
GoesOn  == calls # <<>> /\ returned # None
Return(ns) == calls' = SubSeq(calls, 1, Len(calls) - 1) /\ returned' = ns

Found ==
  /\ Begun /\ Top \in DOMAIN m_namespaces
  /\ Return(m_namespaces[Top])
  /\ UNCHANGED <<m_namespaces, m_rootNamespace, innerNamespaces, qualifier>>

MakeRoot ==
  /\ Begun /\ Top \notin DOMAIN m_namespaces /\ Kind[Top] = "unit"
  /\ m_namespaces' = With(m_namespaces, Top, Top)
  /\ m_rootNamespace' = Top
  /\ Return(Top)
  /\ UNCHANGED <<innerNamespaces, qualifier>>

\* Faulty: namespaces inside namespaces are forgotten.
MutParentFound == Kind[Parent[Top]] = "unit"

\* The condition of the do-while loop that looks for the parent.
ParentFound == Kind[Parent[Top]] \in {"namespace", "unit"}

\* The parent first.
Ascend ==
  /\ Begun /\ Top \notin DOMAIN m_namespaces /\ Kind[Top] = "namespace"
  /\ ParentFound
  /\ calls' = Append(calls, Parent[Top])
  /\ UNCHANGED <<m_namespaces, m_rootNamespace, innerNamespaces, qualifier,
                 returned>>

\* The loop asks the same namespace for its parent over and over.
Spin ==
  /\ Begun /\ Top \notin DOMAIN m_namespaces /\ Kind[Top] = "namespace"
  /\ ~ParentFound
  /\ UNCHANGED treeVars

\* Faulty: an anonymous namespace always counts as the root.
MutShareParent ==
  /\ GoesOn /\ Top \in Anonymous
  /\ m_namespaces' = With(m_namespaces, Top, m_rootNamespace)
  /\ Return(m_rootNamespace)
  /\ UNCHANGED <<m_rootNamespace, innerNamespaces, qualifier>>

\* An anonymous namespace has no info of its own.
ShareParent ==
  /\ GoesOn /\ Top \in Anonymous
  /\ m_namespaces' = With(m_namespaces, Top, returned)
  /\ Return(returned)
  /\ UNCHANGED <<m_rootNamespace, innerNamespaces, qualifier>>

\* Faulty: the info is not entered into the map.
MutMakeNamespace ==
  /\ GoesOn /\ Top \notin Anonymous
  /\ innerNamespaces' = [innerNamespaces EXCEPT ![returned] = Append(@, Top)]
  /\ qualifier' = [qualifier EXCEPT ![Top] = FullQualifiedName(returned)]
  /\ Return(Top)
  /\ UNCHANGED <<m_namespaces, m_rootNamespace>>

\* Faulty: every new info becomes the root.
MutMakeNamespaceRoot ==
  /\ GoesOn /\ Top \notin Anonymous
  /\ m_namespaces' = With(m_namespaces, Top, Top)
  /\ m_rootNamespace' = Top
  /\ innerNamespaces' = [innerNamespaces EXCEPT ![returned] = Append(@, Top)]
  /\ qualifier' = [qualifier EXCEPT ![Top] = FullQualifiedName(returned)]
  /\ Return(Top)

\* An info with the name, and the full name of the parent before it.
MakeNamespace ==
  /\ GoesOn /\ Top \notin Anonymous
  /\ m_namespaces' = With(m_namespaces, Top, Top)
  /\ innerNamespaces' = [innerNamespaces EXCEPT ![returned] = Append(@, Top)]
  /\ qualifier' = [qualifier EXCEPT ![Top] = FullQualifiedName(returned)]
  /\ Return(Top)
  /\ UNCHANGED m_rootNamespace

GetNamespaceStep ==
  Found \/ MakeRoot \/ Ascend \/ Spin \/ ShareParent \/ MakeNamespace

-------------------------------------------------------------------------------
\* The types of the tree and of its calls: each call but the first is for the
\* parent of the one below it.
TreeTypeOK ==
  /\ DOMAIN m_namespaces \subseteq Context
  /\ \A c \in DOMAIN m_namespaces : m_namespaces[c] \in Context
  /\ m_rootNamespace \in {None, Unit}
  /\ innerNamespaces \in [Context -> Seq(Context)]
  /\ DOMAIN qualifier = Context
  /\ calls \in Seq(Context)
  /\ returned \in Context \cup {None}

\* GetNamespace: every context that was asked for has the info of its own
\* namespace: the root for the unit, that of its parent for an anonymous one;
\* an info is listed by the info above it, once, and by no other.
TreeOK ==
  /\ \A c \in DOMAIN m_namespaces \ {Unit} :
       /\ Parent[c] \in DOMAIN m_namespaces
       /\ m_namespaces[c] = IF c \in Anonymous THEN m_namespaces[Parent[c]] ELSE c
  /\ Unit \in DOMAIN m_namespaces =>
       m_namespaces[Unit] = Unit /\ m_rootNamespace = Unit
  /\ \A c \in Context : c \in DOMAIN m_namespaces \ (Anonymous \cup {Unit}) <=>
       \E p \in Context : \E i \in DOMAIN innerNamespaces[p] :
         innerNamespaces[p][i] = c
  /\ \A p, q \in Context :
       \A i \in DOMAIN innerNamespaces[p], j \in DOMAIN innerNamespaces[q] :
         innerNamespaces[p][i] = innerNamespaces[q][j] => p = q /\ i = j
  /\ \A p \in Context : \A i \in DOMAIN innerNamespaces[p] :
       p = m_namespaces[Parent[innerNamespaces[p][i]]]

\* No call of GetNamespace goes on for ever, however deep the namespaces lie,
\* but for a namespace right inside an extern "C++" block.
EveryCallReturns ==
  calls # <<>> ~> \/ calls = <<>>
                  \/ Top # Unit /\ Kind[Parent[Top]] = "linkage"
===============================================================================
