------------------------- MODULE NamespacesTreeProofs -------------------------
(***************************************************************************)
(* One step of GetNamespace keeps the tree, whatever contexts there are    *)
(* and however deep the calls are.                                         *)
(***************************************************************************)
EXTENDS NamespacesTree, SequenceTheorems, TLAPS

\* The calls of GetNamespace: each but the last waits for its parent, which is
\* asked for next, and has no info yet; no context is asked for twice.
CallsOK ==
  /\ \A i \in 1..Len(calls) : Kind[calls[i]] # "linkage"
  /\ \A i \in 1..(Len(calls) - 1) :
       /\ Kind[calls[i]] = "namespace"
       /\ calls[i] \notin DOMAIN m_namespaces
       /\ calls[i + 1] = Parent[calls[i]]
  /\ \A i, j \in 1..Len(calls) : calls[i] = calls[j] => i = j

\* What a call has returned to the one that goes on.
ReturnedOK ==
  GoesOn =>
    /\ Kind[Top] = "namespace"
    /\ Top \notin DOMAIN m_namespaces
    /\ Parent[Top] \in DOMAIN m_namespaces
    /\ returned = m_namespaces[Parent[Top]]

\* An info is that of a context which was asked for itself.
InfosOK ==
  \A c \in DOMAIN m_namespaces :
    /\ Kind[c] # "linkage"
    /\ m_namespaces[c] \in DOMAIN m_namespaces \ Anonymous
    /\ m_namespaces[m_namespaces[c]] = m_namespaces[c]

TreeInv == TreeTypeOK /\ TreeOK /\ CallsOK /\ ReturnedOK /\ InfosOK

-------------------------------------------------------------------------------
\* A sequence without its last element.
LEMMA DropLast ==
  ASSUME NEW S, NEW s \in Seq(S), s # <<>>
  PROVE  /\ SubSeq(s, 1, Len(s) - 1) \in Seq(S)
         /\ Len(SubSeq(s, 1, Len(s) - 1)) = Len(s) - 1
         /\ \A i \in 1..(Len(s) - 1) : SubSeq(s, 1, Len(s) - 1)[i] = s[i]
<1>1. PICK n \in Nat : n = Len(s) - 1
  OBVIOUS
<1>2. \A i \in 1..n : s[i] \in S
  BY <1>1
<1>3. /\ SubSeq(s, 1, n) \in Seq(S)
      /\ Len(SubSeq(s, 1, n)) = IF 1 <= n THEN n - 1 + 1 ELSE 0
      /\ \A i \in 1..(n - 1 + 1) : SubSeq(s, 1, n)[i] = s[1 + i - 1]
  BY <1>2, SubSeqProperties
<1>4. (IF 1 <= n THEN n - 1 + 1 ELSE 0) = n /\ n - 1 + 1 = n
  OBVIOUS
<1>5. \A i \in 1..n : SubSeq(s, 1, n)[i] = s[i]
  <2> TAKE i \in 1..n
  <2>1. 1 + i - 1 = i
    OBVIOUS
  <2>2. QED
    BY <1>3, <1>4, <2>1
<1>6. QED
  BY <1>1, <1>3, <1>4, <1>5

\* No namespace lies inside itself: the parents of the calls are all different.
LEMMA ParentIsNew ==
  ASSUME calls \in Seq(Context), CallsOK, calls # <<>>, Kind[Top] = "namespace"
  PROVE  \A i \in 1..Len(calls) : calls[i] # Parent[Top]
<1> SUFFICES ASSUME NEW i \in 1..Len(calls), calls[i] = Parent[Top]
             PROVE  FALSE
  OBVIOUS
<1> DEFINE S == {calls[k] : k \in i..Len(calls)}
<1>1. Len(calls) \in Nat /\ Len(calls) >= 1
  OBVIOUS
<1>2. \A k \in i..Len(calls) : calls[k] \in Context /\ Kind[calls[k]] = "namespace"
  BY <1>1 DEF CallsOK, Top
<1>3. S \in SUBSET (Context \ {Unit}) /\ S # {}
  BY <1>1, <1>2, ContextAssumption
<1>4. \A k \in i..Len(calls) : Parent[calls[k]] \in S
  <2>1. ASSUME NEW k \in i..Len(calls), k # Len(calls)
        PROVE  Parent[calls[k]] = calls[k + 1] /\ k + 1 \in i..Len(calls)
    BY <1>1, <2>1 DEF CallsOK
  <2>2. i \in i..Len(calls)
    BY <1>1
  <2>3. QED
    BY <2>1, <2>2 DEF Top
<1>5. \A c \in S : Parent[c] \in S
  BY <1>4
<1> HIDE DEF S
<1>6. QED
  BY <1>3, <1>5, ContextAssumption

\* A call that has begun or goes on is that of a context.
LEMMA TopFacts ==
  ASSUME TreeTypeOK, CallsOK, calls # <<>>
  PROVE  /\ Len(calls) \in Nat /\ Len(calls) >= 1
         /\ Top = calls[Len(calls)] /\ Top \in Context /\ Kind[Top] # "linkage"
BY DEF TreeTypeOK, CallsOK, Top

\* The call at the top returns the info of its context: the one below goes on.
LEMMA ReturnStep ==
  ASSUME TreeTypeOK, CallsOK, calls # <<>>,
         NEW ns \in Context, Return(ns),
         DOMAIN m_namespaces' \subseteq DOMAIN m_namespaces \cup {Top},
         Top \in DOMAIN m_namespaces', m_namespaces'[Top] = ns
  PROVE  CallsOK' /\ ReturnedOK' /\ calls' \in Seq(Context) /\ returned' \in Context \cup {None}
<1> DEFINE n == Len(calls)
<1>1. n \in Nat /\ n >= 1 /\ Top = calls[n]
  BY TopFacts
<1>2. calls' = SubSeq(calls, 1, n - 1) /\ returned' = ns /\ ns # None
  BY ContextAssumption DEF Return
<1>3. calls \in Seq(Context)
  BY DEF TreeTypeOK
<1>4. /\ calls' \in Seq(Context) /\ Len(calls') = n - 1
      /\ \A i \in 1..(n - 1) : calls'[i] = calls[i]
  BY <1>2, <1>3, DropLast
<1>5. \A i \in 1..(n - 1) : calls[i] # Top
  BY <1>1 DEF CallsOK
<1>6. CallsOK'
  BY <1>1, <1>4, <1>5 DEF CallsOK
<1>7. ReturnedOK'
  <2> SUFFICES ASSUME GoesOn'
               PROVE  /\ Kind[Top'] = "namespace" /\ Top' \notin DOMAIN m_namespaces'
                      /\ Parent[Top'] \in DOMAIN m_namespaces'
                      /\ returned' = m_namespaces'[Parent[Top']]
    BY DEF ReturnedOK
  <2>1. n - 1 >= 1 /\ Top' = calls[n - 1]
    BY <1>1, <1>4 DEF GoesOn, Top
  <2>2. /\ Kind[calls[n - 1]] = "namespace" /\ calls[n - 1] \notin DOMAIN m_namespaces
        /\ calls[n] = Parent[calls[n - 1]]
    BY <1>1, <2>1 DEF CallsOK
  <2>3. QED
    BY <1>1, <1>2, <1>5, <2>1, <2>2
<1>8. QED
  BY <1>2, <1>4, <1>6, <1>7

-------------------------------------------------------------------------------
\* The tree is empty.
LEMMA InitTree == TreeInit => TreeInv
<1> SUFFICES ASSUME TreeInit PROVE TreeInv
  OBVIOUS
<1>1. DOMAIN m_namespaces = {} /\ \A p \in Context : innerNamespaces[p] = <<>>
  BY DEF TreeInit
<1>2. TreeTypeOK
  BY <1>1 DEF TreeInit, TreeTypeOK
<1>3. TreeOK
  BY <1>1, ContextAssumption DEF TreeOK
<1>4. CallsOK /\ ReturnedOK /\ InfosOK
  BY <1>1 DEF TreeInit, CallsOK, ReturnedOK, InfosOK, GoesOn
<1>5. QED
  BY <1>2, <1>3, <1>4 DEF TreeInv

\* The context has been asked for before.
LEMMA FoundTree == TreeInv /\ Found => TreeInv'
<1> SUFFICES ASSUME TreeInv, Found PROVE TreeInv'
  OBVIOUS
<1>1. /\ calls # <<>> /\ Top \in DOMAIN m_namespaces /\ Return(m_namespaces[Top])
      /\ UNCHANGED <<m_namespaces, m_rootNamespace, innerNamespaces, qualifier>>
  BY DEF Found, Begun
<1>2. m_namespaces[Top] \in Context
  BY <1>1 DEF TreeInv, TreeTypeOK
<1>3. CallsOK' /\ ReturnedOK' /\ calls' \in Seq(Context) /\ returned' \in Context \cup {None}
  BY <1>1, <1>2, ReturnStep DEF TreeInv
<1>4. TreeTypeOK'
  BY <1>1, <1>3 DEF TreeInv, TreeTypeOK
<1>5. TreeOK' /\ InfosOK'
  BY <1>1 DEF TreeInv, TreeOK, InfosOK
<1>6. QED
  BY <1>3, <1>4, <1>5 DEF TreeInv

\* The info of the translation unit is made.
LEMMA MakeRootTree == TreeInv /\ MakeRoot => TreeInv'
<1> SUFFICES ASSUME TreeInv, MakeRoot PROVE TreeInv'
  OBVIOUS
<1>1. /\ calls # <<>> /\ Top \notin DOMAIN m_namespaces /\ Kind[Top] = "unit"
      /\ m_namespaces' = With(m_namespaces, Top, Top) /\ m_rootNamespace' = Top
      /\ Return(Top) /\ UNCHANGED <<innerNamespaces, qualifier>>
  BY DEF MakeRoot, Begun
<1>2. Top = Unit /\ Unit \in Context
  BY <1>1, TopFacts, ContextAssumption DEF TreeInv
<1>3. /\ DOMAIN m_namespaces' = DOMAIN m_namespaces \cup {Unit}
      /\ m_namespaces'[Unit] = Unit
      /\ \A c \in DOMAIN m_namespaces : m_namespaces'[c] = m_namespaces[c]
  BY <1>1, <1>2 DEF With
<1>4. CallsOK' /\ ReturnedOK' /\ calls' \in Seq(Context) /\ returned' \in Context \cup {None}
  BY <1>1, <1>2, <1>3, ReturnStep DEF TreeInv
<1>5. TreeTypeOK'
  BY <1>1, <1>2, <1>3, <1>4 DEF TreeInv, TreeTypeOK
<1>6. \A c \in DOMAIN m_namespaces : c # Unit /\ Parent[c] \in DOMAIN m_namespaces
  BY <1>1, <1>2 DEF TreeInv, TreeOK
<1>7. TreeOK'
  <2>1. \A p \in Context : \A i \in DOMAIN innerNamespaces[p] :
          innerNamespaces[p][i] \in DOMAIN m_namespaces
    BY DEF TreeInv, TreeOK, TreeTypeOK
  <2>2. QED
    BY <1>1, <1>2, <1>3, <1>6, <2>1 DEF TreeInv, TreeOK
<1>8. InfosOK'
  BY <1>1, <1>2, <1>3, ContextAssumption DEF TreeInv, InfosOK
<1>9. QED
  BY <1>4, <1>5, <1>7, <1>8 DEF TreeInv

\* The parent is asked for.
LEMMA AscendTree == TreeInv /\ Ascend => TreeInv'
<1> SUFFICES ASSUME TreeInv, Ascend PROVE TreeInv'
  OBVIOUS
<1>1. /\ calls # <<>> /\ returned = None
      /\ Top \notin DOMAIN m_namespaces /\ Kind[Top] = "namespace"
      /\ Kind[Parent[Top]] # "linkage" /\ calls' = Append(calls, Parent[Top])
      /\ UNCHANGED <<m_namespaces, m_rootNamespace, innerNamespaces, qualifier, returned>>
  BY DEF Ascend, Begun, ParentFound
<1> DEFINE n == Len(calls)
<1>2. n \in Nat /\ n >= 1 /\ Top = calls[n] /\ Top \in Context /\ calls \in Seq(Context)
  BY <1>1, TopFacts DEF TreeInv, TreeTypeOK
<1>3. Parent[Top] \in Context
  BY <1>1, <1>2, ContextAssumption
<1>4. /\ calls' \in Seq(Context) /\ Len(calls') = n + 1
      /\ calls'[n + 1] = Parent[Top] /\ \A i \in 1..n : calls'[i] = calls[i]
  BY <1>1, <1>2, <1>3
<1>5. \A i \in 1..n : calls[i] # Parent[Top]
  BY <1>1, <1>2, ParentIsNew DEF TreeInv
<1>6. CallsOK'
  <2>1. \A i \in 1..n : /\ Kind[calls[i]] = "namespace"
                        /\ calls[i] \notin DOMAIN m_namespaces
                        /\ calls'[i + 1] = Parent[calls[i]]
    BY <1>1, <1>2, <1>4 DEF TreeInv, CallsOK
  <2>2. \A i \in 1..(n + 1) : Kind[calls'[i]] # "linkage"
    BY <1>1, <1>2, <1>4 DEF TreeInv, CallsOK
  <2>3. \A i, j \in 1..(n + 1) : calls'[i] = calls'[j] => i = j
    BY <1>2, <1>4, <1>5 DEF TreeInv, CallsOK
  <2>4. (n + 1) - 1 = n
    BY <1>2
  <2>5. QED
    BY <1>1, <1>4, <2>1, <2>2, <2>3, <2>4 DEF CallsOK
<1>7. ReturnedOK'
  BY <1>1 DEF ReturnedOK, GoesOn
<1>8. TreeTypeOK'
  BY <1>1, <1>4 DEF TreeInv, TreeTypeOK
<1>9. TreeOK' /\ InfosOK'
  BY <1>1 DEF TreeInv, TreeOK, InfosOK
<1>10. QED
  BY <1>6, <1>7, <1>8, <1>9 DEF TreeInv

\* An anonymous namespace gets the info of its parent.
LEMMA ShareParentTree == TreeInv /\ ShareParent => TreeInv'
<1> SUFFICES ASSUME TreeInv, ShareParent PROVE TreeInv'
  OBVIOUS
<1>1. /\ GoesOn /\ calls # <<>> /\ Top \in Anonymous
      /\ m_namespaces' = With(m_namespaces, Top, returned) /\ Return(returned)
      /\ UNCHANGED <<m_rootNamespace, innerNamespaces, qualifier>>
  BY DEF ShareParent, GoesOn
<1>2. /\ Top \in Context /\ Top # Unit /\ Top \notin DOMAIN m_namespaces
      /\ Parent[Top] \in DOMAIN m_namespaces /\ returned = m_namespaces[Parent[Top]]
      /\ returned \in Context /\ Kind[Top] = "namespace"
  BY <1>1, TopFacts, ContextAssumption DEF TreeInv, ReturnedOK, TreeTypeOK
<1>3. /\ DOMAIN m_namespaces' = DOMAIN m_namespaces \cup {Top}
      /\ m_namespaces'[Top] = returned
      /\ \A c \in DOMAIN m_namespaces : m_namespaces'[c] = m_namespaces[c]
  BY <1>1, <1>2 DEF With
<1>4. CallsOK' /\ ReturnedOK' /\ calls' \in Seq(Context) /\ returned' \in Context \cup {None}
  BY <1>1, <1>2, <1>3, ReturnStep DEF TreeInv
<1>5. TreeTypeOK'
  BY <1>1, <1>2, <1>3, <1>4 DEF TreeInv, TreeTypeOK
<1>6. TreeOK'
  <2>1. \A p \in Context : \A i \in DOMAIN innerNamespaces[p] :
          /\ innerNamespaces[p][i] \in DOMAIN m_namespaces \ {Unit}
          /\ Parent[innerNamespaces[p][i]] \in DOMAIN m_namespaces
    BY DEF TreeInv, TreeOK, TreeTypeOK
  <2>2. \A c \in Context : c \in DOMAIN m_namespaces' \ (Anonymous \cup {Unit})
                           <=> c \in DOMAIN m_namespaces \ (Anonymous \cup {Unit})
    BY <1>1, <1>3
  <2>3. QED
    BY <1>1, <1>2, <1>3, <2>1, <2>2 DEF TreeInv, TreeOK
<1>7. InfosOK'
  BY <1>2, <1>3 DEF TreeInv, InfosOK
<1>8. QED
  BY <1>4, <1>5, <1>6, <1>7 DEF TreeInv

\* A namespace gets an info, which that of its parent lists.
LEMMA MakeNamespaceTree == TreeInv /\ MakeNamespace => TreeInv'
<1> SUFFICES ASSUME TreeInv, MakeNamespace PROVE TreeInv'
  OBVIOUS
<1>1. /\ GoesOn /\ calls # <<>> /\ Top \notin Anonymous
      /\ m_namespaces' = With(m_namespaces, Top, Top) /\ Return(Top)
      /\ innerNamespaces' = [innerNamespaces EXCEPT ![returned] = Append(@, Top)]
      /\ qualifier' = [qualifier EXCEPT ![Top] = FullQualifiedName(returned)]
      /\ UNCHANGED m_rootNamespace
  BY DEF MakeNamespace, GoesOn
<1>2. /\ Top \in Context /\ Top # Unit /\ Top \notin DOMAIN m_namespaces
      /\ Parent[Top] \in DOMAIN m_namespaces /\ returned = m_namespaces[Parent[Top]]
      /\ returned \in Context /\ Kind[Top] = "namespace"
  BY <1>1, TopFacts, ContextAssumption DEF TreeInv, ReturnedOK, TreeTypeOK
<1>3. /\ DOMAIN m_namespaces' = DOMAIN m_namespaces \cup {Top}
      /\ m_namespaces'[Top] = Top
      /\ \A c \in DOMAIN m_namespaces : m_namespaces'[c] = m_namespaces[c]
  BY <1>1, <1>2 DEF With
<1>4. CallsOK' /\ ReturnedOK' /\ calls' \in Seq(Context) /\ returned' \in Context \cup {None}
  BY <1>1, <1>2, <1>3, ReturnStep DEF TreeInv
<1>5. innerNamespaces \in [Context -> Seq(Context)] /\ DOMAIN qualifier = Context
  BY DEF TreeInv, TreeTypeOK
<1>6. /\ innerNamespaces' \in [Context -> Seq(Context)]
      /\ \A p \in Context : p # returned => innerNamespaces'[p] = innerNamespaces[p]
      /\ innerNamespaces'[returned] = Append(innerNamespaces[returned], Top)
  BY <1>1, <1>2, <1>5
<1> DEFINE last == Len(innerNamespaces[returned]) + 1
<1>7. /\ innerNamespaces[returned] \in Seq(Context)
      /\ DOMAIN innerNamespaces'[returned] = DOMAIN innerNamespaces[returned] \cup {last}
      /\ last \notin DOMAIN innerNamespaces[returned]
      /\ innerNamespaces'[returned][last] = Top
      /\ \A i \in DOMAIN innerNamespaces[returned] :
           innerNamespaces'[returned][i] = innerNamespaces[returned][i]
  <2>1. innerNamespaces[returned] \in Seq(Context)
    BY <1>2, <1>5
  <2>2. /\ Append(innerNamespaces[returned], Top) \in Seq(Context)
        /\ Len(Append(innerNamespaces[returned], Top)) = last
        /\ \A i \in 1..Len(innerNamespaces[returned]) :
             Append(innerNamespaces[returned], Top)[i] = innerNamespaces[returned][i]
        /\ Append(innerNamespaces[returned], Top)[last] = Top
    BY <1>2, <2>1, AppendProperties
  <2>3. /\ DOMAIN innerNamespaces[returned] = 1..Len(innerNamespaces[returned])
        /\ Len(innerNamespaces[returned]) \in Nat
        /\ DOMAIN innerNamespaces'[returned] = 1..last
    BY <1>6, <2>1, <2>2, LenProperties
  <2>4. QED
    BY <1>6, <2>1, <2>2, <2>3
<1> HIDE DEF last
<1>8. TreeTypeOK'
  BY <1>1, <1>2, <1>3, <1>4, <1>6 DEF TreeInv, TreeTypeOK
<1>9. \A p \in Context : \A i \in DOMAIN innerNamespaces'[p] :
        \/ i \in DOMAIN innerNamespaces[p] /\ innerNamespaces'[p][i] = innerNamespaces[p][i]
        \/ p = returned /\ i = last /\ innerNamespaces'[p][i] = Top
  BY <1>6, <1>7
<1>10. \A p \in Context : \A i \in DOMAIN innerNamespaces[p] :
         /\ i \in DOMAIN innerNamespaces'[p] /\ innerNamespaces'[p][i] = innerNamespaces[p][i]
         /\ innerNamespaces[p][i] \in DOMAIN m_namespaces \ {Unit}
         /\ Parent[innerNamespaces[p][i]] \in DOMAIN m_namespaces
  <2>1. \A p \in Context : \A i \in DOMAIN innerNamespaces[p] : innerNamespaces[p][i] \in Context
    BY <1>5
  <2>2. QED
    BY <1>6, <1>7, <2>1 DEF TreeInv, TreeOK
<1>11. TreeOK'
  <2>1. \A c \in DOMAIN m_namespaces' \ {Unit} :
          /\ Parent[c] \in DOMAIN m_namespaces'
          /\ m_namespaces'[c] = IF c \in Anonymous THEN m_namespaces'[Parent[c]] ELSE c
    BY <1>1, <1>2, <1>3 DEF TreeInv, TreeOK
  <2>2. Unit \in DOMAIN m_namespaces' =>
          m_namespaces'[Unit] = Unit /\ m_rootNamespace' = Unit
    BY <1>1, <1>2, <1>3 DEF TreeInv, TreeOK
  <2>3. ASSUME NEW c \in Context
        PROVE  c \in DOMAIN m_namespaces' \ (Anonymous \cup {Unit}) <=>
                 \E p \in Context : \E i \in DOMAIN innerNamespaces'[p] :
                   innerNamespaces'[p][i] = c
    <3>1. CASE c = Top
      BY <1>1, <1>2, <1>3, <1>7, <3>1
    <3>2. CASE c # Top
      <4>1. c \in DOMAIN m_namespaces \ (Anonymous \cup {Unit}) <=>
              \E p \in Context : \E i \in DOMAIN innerNamespaces[p] : innerNamespaces[p][i] = c
        BY DEF TreeInv, TreeOK
      <4>2. QED
        BY <1>3, <1>9, <1>10, <3>2, <4>1
    <3>3. QED
      BY <3>1, <3>2
  <2>4. ASSUME NEW p \in Context, NEW q \in Context,
               NEW i \in DOMAIN innerNamespaces'[p], NEW j \in DOMAIN innerNamespaces'[q],
               innerNamespaces'[p][i] = innerNamespaces'[q][j]
        PROVE  p = q /\ i = j
    BY <1>2, <1>9, <1>10, <2>4 DEF TreeInv, TreeOK
  <2>5. \A p \in Context : \A i \in DOMAIN innerNamespaces'[p] :
          p = m_namespaces'[Parent[innerNamespaces'[p][i]]]
    BY <1>2, <1>3, <1>9, <1>10 DEF TreeInv, TreeOK
  <2>6. QED
    BY <2>1, <2>2, <2>3, <2>4, <2>5 DEF TreeOK
<1>12. InfosOK'
  BY <1>1, <1>2, <1>3 DEF TreeInv, InfosOK
<1>13. QED
  BY <1>4, <1>8, <1>11, <1>12 DEF TreeInv

\* Nothing changes: the parent is asked for over and over, or another component acts.
LEMMA UnchangedTree == TreeInv /\ UNCHANGED treeVars => TreeInv'
BY DEF TreeInv, TreeTypeOK, TreeOK, CallsOK, ReturnedOK, InfosOK, GoesOn, Top, treeVars

\* Whatever GetNamespace does next.
LEMMA GetNamespaceTree == TreeInv /\ GetNamespaceStep => TreeInv'
BY FoundTree, MakeRootTree, AscendTree, ShareParentTree, MakeNamespaceTree, UnchangedTree
   DEF GetNamespaceStep, Spin

-------------------------------------------------------------------------------
\* An info that has been made is neither replaced nor renamed, and the call that
\* was made first is the last to return, with the info of its context.
LEMMA GetNamespaceGrows ==
  ASSUME TreeInv, GetNamespaceStep
  PROVE  /\ calls # <<>>
         /\ \A c \in DOMAIN m_namespaces :
              /\ c \in DOMAIN m_namespaces' /\ m_namespaces'[c] = m_namespaces[c]
              /\ qualifier'[c] = qualifier[c]
         /\ \/ calls' # <<>> /\ calls'[1] = calls[1]
            \/ /\ calls' = <<>> /\ calls[1] \in DOMAIN m_namespaces'
               /\ returned' = m_namespaces'[calls[1]]
<1> DEFINE Grows == \A c \in DOMAIN m_namespaces :
             /\ c \in DOMAIN m_namespaces' /\ m_namespaces'[c] = m_namespaces[c]
             /\ qualifier'[c] = qualifier[c]
           Answers == \/ calls' # <<>> /\ calls'[1] = calls[1]
                      \/ /\ calls' = <<>> /\ calls[1] \in DOMAIN m_namespaces'
                         /\ returned' = m_namespaces'[calls[1]]
<1>1. calls # <<>>
  BY DEF GetNamespaceStep, Found, MakeRoot, Ascend, Spin, ShareParent, MakeNamespace,
         Begun, GoesOn
<1>2. calls \in Seq(Context) /\ Len(calls) \in Nat /\ Len(calls) >= 1 /\ Top = calls[Len(calls)]
  BY <1>1, TopFacts DEF TreeInv, TreeTypeOK
<1>3. ASSUME NEW ns, Return(ns), Top \in DOMAIN m_namespaces', m_namespaces'[Top] = ns
      PROVE  Answers
  <2>1. /\ calls' \in Seq(Context) /\ Len(calls') = Len(calls) - 1 /\ returned' = ns
        /\ \A i \in 1..(Len(calls) - 1) : calls'[i] = calls[i]
    BY <1>1, <1>2, <1>3, DropLast DEF Return
  <2>2. CASE Len(calls) = 1
    BY <1>2, <1>3, <2>1, <2>2
  <2>3. CASE Len(calls) # 1
    BY <1>2, <2>1, <2>3
  <2>4. QED
    BY <2>2, <2>3
<1>4. CASE Found
  <2>1. /\ Top \in DOMAIN m_namespaces /\ Return(m_namespaces[Top])
        /\ m_namespaces' = m_namespaces /\ qualifier' = qualifier
    BY <1>4 DEF Found
  <2>2. Answers
    BY <1>3, <2>1
  <2>3. QED
    BY <1>1, <2>1, <2>2
<1>5. CASE MakeRoot
  <2>1. /\ Top \notin DOMAIN m_namespaces /\ m_namespaces' = With(m_namespaces, Top, Top)
        /\ Return(Top) /\ qualifier' = qualifier
    BY <1>5 DEF MakeRoot
  <2>2. Grows /\ Top \in DOMAIN m_namespaces' /\ m_namespaces'[Top] = Top
    BY <2>1 DEF With
  <2>3. QED
    BY <1>1, <1>3, <2>1, <2>2
<1>6. CASE Ascend
  <2>1. /\ m_namespaces' = m_namespaces /\ qualifier' = qualifier
        /\ calls' = Append(calls, Parent[Top])
    BY <1>6 DEF Ascend
  <2>2. calls' # <<>> /\ calls'[1] = calls[1]
    BY <1>2, <2>1
  <2>3. QED
    BY <1>1, <2>1, <2>2
<1>7. CASE Spin
  BY <1>1, <1>7 DEF Spin, treeVars
<1>8. CASE ShareParent
  <2>1. /\ Top \notin DOMAIN m_namespaces /\ qualifier' = qualifier
        /\ m_namespaces' = With(m_namespaces, Top, returned) /\ Return(returned)
    BY <1>8 DEF ShareParent, TreeInv, ReturnedOK
  <2>2. Grows /\ Top \in DOMAIN m_namespaces' /\ m_namespaces'[Top] = returned
    BY <2>1 DEF With
  <2>3. QED
    BY <1>1, <1>3, <2>1, <2>2
<1>9. CASE MakeNamespace
  <2>1. /\ Top \notin DOMAIN m_namespaces
        /\ qualifier' = [qualifier EXCEPT ![Top] = FullQualifiedName(returned)]
        /\ m_namespaces' = With(m_namespaces, Top, Top) /\ Return(Top)
        /\ DOMAIN m_namespaces \subseteq Context /\ DOMAIN qualifier = Context
    BY <1>9 DEF MakeNamespace, TreeInv, ReturnedOK, TreeTypeOK
  <2>2. Grows /\ Top \in DOMAIN m_namespaces' /\ m_namespaces'[Top] = Top
    BY <2>1 DEF With
  <2>3. QED
    BY <1>1, <1>3, <2>1, <2>2
<1>10. QED
  BY <1>4, <1>5, <1>6, <1>7, <1>8, <1>9, <1>1 DEF GetNamespaceStep
===============================================================================
