-------------------------- MODULE AstReflectorProofs --------------------------
(***************************************************************************)
(* The properties of the tree and of the infos in it, for any contexts,    *)
(* declarations and order of calls.                                        *)
(***************************************************************************)
EXTENDS AstReflector, NamespacesTreeProofs, NaturalLemmas

-------------------------------------------------------------------------------
(* The recursive definitions go up from a context to its parent.           *)

\* Contexts with all that they lie in.
Closed(T) == T \subseteq Context /\ \A c \in T \ {Unit} : Parent[c] \in T

\* f begins with u and goes on with g, on T.
Recursive(f, T, u, g) ==
  /\ Unit \in T => f[Unit] = u
  /\ \A c \in T \ {Unit} : f[c] = g[<<c, f[Parent[c]]>>]

\* It does so in one way only.
LEMMA RecursionIsUnique ==
  ASSUME NEW u, NEW g,
         NEW T, Closed(T), NEW f, Recursive(f, T, u, g),
         NEW U, Closed(U), NEW h, Recursive(h, U, u, g)
  PROVE  \A c \in T \cap U : f[c] = h[c]
<1> DEFINE S == {c \in T \cap U : f[c] # h[c]}
<1>1. SUFFICES ASSUME S # {} PROVE FALSE
  OBVIOUS
<1>2. S \in SUBSET (Context \ {Unit})
  BY DEF Closed, Recursive
<1>3. PICK c \in S : Parent[c] \notin S
  BY <1>1, <1>2, ContextAssumption
<1>4. c # Unit /\ Parent[c] \in T \cap U
  BY <1>2, <1>3 DEF Closed
<1>5. f[Parent[c]] = h[Parent[c]]
  BY <1>3, <1>4
<1>6. f[c] = h[c]
  BY <1>3, <1>4, <1>5 DEF Recursive
<1>7. QED
  BY <1>3, <1>6

\* And it can do so from the unit down to any context.
LEMMA RecursionReaches ==
  ASSUME NEW V, NEW u \in V, NEW g \in [Context \X V -> V], NEW x \in Context
  PROVE  \E T \in SUBSET Context : \E f \in [T -> V] :
           x \in T /\ Closed(T) /\ Recursive(f, T, u, g)
<1> DEFINE Reaches(c, T, f) == c \in T /\ Closed(T) /\ Recursive(f, T, u, g)
           Reached(c) == \E T \in SUBSET Context : \E f \in [T -> V] : Reaches(c, T, f)
           S == {c \in Context : ~Reached(c)}
<1>1. Reached(Unit)
  <2> DEFINE f == [c \in {Unit} |-> u]
  <2>1. f \in [{Unit} -> V] /\ {Unit} \in SUBSET Context
    BY ContextAssumption
  <2>2. Reaches(Unit, {Unit}, f)
    BY <2>1 DEF Closed, Recursive
  <2>3. QED
    BY <2>1, <2>2
<1>2. SUFFICES ASSUME S # {} PROVE FALSE
  OBVIOUS
<1>3. S \in SUBSET (Context \ {Unit})
  BY <1>1
<1>4. PICK c \in S : Parent[c] \notin S
  BY <1>2, <1>3, ContextAssumption
<1>5. c \in Context \ {Unit} /\ Parent[c] \in Context /\ ~Reached(c)
  BY <1>3, <1>4, ContextAssumption
<1>6a. PICK T \in SUBSET Context : \E f \in [T -> V] : Reaches(Parent[c], T, f)
  BY <1>4, <1>5
<1>6. PICK f \in [T -> V] : Reaches(Parent[c], T, f)
  BY <1>6a
<1>7. c \notin T
  BY <1>5, <1>6
<1> DEFINE h == [d \in T \cup {c} |-> IF d = c THEN g[<<c, f[Parent[c]]>>] ELSE f[d]]
<1>8. h \in [T \cup {c} -> V] /\ T \cup {c} \in SUBSET Context
  <2>1. f[Parent[c]] \in V
    BY <1>6
  <2>2. g[<<c, f[Parent[c]]>>] \in V
    BY <1>5, <2>1
  <2>3. QED
    BY <1>5, <1>6, <2>2
<1>9. Closed(T \cup {c})
  BY <1>5, <1>6 DEF Closed
<1>10. Recursive(h, T \cup {c}, u, g)
  <2>1. \A d \in T : h[d] = f[d]
    BY <1>7
  <2>2. \A d \in T \ {Unit} : h[d] = g[<<d, h[Parent[d]]>>]
    BY <1>6, <2>1 DEF Closed, Recursive
  <2>3. h[c] = g[<<c, h[Parent[c]]>>]
    BY <1>6, <2>1
  <2>4. QED
    BY <1>5, <1>6, <2>1, <2>2, <2>3 DEF Recursive
<1>11. QED
  BY <1>5, <1>8, <1>9, <1>10

\* So there is such a function on all the contexts.
LEMMA RecursionOnContexts ==
  ASSUME NEW V, NEW u \in V, NEW g \in [Context \X V -> V]
  PROVE  \E f \in [Context -> V] : Recursive(f, Context, u, g)
<1> DEFINE Part(T, f, c) == c \in T /\ Closed(T) /\ Recursive(f, T, u, g)
           Is(c, v) == \E T \in SUBSET Context : \E f \in [T -> V] : Part(T, f, c) /\ v = f[c]
           F == [c \in Context |-> CHOOSE v : Is(c, v)]
<1>1. \A c \in Context : \E T \in SUBSET Context : \E f \in [T -> V] : Part(T, f, c)
  BY RecursionReaches
<1>2. \A c \in Context : Is(c, F[c])
  <2> SUFFICES ASSUME NEW c \in Context PROVE Is(c, F[c])
    OBVIOUS
  <2>1. \E v : Is(c, v)
    BY <1>1
  <2> HIDE DEF Is
  <2>2. QED
    BY <2>1
<1>3. ASSUME NEW T \in SUBSET Context, NEW f \in [T -> V], Closed(T),
             Recursive(f, T, u, g), NEW c \in T
      PROVE  F[c] = f[c]
  <2> HIDE DEF F
  <2>1. PICK U \in SUBSET Context : \E h \in [U -> V] : Part(U, h, c) /\ F[c] = h[c]
    BY <1>2
  <2>2. PICK h \in [U -> V] : Part(U, h, c) /\ F[c] = h[c]
    BY <2>1
  <2>3. QED
    BY <1>3, <2>2, RecursionIsUnique
<1> HIDE DEF F
<1>4. \A c \in Context : F[c] \in V
  BY <1>2
<1>5. F \in [Context -> V]
  BY <1>4 DEF F
<1>6. Recursive(F, Context, u, g)
  <2>1. F[Unit] = u
    <3>0. PICK T \in SUBSET Context : \E f \in [T -> V] : Part(T, f, Unit)
      BY <1>1, ContextAssumption
    <3>1. PICK f \in [T -> V] : Part(T, f, Unit)
      BY <3>0
    <3>2. QED
      BY <1>3, <3>1 DEF Recursive
  <2>2. ASSUME NEW c \in Context \ {Unit}
        PROVE  F[c] = g[<<c, F[Parent[c]]>>]
    <3>0. PICK T \in SUBSET Context : \E f \in [T -> V] : Part(T, f, c)
      BY <1>1
    <3>1. PICK f \in [T -> V] : Part(T, f, c)
      BY <3>0
    <3>2. Parent[c] \in T
      BY <2>2, <3>1 DEF Closed
    <3>3. F[c] = f[c] /\ F[Parent[c]] = f[Parent[c]]
      BY <1>3, <3>1, <3>2
    <3>4. QED
      BY <2>2, <3>1, <3>3 DEF Recursive
  <2>3. QED
    BY <2>1, <2>2 DEF Recursive
<1>7. QED
  BY <1>5, <1>6

Names == {Name[c] : c \in Context}

\* Linkage blocks are left out, and what is found is no such block.
LEMMA FileContextFacts ==
  \A c \in Context :
    /\ FileContext[c] \in Context
    /\ FileContext[c] = IF Kind[c] = "linkage" THEN FileContext[Parent[c]] ELSE c
    /\ Kind[FileContext[c]] # "linkage"
<1> DEFINE g == [p \in Context \X Context |->
                   IF Kind[p[1]] = "linkage" THEN p[2] ELSE p[1]]
           Def(f) == f = [c \in Context |-> IF Kind[c] = "linkage" THEN f[Parent[c]] ELSE c]
<1>1. g \in [Context \X Context -> Context] /\ Unit \in Context /\ Kind[Unit] # "linkage"
  BY ContextAssumption
<1>2. PICK f \in [Context -> Context] : Recursive(f, Context, Unit, g)
  <2> HIDE DEF g
  <2>1. QED
    BY <1>1, RecursionOnContexts
<1>3. Def(f)
  <2>1. \A c \in Context : f[c] = IF Kind[c] = "linkage" THEN f[Parent[c]] ELSE c
    <3> TAKE c \in Context
    <3>1. CASE c = Unit
      BY <1>1, <1>2, <3>1 DEF Recursive
    <3>2. CASE c # Unit
      <4>1. Parent[c] \in Context /\ f[Parent[c]] \in Context
        BY <3>2, ContextAssumption
      <4>2. f[c] = g[<<c, f[Parent[c]]>>]
        BY <1>2, <3>2 DEF Recursive
      <4>3. QED
        BY <4>1, <4>2
    <3>3. QED
      BY <3>1, <3>2
  <2>2. QED
    BY <2>1
<1>4. Def(FileContext)
  <2>1. FileContext = CHOOSE h : Def(h)
    BY DEF FileContext
  <2> HIDE DEF Def
  <2>2. QED
    BY <1>3, <2>1
<1>5. \A c \in Context :
        FileContext[c] = IF Kind[c] = "linkage" THEN FileContext[Parent[c]] ELSE c
  BY <1>4
<1> DEFINE S == {c \in Context : ~(FileContext[c] \in Context /\ Kind[FileContext[c]] # "linkage")}
<1>6. S = {}
  <2> SUFFICES ASSUME S # {} PROVE FALSE
    OBVIOUS
  <2>1. S \in SUBSET (Context \ {Unit})
    BY <1>1, <1>5
  <2>2. PICK c \in S : Parent[c] \notin S
    BY <2>1, ContextAssumption
  <2>3. c \in Context /\ c # Unit /\ Parent[c] \in Context
    BY <2>1, ContextAssumption
  <2>4. QED
    BY <1>5, <2>2, <2>3
<1>7. QED
  BY <1>5, <1>6

\* The names on the way up to the unit, without those of some of the contexts.
LEMMA NamesOfContexts ==
  ASSUME NEW X
  PROVE  \E f \in [Context -> Seq(Names)] : \A c \in Context :
           f[c] = IF c = Unit THEN <<>>
                  ELSE IF c \in X THEN f[Parent[c]] ELSE Append(f[Parent[c]], Name[c])
<1> DEFINE g == [p \in Context \X Seq(Names) |->
                   IF p[1] \in X THEN p[2] ELSE Append(p[2], Name[p[1]])]
<1>1. g \in [Context \X Seq(Names) -> Seq(Names)]
  <2>1. ASSUME NEW c \in Context, NEW s \in Seq(Names)
        PROVE  Append(s, Name[c]) \in Seq(Names)
    BY AppendProperties DEF Names
  <2> SUFFICES ASSUME NEW p \in Context \X Seq(Names)
               PROVE  (IF p[1] \in X THEN p[2] ELSE Append(p[2], Name[p[1]])) \in Seq(Names)
    OBVIOUS
  <2>2. p[1] \in Context /\ p[2] \in Seq(Names)
    OBVIOUS
  <2>3. QED
    BY <2>1, <2>2
<1>2. PICK f \in [Context -> Seq(Names)] : Recursive(f, Context, <<>>, g)
  <2>1. <<>> \in Seq(Names)
    OBVIOUS
  <2> HIDE DEF g
  <2>2. QED
    BY <1>1, <2>1, RecursionOnContexts
<1>3. \A c \in Context :
        f[c] = IF c = Unit THEN <<>>
               ELSE IF c \in X THEN f[Parent[c]] ELSE Append(f[Parent[c]], Name[c])
  <2> TAKE c \in Context
  <2>1. CASE c = Unit
    BY <1>2, <2>1 DEF Recursive
  <2>2. CASE c # Unit
    <3>1. Parent[c] \in Context /\ f[Parent[c]] \in Seq(Names)
      BY <2>2, ContextAssumption
    <3>2. f[c] = g[<<c, f[Parent[c]]>>]
      BY <1>2, <2>2 DEF Recursive
    <3>3. g[<<c, f[Parent[c]]>>] = IF c \in X THEN f[Parent[c]] ELSE Append(f[Parent[c]], Name[c])
      BY <3>1
    <3> HIDE DEF g
    <3>4. QED
      BY <2>2, <3>2, <3>3
  <2>3. QED
    BY <2>1, <2>2
<1>4. QED
  BY <1>3

\* The names of the namespaces.
LEMMA PathFacts ==
  \A c \in Context :
    Path[c] = IF c = Unit THEN <<>>
              ELSE IF Kind[c] = "linkage" \/ c \in Anonymous THEN Path[Parent[c]]
              ELSE Append(Path[Parent[c]], Name[c])
<1> DEFINE X == {c \in Context : Kind[c] = "linkage" \/ c \in Anonymous}
           Def(f) == f = [c \in Context |->
                            IF c = Unit THEN <<>>
                            ELSE IF Kind[c] = "linkage" \/ c \in Anonymous THEN f[Parent[c]]
                            ELSE Append(f[Parent[c]], Name[c])]
<1>1. PICK f \in [Context -> Seq(Names)] : \A c \in Context :
        f[c] = IF c = Unit THEN <<>>
               ELSE IF c \in X THEN f[Parent[c]] ELSE Append(f[Parent[c]], Name[c])
  BY NamesOfContexts
<1>2. Def(f)
  BY <1>1
<1>3. Path = CHOOSE h : Def(h)
  BY DEF Path
<1>4. Def(Path)
  <2> HIDE DEF Def
  <2>1. QED
    BY <1>2, <1>3
<1>5. QED
  BY <1>4

\* The same without the inline ones.
LEMMA WrittenFacts ==
  \A c \in Context :
    WrittenNames[c] =
      IF c = Unit THEN <<>>
      ELSE IF Kind[c] = "linkage" \/ c \in Anonymous \cup Inline THEN WrittenNames[Parent[c]]
      ELSE Append(WrittenNames[Parent[c]], Name[c])
<1> DEFINE X == {c \in Context : Kind[c] = "linkage" \/ c \in Anonymous \cup Inline}
           Def(f) == f = [c \in Context |->
                            IF c = Unit THEN <<>>
                            ELSE IF Kind[c] = "linkage" \/ c \in Anonymous \cup Inline
                            THEN f[Parent[c]]
                            ELSE Append(f[Parent[c]], Name[c])]
<1>1. PICK f \in [Context -> Seq(Names)] : \A c \in Context :
        f[c] = IF c = Unit THEN <<>>
               ELSE IF c \in X THEN f[Parent[c]] ELSE Append(f[Parent[c]], Name[c])
  BY NamesOfContexts
<1>2. Def(f)
  BY <1>1
<1>3. WrittenNames = CHOOSE h : Def(h)
  BY DEF WrittenNames
<1>4. Def(WrittenNames)
  <2> HIDE DEF Def
  <2>1. QED
    BY <1>2, <1>3
<1>5. QED
  BY <1>4

\* Whether one of them is inline.
LEMMA InlineAboveFacts ==
  /\ InlineAbove[Unit] = FALSE
  /\ \A c \in Context \ {Unit} :
       InlineAbove[c] = (Parent[c] \in Inline \/ InlineAbove[Parent[c]])
<1> DEFINE g == [p \in Context \X BOOLEAN |-> Parent[p[1]] \in Inline \/ p[2]]
           Def(f) == f = [c \in Context |-> IF c = Unit THEN FALSE
                                            ELSE Parent[c] \in Inline \/ f[Parent[c]]]
<1>1. PICK f \in [Context -> BOOLEAN] : Recursive(f, Context, FALSE, g)
  <2>1. g \in [Context \X BOOLEAN -> BOOLEAN]
    OBVIOUS
  <2> HIDE DEF g
  <2>2. QED
    BY <2>1, RecursionOnContexts
<1>2. Def(f)
  <2>1. \A c \in Context : f[c] = IF c = Unit THEN FALSE ELSE Parent[c] \in Inline \/ f[Parent[c]]
    <3> TAKE c \in Context
    <3>1. CASE c = Unit
      BY <1>1, <3>1 DEF Recursive
    <3>2. CASE c # Unit
      <4>1. Parent[c] \in Context /\ f[Parent[c]] \in BOOLEAN
        BY <3>2, ContextAssumption
      <4>2. f[c] = g[<<c, f[Parent[c]]>>]
        BY <1>1, <3>2 DEF Recursive
      <4>3. g[<<c, f[Parent[c]]>>] = (Parent[c] \in Inline \/ f[Parent[c]])
        BY <4>1
      <4> HIDE DEF g
      <4>4. QED
        BY <3>2, <4>2, <4>3
    <3>3. QED
      BY <3>1, <3>2
  <2>2. QED
    BY <2>1
<1>3. InlineAbove = CHOOSE h : Def(h)
  BY DEF InlineAbove
<1>4. Def(InlineAbove)
  <2> HIDE DEF Def
  <2>1. QED
    BY <1>2, <1>3
<1>5. QED
  BY <1>4, ContextAssumption

\* The block whose info a context has.
LEMMA BlockFacts ==
  \A c \in Context : Block[c] = IF c \in Anonymous THEN Block[Parent[c]] ELSE c
<1> DEFINE g == [p \in Context \X Context |-> IF p[1] \in Anonymous THEN p[2] ELSE p[1]]
           Def(f) == f = [c \in Context |-> IF c \in Anonymous THEN f[Parent[c]] ELSE c]
<1>1. g \in [Context \X Context -> Context] /\ Unit \in Context /\ Unit \notin Anonymous
  BY ContextAssumption
<1>2. PICK f \in [Context -> Context] : Recursive(f, Context, Unit, g)
  <2> HIDE DEF g
  <2>1. QED
    BY <1>1, RecursionOnContexts
<1>3. Def(f)
  <2>1. \A c \in Context : f[c] = IF c \in Anonymous THEN f[Parent[c]] ELSE c
    <3> TAKE c \in Context
    <3>1. CASE c = Unit
      BY <1>1, <1>2, <3>1 DEF Recursive
    <3>2. CASE c # Unit
      <4>1. Parent[c] \in Context /\ f[Parent[c]] \in Context
        BY <3>2, ContextAssumption
      <4>2. f[c] = g[<<c, f[Parent[c]]>>]
        BY <1>2, <3>2 DEF Recursive
      <4>3. QED
        BY <4>1, <4>2
    <3>3. QED
      BY <3>1, <3>2
  <2>2. QED
    BY <2>1
<1>4. Def(Block)
  <2>1. Block = CHOOSE h : Def(h)
    BY DEF Block
  <2> HIDE DEF Def
  <2>2. QED
    BY <1>3, <2>1
<1>5. QED
  BY <1>4

\* GetNamespace answers with the info of that block.
LEMMA InfoOfBlock == TreeInv => \A c \in DOMAIN m_namespaces : m_namespaces[c] = Block[c]
<1> SUFFICES ASSUME TreeInv PROVE \A c \in DOMAIN m_namespaces : m_namespaces[c] = Block[c]
  OBVIOUS
<1> DEFINE S == {c \in DOMAIN m_namespaces : m_namespaces[c] # Block[c]}
<1>1. DOMAIN m_namespaces \subseteq Context
  BY DEF TreeInv, TreeTypeOK
<1>2. Unit \notin S
  BY <1>1, BlockFacts, ContextAssumption DEF TreeInv, TreeOK
<1>3. SUFFICES ASSUME S # {} PROVE FALSE
  OBVIOUS
<1>4. S \in SUBSET (Context \ {Unit})
  BY <1>1, <1>2
<1>5. PICK c \in S : Parent[c] \notin S
  BY <1>3, <1>4, ContextAssumption
<1>6. /\ c \in DOMAIN m_namespaces \ {Unit} /\ c \in Context
      /\ Parent[c] \in DOMAIN m_namespaces
      /\ m_namespaces[c] = IF c \in Anonymous THEN m_namespaces[Parent[c]] ELSE c
  BY <1>4, <1>5 DEF TreeInv, TreeOK
<1>7. m_namespaces[Parent[c]] = Block[Parent[c]]
  BY <1>5, <1>6
<1>8. QED
  BY <1>5, <1>6, <1>7, BlockFacts

-------------------------------------------------------------------------------
(* What is called by the same names.                                       *)

\* Linkage blocks have no names.
LEMMA PathOfFileContext == \A c \in Context : Path[FileContext[c]] = Path[c]
<1> DEFINE S == {c \in Context : Path[FileContext[c]] # Path[c]}
<1>1. S \in SUBSET (Context \ {Unit})
  BY FileContextFacts, ContextAssumption
<1>2. SUFFICES ASSUME S # {} PROVE FALSE
  OBVIOUS
<1>3. PICK c \in S : Parent[c] \notin S
  BY <1>1, <1>2, ContextAssumption
<1>4. c \in Context \ {Unit} /\ Parent[c] \in Context
  BY <1>1, ContextAssumption
<1>5. QED
  BY <1>3, <1>4, FileContextFacts, PathFacts

\* Contexts in one namespace have its names, whichever block they lie in.
LEMMA PathOfNamespace ==
  \A b, c \in Context : NamespaceOf(b) = NamespaceOf(c) => Path[b] = Path[c]
<1> DEFINE Alike(c) == \A b \in Context : NamespaceOf(b) = NamespaceOf(c) => Path[b] = Path[c]
           S == {c \in Context : ~Alike(c)}
<1>1. Alike(Unit)
  <2> SUFFICES ASSUME NEW b \in Context, NamespaceOf(b) = NamespaceOf(Unit)
               PROVE  Path[b] = Path[Unit]
    OBVIOUS
  <2>1. Unit \in Context /\ FileContext[Unit] = Unit /\ Kind[Unit] = "unit"
    BY ContextAssumption, FileContextFacts
  <2>2. Kind[FileContext[b]] = "unit" /\ FileContext[b] \in Context
    BY <2>1, FileContextFacts, PrimaryAssumption DEF NamespaceOf
  <2>3. FileContext[b] = Unit
    BY <2>2, ContextAssumption
  <2>4. QED
    BY <2>3, PathOfFileContext
<1>2. SUFFICES ASSUME S # {} PROVE FALSE
  OBVIOUS
<1>3. S \in SUBSET (Context \ {Unit})
  BY <1>1
<1>4. PICK c \in S : Parent[c] \notin S
  BY <1>2, <1>3, ContextAssumption
<1>5. c \in Context /\ c # Unit /\ Parent[c] \in Context
  BY <1>3, ContextAssumption
<1>6. \A b \in Context : NamespaceOf(b) = NamespaceOf(Parent[c]) => Path[b] = Path[Parent[c]]
  BY <1>4, <1>5
<1>7. ASSUME NEW b \in Context, NamespaceOf(b) = NamespaceOf(c)
      PROVE  Path[b] = Path[c]
  <2>1. CASE Kind[c] = "linkage"
    <3>1. FileContext[c] = FileContext[Parent[c]] /\ Path[c] = Path[Parent[c]]
      BY <1>5, <2>1, FileContextFacts, PathFacts
    <3>2. QED
      BY <1>6, <1>7, <3>1 DEF NamespaceOf
  <2>2. CASE Kind[c] # "linkage"
    <3> DEFINE f == FileContext[b]
    <3>1. FileContext[c] = c /\ Kind[c] = "namespace"
      BY <1>5, <2>2, FileContextFacts, ContextAssumption
    <3>2. f \in Context /\ Primary[f] = Primary[c] /\ Path[f] = Path[b]
      BY <1>7, <3>1, FileContextFacts, PathOfFileContext DEF NamespaceOf
    <3> HIDE DEF f
    <3>3. /\ Kind[f] = "namespace" /\ Name[f] = Name[c]
          /\ f \in Anonymous <=> c \in Anonymous
      BY <1>5, <3>1, <3>2, PrimaryAssumption
    <3>4. f # Unit /\ Parent[f] \in Context
      BY <3>2, <3>3, ContextAssumption
    <3>5. NamespaceOf(Parent[f]) = NamespaceOf(Parent[c])
      BY <1>5, <3>2, <3>3, NamespaceAssumption
    <3>6. Path[Parent[f]] = Path[Parent[c]]
      BY <1>6, <3>4, <3>5
    <3>7. QED
      BY <1>5, <3>1, <3>2, <3>3, <3>4, <3>6, PathFacts
  <2>3. QED
    BY <2>1, <2>2
<1>8. QED
  BY <1>4, <1>7

\* GetNamespace is called for a context with the names of what is reflected.
LEMMA NsContextFacts ==
  ASSUME NEW d \in Decl
  PROVE  /\ NsContext(d) \in Context /\ Kind[NsContext(d)] # "linkage"
         /\ Path[NsContext(d)] = Path[Within[d]]
         /\ Path[NsContext(d)] = Path[Within[Described(d)]]
         /\ NsContext(Described(d)) = NsContext(d)
<1>1. Within[d] \in Context /\ Within[Described(d)] \in Context
  BY DeclAssumption, DefinitionAssumption DEF Described
<1>2. ASSUME NEW c \in Context
      PROVE  /\ NamespaceOf(c) \in Context /\ Kind[NamespaceOf(c)] # "linkage"
             /\ Path[NamespaceOf(c)] = Path[c]
  <2>1. FileContext[c] \in Context /\ Kind[FileContext[c]] # "linkage"
    BY FileContextFacts
  <2>2. /\ NamespaceOf(c) \in Context /\ Kind[NamespaceOf(c)] # "linkage"
        /\ Primary[NamespaceOf(c)] = NamespaceOf(c)
    BY <2>1, PrimaryAssumption DEF NamespaceOf
  <2>3. NamespaceOf(NamespaceOf(c)) = NamespaceOf(c)
    BY <2>2, FileContextFacts DEF NamespaceOf
  <2>4. QED
    BY <2>2, <2>3, PathOfNamespace
<1>3. NamespaceOf(Within[Described(d)]) = NamespaceOf(Within[d])
  BY NamespaceAssumption DEF Described
<1>4. Path[Within[Described(d)]] = Path[Within[d]]
  BY <1>1, <1>3, PathOfNamespace
<1>5. NsContext(Described(d)) = NsContext(d)
  BY <1>3, DefinitionAssumption DEF NsContext, Described
<1>6. QED
  BY <1>1, <1>2, <1>4, <1>5, DeclAssumption DEF NsContext

\* With no inline namespace around, SetupNamedDeclInfo writes all the names.
LEMMA QualifierIsPath ==
  ASSUME NEW d \in Decl, ~InlineAbove[Within[d]]
  PROVE  NamespaceQualifier(d) = Path[Within[d]]
<1> DEFINE S == {c \in Context : /\ ~InlineAbove[c] /\ c \notin Inline
                                 /\ WrittenNames[c] # Path[c]}
           B == {c \in Context : ~InlineAbove[c] /\ InlineAbove[FileContext[c]]}
<1>1. S = {}
  <2> SUFFICES ASSUME S # {} PROVE FALSE
    OBVIOUS
  <2>1. S \in SUBSET (Context \ {Unit})
    BY PathFacts, WrittenFacts, ContextAssumption
  <2>2. PICK c \in S : Parent[c] \notin S
    BY <2>1, ContextAssumption
  <2>3. c \in Context /\ c # Unit /\ Parent[c] \in Context
    BY <2>1, ContextAssumption
  <2>4. ~InlineAbove[Parent[c]] /\ Parent[c] \notin Inline
    BY <2>2, <2>3, InlineAboveFacts
  <2>5. WrittenNames[Parent[c]] = Path[Parent[c]]
    BY <2>2, <2>3, <2>4
  <2>6. QED
    BY <2>2, <2>3, <2>5, PathFacts, WrittenFacts
<1>2. B = {}
  <2> SUFFICES ASSUME B # {} PROVE FALSE
    OBVIOUS
  <2>1. B \in SUBSET (Context \ {Unit})
    BY FileContextFacts, InlineAboveFacts, ContextAssumption
  <2>2. PICK c \in B : Parent[c] \notin B
    BY <2>1, ContextAssumption
  <2>3. c \in Context /\ c # Unit /\ Parent[c] \in Context
    BY <2>1, ContextAssumption
  <2>4. ~InlineAbove[Parent[c]]
    BY <2>2, <2>3, InlineAboveFacts
  <2>5. QED
    BY <2>2, <2>3, <2>4, FileContextFacts
<1> DEFINE ns == FileContext[Within[d]]
<1>3. Within[d] \in Context /\ ns \in Context /\ Kind[ns] # "linkage" /\ ~InlineAbove[ns]
  BY <1>2, DeclAssumption, FileContextFacts
<1>4. Path[ns] = Path[Within[d]]
  BY <1>3, PathOfFileContext
<1> HIDE DEF S, B
<1>5. CASE ns = Unit
  BY <1>3, <1>4, <1>5, PathFacts, WrittenFacts DEF NamespaceQualifier
<1>6. CASE ns \in Anonymous
  <2>1. ns \notin Inline
    BY <1>6, DeclAssumption
  <2>2. WrittenNames[ns] = Path[ns]
    BY <1>1, <1>3, <2>1 DEF S
  <2>3. QED
    BY <1>4, <1>6, <2>2 DEF NamespaceQualifier
<1>7. CASE ns # Unit /\ ns \notin Anonymous
  <2>1. Parent[ns] \in Context /\ ~InlineAbove[Parent[ns]] /\ Parent[ns] \notin Inline
    BY <1>3, <1>7, InlineAboveFacts, ContextAssumption
  <2>2. WrittenNames[Parent[ns]] = Path[Parent[ns]]
    BY <1>1, <2>1 DEF S
  <2>3. Path[ns] = Append(Path[Parent[ns]], Name[ns])
    BY <1>3, <1>7, PathFacts
  <2>4. QED
    BY <1>4, <1>7, <2>2, <2>3 DEF NamespaceQualifier
<1>8. QED
  BY <1>5, <1>6, <1>7

-------------------------------------------------------------------------------
(* The infos.                                                              *)

Infos == {Info(d, recursive) : d \in Decl, recursive \in BOOLEAN}

\* An info is that of the declaration it was made for.
LEMMA InfoFacts ==
  \A d \in Decl : \A recursive \in BOOLEAN :
    /\ Info(d, recursive) \in Infos
    /\ Info(d, recursive).decl = d
    /\ Info(d, recursive).namespaceQualifier = NamespaceQualifier(d)
<1> TAKE d \in Decl
<1> TAKE recursive \in BOOLEAN
<1>1. \A inner : /\ ClassInfo(d, inner).decl = d
                 /\ ClassInfo(d, inner).namespaceQualifier = NamespaceQualifier(d)
  BY DEF ClassInfo, Plain
<1>2. Plain(d).decl = d /\ Plain(d).namespaceQualifier = NamespaceQualifier(d)
  BY DEF Plain
<1>3. \/ Info(d, recursive) = Plain(d)
      \/ \E inner : Info(d, recursive) = ClassInfo(d, inner)
  BY DEF Info
<1>4. QED
  BY <1>1, <1>2, <1>3 DEF Infos

\* What a class is described by is described by itself.
LEMMA DescribedFacts ==
  \A d \in Decl :
    /\ Described(d) \in Decl /\ Described(Described(d)) = Described(d)
    /\ What[Described(d)] = What[d] /\ QualifiedName[Described(d)] = QualifiedName[d]
BY DeclAssumption, DefinitionAssumption DEF Described

-------------------------------------------------------------------------------
(* The inductive invariant.                                                *)

\* While a call runs, GetNamespace runs for its context or has answered.
OpOK ==
  /\ op # None => op.asked \in Decl /\ op.decl = Described(op.asked)
  /\ op # None => op.recursive \in BOOLEAN
  /\ op = None => calls = <<>>
  /\ calls # <<>> => calls[1] = NsContext(op.asked)
  /\ op # None /\ calls = <<>> =>
       /\ NsContext(op.asked) \in DOMAIN m_namespaces
       /\ returned = m_namespaces[NsContext(op.asked)]

\* The infos of the tree have the names of their contexts.
NamesOK == \A c \in DOMAIN m_namespaces : FullQualifiedName(m_namespaces[c]) = Path[c]

\* An info is listed in a namespace that has been asked for, by its kind: that of
\* the block which a call for its declaration asks for.
ContentsOK ==
  /\ contents \in [Context -> [Whats -> Seq(Infos)]]
  /\ \A c \in Context : \A w \in Whats :
       /\ contents[c][w] # <<>> => c \in DOMAIN m_namespaces
       /\ \A i \in DOMAIN contents[c][w] :
            LET d == contents[c][w][i].decl
            IN  What[d] = w /\ Described(d) = d /\ Block[NsContext(d)] = c

\* What a call has returned is still listed where the call has looked for it.
KnownOK ==
  /\ DOMAIN known = Decl
  /\ \A d \in Decl : known[d] # None =>
       /\ NsContext(d) \in DOMAIN m_namespaces
       /\ \E i \in DOMAIN contents[m_namespaces[NsContext(d)]][What[d]] :
            LET info == contents[m_namespaces[NsContext(d)]][What[d]][i]
            IN  known[d] = info /\ QualifiedName[info.decl] = QualifiedName[d]

ReflectInv ==
  /\ TreeInv /\ OpOK /\ NamesOK /\ ContentsOK /\ KnownOK
  /\ OneInfoPerName /\ PlacedWhereDeclared
  /\ aborted \in BOOLEAN

-------------------------------------------------------------------------------
\* Nothing is known.
LEMMA InitReflect == Init => ReflectInv
<1> SUFFICES ASSUME Init PROVE ReflectInv
  OBVIOUS
<1>1. TreeInv /\ DOMAIN m_namespaces = {} /\ calls = <<>> /\ op = None
  BY InitTree DEF Init, TreeInit
<1>2. contents = [c \in Context |-> [w \in Whats |-> <<>>]]
  BY DEF Init
<1>3. \A c \in Context : \A w \in Whats : contents[c][w] = <<>>
  BY <1>2
<1>4. contents \in [Context -> [Whats -> Seq(Infos)]]
  <2>1. <<>> \in Seq(Infos)
    OBVIOUS
  <2>2. QED
    BY <1>2, <2>1
<1>5. DOMAIN <<>> = {}
  OBVIOUS
<1>6. OpOK /\ NamesOK /\ ContentsOK
  BY <1>1, <1>3, <1>4, <1>5 DEF OpOK, NamesOK, ContentsOK
<1>7. OneInfoPerName /\ PlacedWhereDeclared
  BY <1>3, <1>5 DEF OneInfoPerName, PlacedWhereDeclared
<1>8. KnownOK /\ aborted \in BOOLEAN
  BY DEF Init, KnownOK
<1>9. QED
  BY <1>1, <1>6, <1>7, <1>8 DEF ReflectInv

\* A call begins.
LEMMA ReflectKeeps ==
  ASSUME ReflectInv, NEW d \in Decl, NEW recursive \in BOOLEAN, Reflect(d, recursive)
  PROVE  ReflectInv'
<1>1. /\ op = None /\ ~aborted
      /\ op' = [decl |-> Described(d), asked |-> d, recursive |-> recursive]
      /\ calls' = <<NsContext(d)>> /\ returned' = None
      /\ UNCHANGED <<m_namespaces, m_rootNamespace, innerNamespaces, qualifier,
                     contents, known, aborted>>
  BY DEF Reflect, Idle
<1>2. NsContext(d) \in Context /\ Kind[NsContext(d)] # "linkage"
  BY NsContextFacts
<1>3. TreeInv'
  <2>1. calls' \in Seq(Context) /\ Len(calls') = 1 /\ calls'[1] = NsContext(d)
    BY <1>1, <1>2
  <2>2. CallsOK'
    BY <1>2, <2>1 DEF CallsOK
  <2>3. TreeTypeOK'
    BY <1>1, <2>1 DEF ReflectInv, TreeInv, TreeTypeOK
  <2>4. TreeOK' /\ InfosOK' /\ ReturnedOK'
    BY <1>1 DEF ReflectInv, TreeInv, TreeOK, InfosOK, ReturnedOK, GoesOn
  <2>5. QED
    BY <2>2, <2>3, <2>4 DEF TreeInv
<1>4. OpOK'
  <2>1. /\ op' # None /\ op'.asked = d /\ op'.decl = Described(d) /\ op'.recursive = recursive
        /\ calls' # <<>> /\ calls'[1] = NsContext(d)
    BY <1>1, DeclAssumption, DescribedFacts
  <2>2. NsContext(op'.asked) = NsContext(d)
    BY <2>1
  <2>3. QED
    BY <2>1, <2>2 DEF OpOK
<1>5. NamesOK' /\ ContentsOK' /\ KnownOK'
  BY <1>1 DEF ReflectInv, NamesOK, ContentsOK, KnownOK, FullQualifiedName
<1>6. OneInfoPerName' /\ PlacedWhereDeclared' /\ aborted' \in BOOLEAN
  BY <1>1 DEF ReflectInv, OneInfoPerName, PlacedWhereDeclared, FullQualifiedName
<1>7. QED
  BY <1>3, <1>4, <1>5, <1>6 DEF ReflectInv

\* The names of the infos that GetNamespace makes.
LEMMA GetNamespaceNames ==
  ASSUME TreeInv, NamesOK, GetNamespaceStep
  PROVE  NamesOK'
<1> DEFINE NewName(ns) == IF ns = Unit THEN <<>> ELSE Append(qualifier'[ns], Name[ns])
<1>0. SUFFICES \A c \in DOMAIN m_namespaces' : NewName(m_namespaces'[c]) = Path[c]
  BY DEF NamesOK, FullQualifiedName
<1>1. \A c \in DOMAIN m_namespaces :
        /\ m_namespaces'[c] = m_namespaces[c]
        /\ qualifier'[m_namespaces[c]] = qualifier[m_namespaces[c]]
  BY GetNamespaceGrows DEF TreeInv, InfosOK
<1>2. \A c \in DOMAIN m_namespaces : NewName(m_namespaces'[c]) = Path[c]
  BY <1>1 DEF NamesOK, FullQualifiedName
<1>3. CASE UNCHANGED m_namespaces
  BY <1>2, <1>3
<1>4. CASE MakeRoot
  <2>1. /\ calls # <<>> /\ Kind[Top] = "unit"
        /\ m_namespaces' = With(m_namespaces, Top, Top)
    BY <1>4 DEF MakeRoot, Begun
  <2>2. Top = Unit
    BY <2>1, TopFacts, ContextAssumption DEF TreeInv
  <2>3. DOMAIN m_namespaces' = DOMAIN m_namespaces \cup {Unit} /\ m_namespaces'[Unit] = Unit
    BY <2>1, <2>2 DEF With
  <2>4. NewName(m_namespaces'[Unit]) = Path[Unit]
    BY <2>3, PathFacts, ContextAssumption
  <2>5. QED
    BY <1>2, <2>3, <2>4
<1>5. ASSUME ShareParent \/ MakeNamespace
      PROVE  /\ Top \in Context /\ Top # Unit /\ Kind[Top] = "namespace"
             /\ Top \notin DOMAIN m_namespaces
             /\ Parent[Top] \in DOMAIN m_namespaces /\ returned = m_namespaces[Parent[Top]]
  BY <1>5, TopFacts, ContextAssumption
     DEF ShareParent, MakeNamespace, TreeInv, ReturnedOK, GoesOn
<1>6. CASE ShareParent
  <2>1. Top \in Anonymous /\ m_namespaces' = With(m_namespaces, Top, returned)
    BY <1>6 DEF ShareParent
  <2>2. /\ DOMAIN m_namespaces' = DOMAIN m_namespaces \cup {Top}
        /\ m_namespaces'[Top] = returned
    BY <2>1 DEF With
  <2>3. NewName(m_namespaces'[Parent[Top]]) = Path[Parent[Top]]
    BY <1>2, <1>5, <1>6
  <2>4. m_namespaces'[Top] = m_namespaces'[Parent[Top]] /\ Path[Top] = Path[Parent[Top]]
    BY <1>1, <1>5, <1>6, <2>1, <2>2, PathFacts
  <2>5. NewName(m_namespaces'[Top]) = Path[Top]
    BY <2>3, <2>4
  <2>6. QED
    BY <1>2, <2>2, <2>5
<1>7. CASE MakeNamespace
  <2>1. /\ Top \notin Anonymous /\ m_namespaces' = With(m_namespaces, Top, Top)
        /\ qualifier' = [qualifier EXCEPT ![Top] = FullQualifiedName(returned)]
        /\ DOMAIN qualifier = Context
    BY <1>7 DEF MakeNamespace, TreeInv, TreeTypeOK
  <2>2. DOMAIN m_namespaces' = DOMAIN m_namespaces \cup {Top} /\ m_namespaces'[Top] = Top
    BY <2>1 DEF With
  <2>3. FullQualifiedName(returned) = Path[Parent[Top]]
    BY <1>5, <1>7 DEF NamesOK
  <2>4. qualifier'[Top] = Path[Parent[Top]]
    BY <1>5, <1>7, <2>1, <2>3
  <2>5. Path[Top] = Append(Path[Parent[Top]], Name[Top])
    BY <1>5, <1>7, <2>1, PathFacts
  <2>6. NewName(m_namespaces'[Top]) = Path[Top]
    BY <1>5, <1>7, <2>2, <2>4, <2>5
  <2>7. QED
    BY <1>2, <2>2, <2>6
<1>8. QED
  BY <1>3, <1>4, <1>6, <1>7 DEF GetNamespaceStep, Found, Ascend, Spin, treeVars

\* GetNamespace goes on.
LEMMA GetNamespaceKeeps == ReflectInv /\ GetNamespace => ReflectInv'
<1> SUFFICES ASSUME ReflectInv, GetNamespace PROVE ReflectInv'
  OBVIOUS
<1>1. /\ op # None /\ GetNamespaceStep
      /\ UNCHANGED <<op, contents, known, aborted>>
  BY DEF GetNamespace, reflectVars
<1>2. TreeInv' /\ NamesOK'
  BY <1>1, GetNamespaceTree, GetNamespaceNames DEF ReflectInv
<1>3. /\ calls # <<>>
      /\ \A c \in DOMAIN m_namespaces :
           /\ c \in DOMAIN m_namespaces' /\ m_namespaces'[c] = m_namespaces[c]
           /\ qualifier'[c] = qualifier[c]
      /\ \/ calls' # <<>> /\ calls'[1] = calls[1]
         \/ /\ calls' = <<>> /\ calls[1] \in DOMAIN m_namespaces'
            /\ returned' = m_namespaces'[calls[1]]
  BY <1>1, GetNamespaceGrows DEF ReflectInv
<1>4. OpOK'
  <2>1. NsContext(op'.asked) = NsContext(op.asked)
    BY <1>1
  <2>2. QED
    BY <1>1, <1>3, <2>1 DEF ReflectInv, OpOK
<1>5. ContentsOK' /\ OneInfoPerName' /\ aborted' \in BOOLEAN
  BY <1>1, <1>3 DEF ReflectInv, ContentsOK, OneInfoPerName
<1>6. PlacedWhereDeclared'
  <2>1. \A c \in Context : \A w \in Whats : \A i \in DOMAIN contents[c][w] :
          FullQualifiedName(c)' = FullQualifiedName(c)
    <3> TAKE c \in Context
    <3> TAKE w \in Whats
    <3> TAKE i \in DOMAIN contents[c][w]
    <3>1. contents[c][w] # <<>>
      OBVIOUS
    <3>2. c \in DOMAIN m_namespaces
      BY <3>1 DEF ReflectInv, ContentsOK
    <3>3. QED
      BY <1>3, <3>2 DEF FullQualifiedName
  <2>2. QED
    BY <1>1, <2>1 DEF ReflectInv, PlacedWhereDeclared
<1>7. KnownOK'
  BY <1>1, <1>3 DEF ReflectInv, KnownOK
<1>8. QED
  BY <1>2, <1>4, <1>5, <1>6, <1>7 DEF ReflectInv

\* What a call that looks for its info has to go by.
LEMMA LookingFacts ==
  ASSUME ReflectInv, op # None, calls = <<>>
  PROVE  /\ op.asked \in Decl /\ op.decl \in Decl /\ op.recursive \in BOOLEAN
         /\ Described(op.decl) = op.decl /\ What[op.decl] = What[op.asked]
         /\ What[op.decl] \in Whats /\ QualifiedName[op.decl] = QualifiedName[op.asked]
         /\ NsContext(op.asked) \in DOMAIN m_namespaces
         /\ returned = m_namespaces[NsContext(op.asked)]
         /\ returned \in Context /\ returned \in DOMAIN m_namespaces
         /\ m_namespaces[returned] = returned
         /\ FullQualifiedName(returned) = Path[Within[op.decl]]
         /\ Listed \in Seq(Infos)
         /\ Block[NsContext(op.decl)] = returned
<1>1. /\ op.asked \in Decl /\ op.decl = Described(op.asked) /\ op.recursive \in BOOLEAN
      /\ NsContext(op.asked) \in DOMAIN m_namespaces
      /\ returned = m_namespaces[NsContext(op.asked)]
  BY DEF ReflectInv, OpOK
<1>2. /\ op.decl \in Decl /\ Described(op.decl) = op.decl
      /\ What[op.decl] = What[op.asked] /\ What[op.decl] \in Whats
      /\ QualifiedName[op.decl] = QualifiedName[op.asked]
  BY <1>1, DescribedFacts, DeclAssumption
<1>3. /\ returned \in Context /\ returned \in DOMAIN m_namespaces
      /\ m_namespaces[returned] = returned
  BY <1>1 DEF ReflectInv, TreeInv, InfosOK, TreeTypeOK
<1>4. FullQualifiedName(returned) = Path[NsContext(op.asked)]
  BY <1>1 DEF ReflectInv, NamesOK
<1>5. Path[NsContext(op.asked)] = Path[Within[op.decl]]
  BY <1>1, NsContextFacts
<1>6. Listed \in Seq(Infos)
  BY <1>2, <1>3 DEF Listed, ReflectInv, ContentsOK
<1>7. Block[NsContext(op.decl)] = returned
  <2>1. m_namespaces[NsContext(op.asked)] = Block[NsContext(op.asked)]
    BY <1>1, InfoOfBlock DEF ReflectInv
  <2>2. QED
    BY <1>1, <2>1, NsContextFacts
<1>8. QED
  BY <1>1, <1>2, <1>3, <1>4, <1>5, <1>6, <1>7

\* The answer is in the list that the call has looked at.
LEMMA AnswerIsKnown ==
  ASSUME ReflectInv, op # None, calls = <<>>, UNCHANGED m_namespaces,
         NEW info, Answer(info),
         \A c \in Context : \A w \in Whats : \A i \in DOMAIN contents[c][w] :
           i \in DOMAIN contents'[c][w] /\ contents'[c][w][i] = contents[c][w][i],
         NEW n, n \in DOMAIN contents'[returned][What[op.decl]],
         contents'[returned][What[op.decl]][n] = info,
         QualifiedName[info.decl] = QualifiedName[op.decl]
  PROVE  KnownOK'
<1>1. op' = None /\ known' = [known EXCEPT ![op.asked] = info]
  BY DEF Answer
<1>2. DOMAIN known = Decl /\ op.asked \in Decl
  BY LookingFacts DEF ReflectInv, KnownOK
<1>3. ASSUME NEW d \in Decl, known'[d] # None
      PROVE  /\ NsContext(d) \in DOMAIN m_namespaces
             /\ \E i \in DOMAIN contents'[m_namespaces[NsContext(d)]][What[d]] :
                  /\ known'[d] = contents'[m_namespaces[NsContext(d)]][What[d]][i]
                  /\ QualifiedName[contents'[m_namespaces[NsContext(d)]][What[d]][i].decl]
                       = QualifiedName[d]
  <2>1. CASE d = op.asked
    BY <1>1, <1>2, <2>1, LookingFacts
  <2>2. CASE d # op.asked
    <3>1. known'[d] = known[d]
      BY <1>1, <1>2, <2>2
    <3>2. NsContext(d) \in DOMAIN m_namespaces
      BY <1>3, <3>1 DEF ReflectInv, KnownOK
    <3>3. m_namespaces[NsContext(d)] \in Context /\ What[d] \in Whats
      BY <3>2, DeclAssumption DEF ReflectInv, TreeInv, TreeTypeOK
    <3>4. PICK i \in DOMAIN contents[m_namespaces[NsContext(d)]][What[d]] :
            /\ known[d] = contents[m_namespaces[NsContext(d)]][What[d]][i]
            /\ QualifiedName[contents[m_namespaces[NsContext(d)]][What[d]][i].decl]
                 = QualifiedName[d]
      BY <1>3, <3>1 DEF ReflectInv, KnownOK
    <3>5. /\ i \in DOMAIN contents'[m_namespaces[NsContext(d)]][What[d]]
          /\ contents'[m_namespaces[NsContext(d)]][What[d]][i]
               = contents[m_namespaces[NsContext(d)]][What[d]][i]
      BY <3>3, <3>4
    <3>6. QED
      BY <3>1, <3>2, <3>4, <3>5
  <2>3. QED
    BY <2>1, <2>2
<1>4. DOMAIN known' = Decl
  BY <1>1, <1>2
<1>5. \A d \in Decl : NsContext(d)' = NsContext(d)
  OBVIOUS
<1>6. QED
  BY <1>3, <1>4 DEF KnownOK

\* An info of that name is in the list.
LEMMA FoundExistingKeeps == ReflectInv /\ FoundExisting => ReflectInv'
<1> SUFFICES ASSUME ReflectInv, FoundExisting PROVE ReflectInv'
  OBVIOUS
<1> DEFINE n == CHOOSE i \in Existing : \A j \in Existing : i <= j
<1>1. /\ op # None /\ calls = <<>> /\ Existing # {} /\ Answer(Listed[n])
      /\ UNCHANGED <<m_namespaces, m_rootNamespace, innerNamespaces, qualifier, calls,
                     returned, contents, aborted>>
  BY DEF FoundExisting, treeVars
<1>2. Listed \in Seq(Infos)
  BY <1>1, LookingFacts
<1>3. Existing \in SUBSET Nat
  BY <1>2 DEF Existing
<1>4. n \in Existing
  <2>1. \E i \in Existing : \A j \in Existing : i <= j
    BY <1>1, <1>3, SmallestInt
  <2>2. QED
    BY <2>1
<1>5. n \in DOMAIN Listed /\ QualifiedName[Listed[n].decl] = QualifiedName[op.decl]
  BY <1>4 DEF Existing
<1> HIDE DEF n
<1>6. KnownOK'
  <2>1. \A c \in Context : \A w \in Whats : \A i \in DOMAIN contents[c][w] :
          i \in DOMAIN contents'[c][w] /\ contents'[c][w][i] = contents[c][w][i]
    BY <1>1
  <2>2. /\ n \in DOMAIN contents'[returned][What[op.decl]]
        /\ contents'[returned][What[op.decl]][n] = Listed[n]
    BY <1>1, <1>5 DEF Listed
  <2>3. QED
    BY <1>1, <1>5, <2>1, <2>2, AnswerIsKnown
<1>7. TreeInv'
  BY <1>1, UnchangedTree DEF ReflectInv, treeVars
<1>8. OpOK'
  BY <1>1 DEF OpOK, Answer
<1>9. NamesOK' /\ ContentsOK' /\ OneInfoPerName' /\ PlacedWhereDeclared' /\ aborted' \in BOOLEAN
  BY <1>1 DEF ReflectInv, NamesOK, ContentsOK, OneInfoPerName, PlacedWhereDeclared,
              FullQualifiedName
<1>10. QED
  BY <1>6, <1>7, <1>8, <1>9 DEF ReflectInv

\* An info is made, and it is the only one of its name.
LEMMA MakeInfoKeeps == ReflectInv /\ MakeInfo => ReflectInv'
<1> SUFFICES ASSUME ReflectInv, MakeInfo PROVE ReflectInv'
  OBVIOUS
<1> DEFINE info == Info(op.decl, op.recursive)
           W == What[op.decl]
           n == Len(Listed) + 1
<1>1. /\ op # None /\ calls = <<>> /\ Existing = {} /\ Answer(info)
      /\ contents' = [contents EXCEPT ![returned][W] = Append(@, info)]
      /\ UNCHANGED <<m_namespaces, m_rootNamespace, innerNamespaces, qualifier, calls,
                     returned, aborted>>
  BY DEF MakeInfo, treeVars
<1>2. /\ info \in Infos /\ info.decl = op.decl
      /\ info.namespaceQualifier = NamespaceQualifier(op.decl)
  BY <1>1, LookingFacts, InfoFacts
<1> HIDE DEF info
<1>3. /\ returned \in Context /\ W \in Whats /\ Listed \in Seq(Infos)
      /\ returned \in DOMAIN m_namespaces /\ op.decl \in Decl
      /\ contents \in [Context -> [Whats -> Seq(Infos)]] /\ Listed = contents[returned][W]
      /\ Described(op.decl) = op.decl
      /\ FullQualifiedName(returned) = Path[Within[op.decl]]
      /\ Block[NsContext(op.decl)] = returned
  BY <1>1, LookingFacts DEF ReflectInv, ContentsOK, Listed
<1>4. /\ Append(Listed, info) \in Seq(Infos)
      /\ DOMAIN Append(Listed, info) = DOMAIN Listed \cup {n} /\ n \notin DOMAIN Listed
      /\ Append(Listed, info)[n] = info
      /\ \A i \in DOMAIN Listed : Append(Listed, info)[i] = Listed[i]
  <2>1. /\ Append(Listed, info) \in Seq(Infos)
        /\ Len(Append(Listed, info)) = n
        /\ \A i \in 1..Len(Listed) : Append(Listed, info)[i] = Listed[i]
        /\ Append(Listed, info)[n] = info
    BY <1>2, <1>3, AppendProperties
  <2>2. /\ DOMAIN Listed = 1..Len(Listed) /\ Len(Listed) \in Nat
        /\ DOMAIN Append(Listed, info) = 1..n
    BY <1>3, <2>1, LenProperties
  <2>3. QED
    BY <2>1, <2>2
<1> HIDE DEF W, n
<1>5. /\ contents' \in [Context -> [Whats -> Seq(Infos)]]
      /\ contents'[returned][W] = Append(Listed, info)
      /\ \A c \in Context : \A w \in Whats :
           c # returned \/ w # W => contents'[c][w] = contents[c][w]
  BY <1>1, <1>3, <1>4
<1>6. \A c \in Context : \A w \in Whats : \A i \in DOMAIN contents[c][w] :
        i \in DOMAIN contents'[c][w] /\ contents'[c][w][i] = contents[c][w][i]
  <2> SUFFICES ASSUME NEW c \in Context, NEW w \in Whats, NEW i \in DOMAIN contents[c][w]
               PROVE  i \in DOMAIN contents'[c][w] /\ contents'[c][w][i] = contents[c][w][i]
    OBVIOUS
  <2>1. CASE c = returned /\ w = W
    <3>1. contents'[c][w] = Append(Listed, info) /\ contents[c][w] = Listed
      BY <1>3, <1>5, <2>1
    <3>2. QED
      BY <1>4, <3>1
  <2>2. CASE c # returned \/ w # W
    BY <1>5, <2>2
  <2>3. QED
    BY <2>1, <2>2
<1>7. \A c \in Context : \A w \in Whats : \A i \in DOMAIN contents'[c][w] :
        \/ i \in DOMAIN contents[c][w] /\ contents'[c][w][i] = contents[c][w][i]
        \/ c = returned /\ w = W /\ i = n /\ contents'[c][w][i] = info
  <2> SUFFICES ASSUME NEW c \in Context, NEW w \in Whats, NEW i \in DOMAIN contents'[c][w]
               PROVE  \/ i \in DOMAIN contents[c][w] /\ contents'[c][w][i] = contents[c][w][i]
                      \/ c = returned /\ w = W /\ i = n /\ contents'[c][w][i] = info
    OBVIOUS
  <2>1. CASE c = returned /\ w = W
    <3>1. contents'[c][w] = Append(Listed, info) /\ contents[c][w] = Listed
      BY <1>3, <1>5, <2>1
    <3>2. QED
      BY <1>4, <2>1, <3>1
  <2>2. CASE c # returned \/ w # W
    <3>1. contents'[c][w] = contents[c][w]
      BY <1>5, <2>2
    <3>2. QED
      BY <3>1
  <2>3. QED
    BY <2>1, <2>2
<1>8. KnownOK'
  <2>1. n \in DOMAIN contents'[returned][W] /\ contents'[returned][W][n] = info
    BY <1>4, <1>5
  <2>2. QED
    BY <1>1, <1>2, <1>6, <2>1, AnswerIsKnown DEF W
<1>9. TreeInv'
  BY <1>1, UnchangedTree DEF ReflectInv, treeVars
<1>10. OpOK' /\ NamesOK' /\ aborted' \in BOOLEAN
  BY <1>1 DEF ReflectInv, OpOK, Answer, NamesOK, FullQualifiedName
<1>11. ContentsOK'
  <2>1. ASSUME NEW c \in Context, NEW w \in Whats, contents'[c][w] # <<>>
        PROVE  c \in DOMAIN m_namespaces'
    BY <1>1, <1>3, <1>5, <2>1 DEF ReflectInv, ContentsOK
  <2>2. ASSUME NEW c \in Context, NEW w \in Whats, NEW i \in DOMAIN contents'[c][w]
        PROVE  /\ What[contents'[c][w][i].decl] = w
               /\ Described(contents'[c][w][i].decl) = contents'[c][w][i].decl
               /\ Block[NsContext(contents'[c][w][i].decl)] = c
    <3>1. CASE i \in DOMAIN contents[c][w] /\ contents'[c][w][i] = contents[c][w][i]
      BY <3>1 DEF ReflectInv, ContentsOK
    <3>2. CASE c = returned /\ w = W /\ contents'[c][w][i] = info
      BY <1>2, <1>3, <3>2 DEF W
    <3>3. QED
      BY <1>7, <3>1, <3>2
  <2>3. QED
    BY <1>5, <2>1, <2>2 DEF ContentsOK
<1>12. OneInfoPerName'
  <2>1. \A i \in DOMAIN Listed : QualifiedName[Listed[i].decl] # QualifiedName[op.decl]
    BY <1>1 DEF Existing
  <2>2. ASSUME NEW c \in Context, NEW w \in Whats,
               NEW i \in DOMAIN contents'[c][w], NEW j \in DOMAIN contents'[c][w],
               QualifiedName[contents'[c][w][i].decl] = QualifiedName[contents'[c][w][j].decl]
        PROVE  i = j
    <3>1. CASE i \in DOMAIN contents[c][w] /\ j \in DOMAIN contents[c][w]
      BY <1>6, <2>2, <3>1 DEF ReflectInv, OneInfoPerName
    <3>2. CASE c = returned /\ w = W
      BY <1>2, <1>3, <1>7, <2>1, <2>2, <3>1, <3>2
    <3>3. QED
      BY <1>7, <3>1, <3>2
  <2>3. QED
    BY <2>2 DEF OneInfoPerName
<1>13. PlacedWhereDeclared'
  <2>1. \A c : FullQualifiedName(c)' = FullQualifiedName(c)
    BY <1>1 DEF FullQualifiedName
  <2>2. ~InlineAbove[Within[op.decl]] => info.namespaceQualifier = Path[Within[op.decl]]
    BY <1>2, <1>3, QualifierIsPath
  <2>3. ASSUME NEW c \in Context, NEW w \in Whats, NEW i \in DOMAIN contents'[c][w]
        PROVE  /\ FullQualifiedName(c) = Path[Within[contents'[c][w][i].decl]]
               /\ ~InlineAbove[Within[contents'[c][w][i].decl]] =>
                    contents'[c][w][i].namespaceQualifier = FullQualifiedName(c)
    <3>1. CASE i \in DOMAIN contents[c][w] /\ contents'[c][w][i] = contents[c][w][i]
      BY <3>1 DEF ReflectInv, PlacedWhereDeclared
    <3>2. CASE c = returned /\ contents'[c][w][i] = info
      BY <1>2, <1>3, <2>2, <3>2
    <3>3. QED
      BY <1>7, <3>1, <3>2
  <2>4. QED
    BY <2>1, <2>3 DEF PlacedWhereDeclared
<1>14. QED
  BY <1>8, <1>9, <1>10, <1>11, <1>12, <1>13 DEF ReflectInv

\* The process ends or has ended, or nothing is to be done.
LEMMA OthersKeep ==
  ASSUME ReflectInv, aborted' \in BOOLEAN,
         UNCHANGED <<treeVars, op, contents, known>>
  PROVE  ReflectInv'
<1>1. UNCHANGED <<m_namespaces, m_rootNamespace, innerNamespaces, qualifier, calls,
                  returned, op, contents, known>>
  BY DEF treeVars
<1>2. TreeInv'
  BY UnchangedTree DEF ReflectInv
<1>3. OpOK' /\ NamesOK' /\ ContentsOK' /\ KnownOK'
  BY <1>1 DEF ReflectInv, OpOK, NamesOK, ContentsOK, KnownOK, FullQualifiedName
<1>4. OneInfoPerName' /\ PlacedWhereDeclared'
  BY <1>1 DEF ReflectInv, OneInfoPerName, PlacedWhereDeclared, FullQualifiedName
<1>5. QED
  BY <1>2, <1>3, <1>4 DEF ReflectInv

\* Whatever is called next.
LEMMA NextKeeps == ReflectInv /\ [Next]_vars => ReflectInv'
<1> SUFFICES ASSUME ReflectInv, [Next]_vars PROVE ReflectInv'
  OBVIOUS
<1>1. CASE \E d \in Asked, recursive \in BOOLEAN : Reflect(d, recursive)
  BY <1>1, ReflectKeeps, DeclAssumption
<1>2. CASE \E d \in Asked : ReflectWithoutTree(d)
  BY <1>2, OthersKeep, DeclAssumption DEF ReflectWithoutTree
<1>3. CASE GetNamespace
  BY <1>3, GetNamespaceKeeps
<1>4. CASE FoundExisting
  BY <1>4, FoundExistingKeeps
<1>5. CASE MakeInfo
  BY <1>5, MakeInfoKeeps
<1>6. CASE InnerClassAborts
  BY <1>6, OthersKeep DEF InnerClassAborts
<1>7. CASE Dead \/ UNCHANGED vars
  BY <1>7, OthersKeep DEF Dead, vars, reflectVars, ReflectInv
<1>8. QED
  BY <1>1, <1>2, <1>3, <1>4, <1>5, <1>6, <1>7 DEF Next

\* The invariant.
THEOREM ReflectInvariance == Spec => []ReflectInv
<1>1. QED
  BY InitReflect, NextKeeps, PTL DEF Spec

-------------------------------------------------------------------------------
(* What the runs check.                                                    *)

\* The types of the reflector's state and of the tree under it.
THEOREM TypeCorrect == Spec => []TypeOK
<1>1. ReflectInv => TypeOK
  <2> SUFFICES ASSUME ReflectInv PROVE TypeOK
    OBVIOUS
  <2>1. TreeTypeOK /\ aborted \in BOOLEAN /\ (op = None => calls = <<>>)
    BY DEF ReflectInv, TreeInv, OpOK
  <2>2. op # None => op.decl \in Decl /\ op.asked \in Decl
    BY DescribedFacts DEF ReflectInv, OpOK
  <2>3. \A c \in Context : \A w \in Whats :
          \A i \in DOMAIN contents[c][w] : What[contents[c][w][i].decl] = w
    BY DEF ReflectInv, ContentsOK
  <2>4. ASSUME NEW d \in Decl, known[d] # None
        PROVE  What[known[d].decl] = What[d]
    <3>1. What[d] \in Whats /\ m_namespaces[NsContext(d)] \in Context
      BY <2>4, DeclAssumption DEF ReflectInv, KnownOK, TreeInv, TreeTypeOK
    <3>2. QED
      BY <2>3, <2>4, <3>1 DEF ReflectInv, KnownOK
  <2>5. QED
    BY <2>1, <2>2, <2>3, <2>4 DEF TypeOK
<1>2. QED
  BY <1>1, ReflectInvariance, PTL

\* GetNamespace: the tree mirrors the nesting of the namespaces, each of which has
\* one info in one place, whatever was asked for and in which order.
THEOREM TreeCorrect == Spec => []TreeOK
<1>1. ReflectInv => TreeOK
  BY DEF ReflectInv, TreeInv
<1>2. QED
  BY <1>1, ReflectInvariance, PTL

\* FindExisting: no list of a namespace has two infos of one name.
THEOREM OneInfo == Spec => []OneInfoPerName
<1>1. ReflectInv => OneInfoPerName
  BY DEF ReflectInv
<1>2. QED
  BY <1>1, ReflectInvariance, PTL

\* An info is listed by the namespace that its declaration lies in, and names it.
THEOREM Placed == Spec => []PlacedWhereDeclared
<1>1. ReflectInv => PlacedWhereDeclared
  BY DEF ReflectInv
<1>2. QED
  BY <1>1, ReflectInvariance, PTL

\* Declarations of one thing are answered with one info, whichever is asked for
\* first, but for those of a typedef in different blocks, which never are.
THEOREM Alike == Spec => []AnsweredAlike
<1>1. ReflectInv => AnsweredAlike
  <2> SUFFICES ASSUME ReflectInv, NEW p \in Redeclared,
                      known[p[1]] # None, known[p[2]] # None
               PROVE  known[p[1]] = known[p[2]] <=>
                        (What[p[1]] = "typedef" => Block[Within[p[1]]] = Block[Within[p[2]]])
    BY DEF AnsweredAlike
  <2> DEFINE d == p[1]
             e == p[2]
             b == Block[NsContext(d)]
             c == Block[NsContext(e)]
             w == What[d]
  <2>1. /\ d \in Decl /\ e \in Decl /\ What[e] = w /\ w \in Whats
        /\ QualifiedName[d] = QualifiedName[e]
        /\ NamespaceOf(Within[d]) = NamespaceOf(Within[e])
    BY DeclAssumption DEF Redeclared
  <2>2. /\ NsContext(d) \in DOMAIN m_namespaces /\ m_namespaces[NsContext(d)] = b /\ b \in Context
        /\ NsContext(e) \in DOMAIN m_namespaces /\ m_namespaces[NsContext(e)] = c /\ c \in Context
    BY <2>1, InfoOfBlock DEF ReflectInv, KnownOK, TreeInv, TreeTypeOK
  <2>3. PICK i \in DOMAIN contents[b][w] :
          known[d] = contents[b][w][i] /\ QualifiedName[contents[b][w][i].decl] = QualifiedName[d]
    BY <2>1, <2>2 DEF ReflectInv, KnownOK
  <2>4. PICK j \in DOMAIN contents[c][w] :
          known[e] = contents[c][w][j] /\ QualifiedName[contents[c][w][j].decl] = QualifiedName[e]
    <3>1. \E j \in DOMAIN contents[m_namespaces[NsContext(e)]][What[e]] :
            LET info == contents[m_namespaces[NsContext(e)]][What[e]][j]
            IN  known[e] = info /\ QualifiedName[info.decl] = QualifiedName[e]
      BY <2>1 DEF ReflectInv, KnownOK
    <3>2. m_namespaces[NsContext(e)] = c /\ What[e] = w
      BY <2>1, <2>2
    <3> HIDE DEF c, w, e
    <3>3. QED
      BY <3>1, <3>2
  <2>5. b = c <=> (w = "typedef" => Block[Within[d]] = Block[Within[e]])
    BY <2>1 DEF NsContext
  <2> HIDE DEF b, c, d, e, w
  <2>6. /\ Block[NsContext(contents[b][w][i].decl)] = b
        /\ Block[NsContext(contents[c][w][j].decl)] = c
    BY <2>1, <2>2, <2>3, <2>4 DEF ReflectInv, ContentsOK
  <2>7. known[d] = known[e] => b = c
    BY <2>3, <2>4, <2>6
  <2>8. b = c => i = j
    BY <2>1, <2>2, <2>3, <2>4 DEF ReflectInv, OneInfoPerName
  <2>9. known[d] = known[e] <=> b = c
    BY <2>3, <2>4, <2>7, <2>8
  <2>10. QED
    BY <2>5, <2>9 DEF d, e, w
<1>2. QED
  BY <1>1, ReflectInvariance, PTL

\* What a call returns is the info of what it was asked for, and of its definition
\* if there is one, as long as the name tells the declarations apart.
THEOREM InfoOfTheDecl == Spec => []InfoIsOfTheDecl
<1>1. ReflectInv => InfoIsOfTheDecl
  <2> SUFFICES ASSUME ReflectInv, NEW d \in ToldApart, known[d] # None
               PROVE  /\ known[d].decl \in Same(d)
                      /\ Definition[d] # None => known[d].decl = Definition[d]
    BY DEF InfoIsOfTheDecl
  <2>0. d \in Decl
    BY DEF ToldApart
  <2> DEFINE c == m_namespaces[NsContext(d)]
             e == known[d].decl
  <2>1. c \in Context /\ What[d] \in Whats
    BY <2>0, DeclAssumption DEF ReflectInv, KnownOK, TreeInv, TreeTypeOK
  <2>2. PICK i \in DOMAIN contents[c][What[d]] :
          /\ known[d] = contents[c][What[d]][i]
          /\ QualifiedName[contents[c][What[d]][i].decl] = QualifiedName[d]
    BY <2>0 DEF ReflectInv, KnownOK
  <2>3. known[d] \in Infos
    BY <2>1, <2>2 DEF ReflectInv, ContentsOK
  <2>4. e \in Decl
    <3>1. PICK f \in Decl, recursive \in BOOLEAN : known[d] = Info(f, recursive)
      BY <2>3 DEF Infos
    <3>2. known[d].decl = f
      BY <3>1, InfoFacts
    <3>3. QED
      BY <3>2
  <2>5. QualifiedName[e] = QualifiedName[d] /\ What[e] = What[d] /\ Described(e) = e
    BY <2>1, <2>2 DEF ReflectInv, ContentsOK
  <2> HIDE DEF c, e
  <2>6. e \in Same(d)
    BY <2>0, <2>4, <2>5 DEF ToldApart
  <2>7. ASSUME Definition[d] # None PROVE e = Definition[d]
    BY <2>0, <2>4, <2>5, <2>6, <2>7, DefinitionAssumption DEF Same, Described
  <2>8. QED
    BY <2>6, <2>7 DEF e
<1>2. QED
  BY <1>1, ReflectInvariance, PTL
===============================================================================
