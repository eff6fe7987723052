--------------------------- MODULE ClassMethodsProofs ---------------------------
(***************************************************************************)
(* The list of special members of any class, the types of any parameters   *)
(* and the names of any methods.                                           *)
(***************************************************************************)
EXTENDS ClassMethods, SequenceTheorems, FiniteSetTheorems, NaturalLemmas

-------------------------------------------------------------------------------
(* The list of special members.                                            *)

\* What ReflectImplicitSpecialMembers asks before it lists a member.
Lists(m) ==
  CASE m = "default"    -> ~class.userProvidedDefault /\ Has(class, "default")
    [] m = "copy"       -> "copy" \notin class.written /\ "copy" \notin class.nonConst
    [] m = "move"       -> "move" \notin class.written /\ Has(class, "move")
    [] m = "destructor" -> "destructor" \notin class.written /\ ~class.destructorDeleted
    [] m = "copy="      -> "copy=" \notin class.written /\ "copy=" \notin class.nonConst
    [] m = "move="      -> "move" \notin class.written /\ Has(class, "move=")

\* The members whose statement is still to come.
Pending ==
  CASE next = "default"    -> Special
    [] next = "copy"       -> {"copy", "move", "destructor", "copy=", "move="}
    [] next = "move"       -> {"move", "destructor", "copy=", "move="}
    [] next = "destructor" -> {"destructor", "copy=", "move="}
    [] next = "copy="      -> {"copy=", "move="}
    [] next = "move="      -> {"move="}
    [] OTHER               -> {}

\* Each statement lists its member once, and the loop what Clang has declared.
MembersInv ==
  /\ class \in Classes
  /\ next \in Special \cup {"methods", "done"}
  /\ DOMAIN methods = Special \X BOOLEAN
  /\ \A m \in Special :
       /\ methods[<<m, TRUE>>] = (IF m \notin Pending /\ Lists(m) THEN 1 ELSE 0)
                             + (IF next = "done" /\ m \in class.declared THEN 1 ELSE 0)
       /\ methods[<<m, FALSE>>] = IF next = "done" /\ m \in class.written THEN 1 ELSE 0

\* What is counted before the loop.
LEMMA Counted ==
  ASSUME MembersInv, NEW m \in Special
  PROVE  /\ next # "done" => methods[<<m, FALSE>>] = 0
         /\ m \in Pending /\ next # "done" => methods[<<m, TRUE>>] = 0
         /\ m \notin Pending /\ next # "done" =>
              methods[<<m, TRUE>>] = IF Lists(m) THEN 1 ELSE 0
<1>1. /\ methods[<<m, TRUE>>] = (IF m \notin Pending /\ Lists(m) THEN 1 ELSE 0)
                               + (IF next = "done" /\ m \in class.declared THEN 1 ELSE 0)
      /\ methods[<<m, FALSE>>] = IF next = "done" /\ m \in class.written THEN 1 ELSE 0
  BY DEF MembersInv
<1>2. QED
  BY <1>1

\* A statement of ReflectImplicitSpecialMembers.
LEMMA ListIfKeeps ==
  ASSUME MembersInv, NEW m \in Special, NEW following \in Special \cup {"methods"},
         ListIf(m, Lists(m), following), Lists(m) \in BOOLEAN,
         m \in Pending, Pending' = Pending \ {m}
  PROVE  MembersInv'
<1>1. /\ next = m /\ next' = following /\ class' = class
      /\ methods' = IF Lists(m) THEN [methods EXCEPT ![<<m, TRUE>>] = @ + 1] ELSE methods
  BY DEF ListIf
<1>2. next # "done" /\ next' # "done"
  BY <1>1 DEF Special, Constructors, Copies
<1>3. \A k \in Special : Lists(k)' = Lists(k)
  BY <1>1 DEF Lists, Has, Implicit
<1>4. DOMAIN methods' = Special \X BOOLEAN
  BY <1>1 DEF MembersInv
<1>5. ASSUME NEW k \in Special, k # m
      PROVE  methods'[<<k, TRUE>>] = methods[<<k, TRUE>>] /\ methods'[<<k, FALSE>>] = methods[<<k, FALSE>>]
  <2>1. <<k, TRUE>> # <<m, TRUE>> /\ <<k, FALSE>> # <<m, TRUE>>
    BY <1>5
  <2>2. <<k, TRUE>> \in DOMAIN methods /\ <<k, FALSE>> \in DOMAIN methods
    BY DEF MembersInv
  <2>3. QED
    BY <1>1, <2>1, <2>2
<1>6. /\ methods'[<<m, TRUE>>] = IF Lists(m) THEN 1 ELSE 0
      /\ methods'[<<m, FALSE>>] = 0
  <2>1. methods[<<m, TRUE>>] = 0 /\ methods[<<m, FALSE>>] = 0
    BY <1>2, Counted
  <2>2. <<m, TRUE>> \in DOMAIN methods /\ <<m, FALSE>> \in DOMAIN methods
        /\ <<m, FALSE>> # <<m, TRUE>>
    BY DEF MembersInv
  <2>3. QED
    BY <1>1, <2>1, <2>2
<1>7. ASSUME NEW k \in Special
      PROVE  /\ methods'[<<k, TRUE>>] = (IF k \notin Pending' /\ Lists(k)' THEN 1 ELSE 0)
                                    + (IF next' = "done" /\ k \in class'.declared THEN 1 ELSE 0)
             /\ methods'[<<k, FALSE>>] = IF next' = "done" /\ k \in class'.written THEN 1 ELSE 0
  <2>1. CASE k = m
    BY <1>2, <1>3, <1>6, <2>1
  <2>2. CASE k # m
    BY <1>2, <1>3, <1>5, <2>2 DEF MembersInv
  <2>3. QED
    BY <2>1, <2>2
<1>8. QED
  BY <1>1, <1>4, <1>7 DEF MembersInv

\* The loop over the methods.
LEMMA MethodsKeeps == MembersInv /\ Methods => MembersInv'
<1> SUFFICES ASSUME MembersInv, Methods PROVE MembersInv'
  OBVIOUS
<1>1. next = "methods" /\ next' = "done" /\ class' = class
  BY DEF Methods
<1>2. Pending = {} /\ Pending' = {} /\ next # "done"
  BY <1>1 DEF Pending
<1>3. \A k \in Special : Lists(k)' = Lists(k)
  BY <1>1 DEF Lists, Has, Implicit
<1>4. methods' = [entry \in Special \X BOOLEAN |->
                    methods[entry]
                      + (IF entry[1] \in (IF entry[2] THEN class.declared ELSE class.written)
                         THEN 1 ELSE 0)]
  BY DEF Methods
<1>5. ASSUME NEW k \in Special
      PROVE  /\ methods'[<<k, TRUE>>] = (IF Lists(k) THEN 1 ELSE 0)
                                    + (IF k \in class.declared THEN 1 ELSE 0)
             /\ methods'[<<k, FALSE>>] = IF k \in class.written THEN 1 ELSE 0
  <2>1. /\ methods[<<k, TRUE>>] = IF Lists(k) THEN 1 ELSE 0
        /\ methods[<<k, FALSE>>] = 0
    BY <1>2, Counted
  <2>2. <<k, TRUE>> \in Special \X BOOLEAN /\ <<k, FALSE>> \in Special \X BOOLEAN
    OBVIOUS
  <2>3. /\ methods'[<<k, TRUE>>] = methods[<<k, TRUE>>] + (IF k \in class.declared THEN 1 ELSE 0)
        /\ methods'[<<k, FALSE>>] = methods[<<k, FALSE>>] + (IF k \in class.written THEN 1 ELSE 0)
    BY <1>4, <2>2
  <2>4. QED
    BY <2>1, <2>3
<1>6. DOMAIN methods' = Special \X BOOLEAN
  BY <1>4
<1>7. QED
  BY <1>1, <1>2, <1>3, <1>5, <1>6 DEF MembersInv

\* Each statement is followed by the next one.
LEMMA ListKeeps == MembersInv /\ (ListStep \/ UNCHANGED vars) => MembersInv'
<1> SUFFICES ASSUME MembersInv, ListStep \/ UNCHANGED vars PROVE MembersInv'
  OBVIOUS
<1>0. \A m \in Special : Lists(m) \in BOOLEAN
  BY DEF Lists, Has, MembersInv, Classes, Special, Constructors, Copies
<1>1. CASE DefaultConstructor
  BY <1>0, <1>1, ListIfKeeps
     DEF DefaultConstructor, ListIf, Lists, Pending, Special, Constructors, Copies
<1>2. CASE CopyConstructor
  BY <1>0, <1>2, ListIfKeeps
     DEF CopyConstructor, ListIf, Lists, Pending, Special, Constructors, Copies
<1>3. CASE MoveConstructor
  BY <1>0, <1>3, ListIfKeeps
     DEF MoveConstructor, ListIf, Lists, Pending, Special, Constructors, Copies
<1>4. CASE Destructor
  BY <1>0, <1>4, ListIfKeeps
     DEF Destructor, ListIf, Lists, Pending, Special, Constructors, Copies
<1>5. CASE CopyAssignment
  BY <1>0, <1>5, ListIfKeeps
     DEF CopyAssignment, ListIf, Lists, Pending, Special, Constructors, Copies
<1>6. CASE MoveAssignment
  BY <1>0, <1>6, ListIfKeeps
     DEF MoveAssignment, ListIf, Lists, Pending, Special, Constructors, Copies
<1>7. CASE Methods
  BY <1>7, MethodsKeeps
<1>8. CASE UNCHANGED vars
  BY <1>8 DEF vars, MembersInv, Pending, Lists, Has, Implicit
<1>9. QED
  BY <1>1, <1>2, <1>3, <1>4, <1>5, <1>6, <1>7, <1>8 DEF ListStep

\* Nothing is listed.
LEMMA InitMembers == Init => MembersInv
<1> SUFFICES ASSUME Init PROVE MembersInv
  OBVIOUS
<1>1. /\ class \in Classes /\ next = "default"
      /\ methods = [entry \in Special \X BOOLEAN |-> 0]
  BY DEF Init
<1>2. Pending = Special /\ next # "done" /\ next \in Special
  BY <1>1 DEF Pending, Special, Constructors
<1>3. \A m \in Special : methods[<<m, TRUE>>] = 0 /\ methods[<<m, FALSE>>] = 0
  BY <1>1
<1>4. ASSUME NEW m \in Special
      PROVE  /\ methods[<<m, TRUE>>] = (IF m \notin Pending /\ Lists(m) THEN 1 ELSE 0)
                                       + (IF next = "done" /\ m \in class.declared THEN 1 ELSE 0)
             /\ methods[<<m, FALSE>>] = IF next = "done" /\ m \in class.written THEN 1 ELSE 0
  <2>1. ~(m \notin Pending /\ Lists(m)) /\ ~(next = "done" /\ m \in class.declared)
        /\ ~(next = "done" /\ m \in class.written)
    BY <1>2
  <2>2. methods[<<m, TRUE>>] = 0 /\ methods[<<m, FALSE>>] = 0
    BY <1>3
  <2>3. QED
    BY <2>1, <2>2
<1>5. DOMAIN methods = Special \X BOOLEAN
  BY <1>1
<1>6. QED
  BY <1>1, <1>2, <1>4, <1>5 DEF MembersInv

\* The invariant of the list.
THEOREM MembersInvariance == ClassSpec => []MembersInv
<1>1. ClassInit => MembersInv
  BY InitMembers DEF ClassInit
<1>2. MembersInv /\ [ClassNext]_allVars => MembersInv'
  BY ListKeeps DEF ClassNext, ListStep, forEachDeclaredMethod, Finished, allVars
<1>3. QED
  BY <1>1, <1>2, PTL DEF ClassSpec

\* The members of a class, whoever has declared them.
LEMMA MembersOfClasses ==
  ASSUME class \in Classes
  PROVE  /\ class.declared \subseteq Implicit(class)
         /\ Implicit(class) \cap class.written = {}
         /\ class.userProvidedDefault => "default" \in class.written
         /\ \A m \in {"copy", "copy=", "destructor"} : Has(class, m)
         /\ "move=" \in Implicit(class) => "move" \notin class.written
BY DEF Classes, Implicit, Has, Special, Constructors, Copies

\* No special member is listed that the class does not have; none is left out that
\* is written or that Clang has declared, and of the others only those the guards
\* leave out.
THEOREM Members == ClassSpec => []ExactlyTheMembers
<1>1. MembersInv => ExactlyTheMembers
  <2> SUFFICES ASSUME MembersInv, next = "done", NEW m \in Special
               PROVE  /\ Times(m) > 0 => Has(class, m)
                      /\ Has(class, m) /\ (m \in LeftOut => m \in class.written \cup class.declared)
                           => Times(m) > 0
    BY DEF ExactlyTheMembers
  <2>1. Times(m) = (IF Lists(m) THEN 1 ELSE 0) + (IF m \in class.declared THEN 1 ELSE 0)
                   + (IF m \in class.written THEN 1 ELSE 0)
    BY DEF Times, MembersInv, Pending
  <2>2. Times(m) > 0 <=> Lists(m) \/ m \in class.declared \/ m \in class.written
    BY <2>1
  <2>3. class \in Classes
    BY DEF MembersInv
  <2>4. Lists(m) => Has(class, m)
    BY <2>3, MembersOfClasses DEF Lists, Special, Constructors, Copies
  <2>5. ASSUME Has(class, m), m \notin class.written, m \notin LeftOut
        PROVE  Lists(m)
    BY <2>3, <2>5, MembersOfClasses DEF Has, Lists, LeftOut, Special, Constructors, Copies
  <2>6. QED
    BY <2>2, <2>3, <2>4, <2>5, MembersOfClasses DEF Has
<1>2. QED
  BY <1>1, MembersInvariance, PTL

\* Which of them are listed twice.
THEOREM Twice == ClassSpec => []TwiceOnlyThen
<1>1. MembersInv => TwiceOnlyThen
  <2> SUFFICES ASSUME MembersInv, NEW m \in Special
               PROVE  /\ Times(m) <= 2
                      /\ Times(m) = 2 =>
                           \/ m \in class.declared
                           \/ m = "default" /\ ~class.userProvidedDefault
                           \/ m = "move=" /\ "move" \notin class.written
    BY DEF TwiceOnlyThen
  <2> DEFINE listed   == m \notin Pending /\ Lists(m)
             byClang == next = "done" /\ m \in class.declared
             written  == next = "done" /\ m \in class.written
  <2>1. Times(m) = (IF listed THEN 1 ELSE 0) + (IF byClang THEN 1 ELSE 0)
                   + (IF written THEN 1 ELSE 0)
    BY DEF Times, MembersInv
  <2>2. ~(byClang /\ written)
    BY MembersOfClasses DEF MembersInv
  <2>3. listed /\ written =>
          \/ m = "default" /\ ~class.userProvidedDefault
          \/ m = "move=" /\ "move" \notin class.written
    BY DEF Lists, Special, Constructors, Copies
  <2> HIDE DEF listed, written
  <2>4. QED
    BY <2>1, <2>2, <2>3
<1>2. QED
  BY <1>1, MembersInvariance, PTL

-------------------------------------------------------------------------------
(* The names of methods.                                                   *)

\* What the provers know of STRING is not that "::" is one.
Word == STRING \cup {"::"}
Name == Seq(Word)

\* The names of the assumptions are names.
LEMMA Names == Seq(STRING) \subseteq Name
<1> SUFFICES ASSUME NEW s \in Seq(STRING) PROVE s \in Seq(Word)
  BY DEF Name
<1>1. /\ Len(s) \in Nat /\ s \in [1..Len(s) -> STRING]
  OBVIOUS
<1>2. s \in [1..Len(s) -> Word]
  BY <1>1 DEF Word
<1>3. QED
  BY <1>1, <1>2

\* A sequence, an element and a sequence.
LEMMA Joined ==
  ASSUME NEW S, NEW s \in Seq(S), NEW e \in S, NEW t \in Seq(S)
  PROVE  /\ s \o <<e>> \o t \in Seq(S)
         /\ Len(s \o <<e>> \o t) = Len(s) + 1 + Len(t)
         /\ \A i \in 1..Len(s) : (s \o <<e>> \o t)[i] = s[i]
         /\ (s \o <<e>> \o t)[Len(s) + 1] = e
         /\ \A i \in 1..Len(t) : (s \o <<e>> \o t)[Len(s) + 1 + i] = t[i]
<1> DEFINE front == s \o <<e>>
<1>1. /\ <<e>> \in Seq(S) /\ Len(<<e>>) = 1
      /\ Len(s) \in Nat /\ Len(t) \in Nat
  OBVIOUS
<1>2. /\ front \in Seq(S) /\ Len(front) = Len(s) + 1
      /\ \A i \in 1..Len(s) : front[i] = s[i]
      /\ front[Len(s) + 1] = e
  BY <1>1, ConcatProperties
<1> HIDE DEF front
<1>3. /\ front \o t \in Seq(S) /\ Len(front \o t) = Len(front) + Len(t)
      /\ \A i \in 1..(Len(front) + Len(t)) :
           (front \o t)[i] = IF i <= Len(front) THEN front[i] ELSE t[i - Len(front)]
  BY <1>2, ConcatProperties
<1>4. QED
  BY <1>1, <1>2, <1>3 DEF front

\* How a name grows by its scope.
LEMMA ScopedName ==
  ASSUME NEW scope \in Name, NEW name \in Name
  PROVE  /\ Scoped(scope, name) \in Name
         /\ Len(Scoped(scope, name)) =
              IF scope = <<>> THEN Len(name) ELSE Len(scope) + 1 + Len(name)
<1>1. scope \in Seq(Word) /\ name \in Seq(Word) /\ "::" \in Word
  BY DEF Name, Word
<1>2. /\ scope \o <<"::">> \o name \in Seq(Word)
      /\ Len(scope \o <<"::">> \o name) = Len(scope) + 1 + Len(name)
  BY <1>1, Joined
<1>3. QED
  BY <1>1, <1>2 DEF Scoped, Name

\* How a namespace grows by a scope.
LEMMA FullScopeName ==
  ASSUME NEW namespace \in Name, NEW scope \in Name
  PROVE  /\ FullScope(namespace, scope) \in Name
         /\ Len(FullScope(namespace, scope)) =
              IF scope = <<>> THEN Len(namespace) ELSE Len(namespace) + 1 + Len(scope)
<1>1. namespace \in Seq(Word) /\ scope \in Seq(Word) /\ "::" \in Word
  BY DEF Name, Word
<1>2. /\ namespace \o <<"::">> \o scope \in Seq(Word)
      /\ Len(namespace \o <<"::">> \o scope) = Len(namespace) + 1 + Len(scope)
  BY <1>1, Joined
<1>3. QED
  BY <1>1, <1>2 DEF FullScope, Name

\* A longer scope makes a longer name.
LEMMA LongerScope ==
  ASSUME NEW namespace \in Name, NEW short \in Name, NEW long \in Name, NEW name \in Name,
         Len(long) > Len(short)
  PROVE  Scoped(FullScope(namespace, long), name) # Scoped(FullScope(namespace, short), name)
<1> DEFINE left  == FullScope(namespace, long)
           right == FullScope(namespace, short)
<1>1. \A s \in Name : Len(s) \in Nat /\ (s = <<>> <=> Len(s) = 0)
  BY EmptySeq DEF Name
<1>2. /\ left \in Name /\ right \in Name
      /\ Len(left) = IF long = <<>> THEN Len(namespace) ELSE Len(namespace) + 1 + Len(long)
      /\ Len(right) = IF short = <<>> THEN Len(namespace) ELSE Len(namespace) + 1 + Len(short)
  BY FullScopeName
<1>3. Len(left) > Len(right)
  <2>1. long # <<>> /\ Len(long) \in Nat /\ Len(short) \in Nat /\ Len(namespace) \in Nat
    BY <1>1
  <2>2. QED
    BY <1>2, <2>1
<1> HIDE DEF left, right
<1>4. /\ Len(Scoped(left, name)) = IF left = <<>> THEN Len(name) ELSE Len(left) + 1 + Len(name)
      /\ Len(Scoped(right, name)) = IF right = <<>> THEN Len(name) ELSE Len(right) + 1 + Len(name)
  BY <1>2, ScopedName
<1>5. Len(Scoped(left, name)) > Len(Scoped(right, name))
  BY <1>1, <1>2, <1>3, <1>4
<1>6. Scoped(left, name) # Scoped(right, name)
  BY <1>1, <1>2, <1>5, ScopedName
<1>7. QED
  BY <1>6 DEF left, right

\* The scope of an implicit member is longer than that of a declared one, if its
\* class is qualified by anything, and the same otherwise.
LEMMA ImplicitScope ==
  ASSUME NEW namespace \in Name, NEW scope \in Name, NEW class_ \in Name, NEW name \in Name
  PROVE  LET full == Scoped(FullScope(namespace, scope), class_)
         IN  (Scoped(FullScope(namespace, full), name)
                = Scoped(FullScope(namespace, Scoped(scope, class_)), name))
             = (namespace = <<>> /\ scope = <<>>)
<1> DEFINE full  == Scoped(FullScope(namespace, scope), class_)
           short == Scoped(scope, class_)
<1>1. CASE namespace = <<>> /\ scope = <<>>
  BY <1>1 DEF Scoped, FullScope
<1>2. CASE ~(namespace = <<>> /\ scope = <<>>)
  <2>1. /\ FullScope(namespace, scope) \in Name
        /\ Len(FullScope(namespace, scope)) =
             IF scope = <<>> THEN Len(namespace) ELSE Len(namespace) + 1 + Len(scope)
    BY FullScopeName
  <2>2. /\ full \in Name /\ short \in Name
        /\ Len(short) = IF scope = <<>> THEN Len(class_) ELSE Len(scope) + 1 + Len(class_)
        /\ Len(full) = IF FullScope(namespace, scope) = <<>> THEN Len(class_)
                       ELSE Len(FullScope(namespace, scope)) + 1 + Len(class_)
    BY <2>1, ScopedName
  <2>3. \A s \in Name : Len(s) \in Nat /\ (s = <<>> <=> Len(s) = 0)
    BY EmptySeq DEF Name
  <2>4. Len(full) > Len(short)
    BY <1>2, <2>1, <2>2, <2>3
  <2> HIDE DEF full, short
  <2>5. Scoped(FullScope(namespace, full), name) # Scoped(FullScope(namespace, short), name)
    BY <2>2, <2>4, LongerScope
  <2>6. QED
    BY <1>2, <2>5 DEF full, short
<1>3. QED
  BY <1>1, <1>2

\* A method of a class is called as the class is, and by its own name after that.
CalledByClass(namespace, scope, class_, name) ==
  Scoped(FullScope(namespace, Scoped(scope, class_)), name) =
    (IF namespace = <<>> /\ scope = <<>> THEN <<"::">> ELSE <<>>)
      \o Scoped(FullScope(namespace, scope), class_) \o <<"::">> \o name

LEMMA NameOfMember ==
  ASSUME NEW namespace \in Name, NEW scope \in Name, NEW class_ \in Name, NEW name \in Name,
         class_ # <<>>
  PROVE  CalledByClass(namespace, scope, class_, name)
<1> USE DEF CalledByClass
<1> DEFINE colons == <<"::">>
<1>1. {namespace, scope, class_, name, colons, <<>>} \subseteq Seq(Word)
  BY DEF Name, Word
<1> HIDE DEF colons
<1>2. \A s, t, u \in Seq(Word) : (s \o t) \o u = s \o (t \o u)
  BY ConcatAssociative
<1>3. \A s, t \in Seq(Word) : s \o t \in Seq(Word)
  BY ConcatProperties
<1>4. \A s \in Seq(Word) : <<>> \o s = s
  BY ConcatSimplifications
<1>5. \A s, t \in Seq(Word) : s \o colons \o t # <<>>
  <2> SUFFICES ASSUME NEW s \in Seq(Word), NEW t \in Seq(Word) PROVE s \o colons \o t # <<>>
    OBVIOUS
  <2>1. "::" \in Word
    BY DEF Word
  <2>2. /\ s \o colons \o t \in Seq(Word) /\ Len(s \o colons \o t) = Len(s) + 1 + Len(t)
        /\ Len(s) \in Nat /\ Len(t) \in Nat
    BY <2>1, Joined DEF colons
  <2>3. QED
    BY <2>2, EmptySeq
<1>6. CASE scope = <<>>
  <2>1. Scoped(scope, class_) = class_ /\ FullScope(namespace, scope) = namespace
    BY <1>6 DEF Scoped, FullScope
  <2>2. FullScope(namespace, class_) = namespace \o colons \o class_
    BY DEF FullScope, colons
  <2>3. Scoped(namespace \o colons \o class_, name) = (namespace \o colons \o class_) \o colons \o name
    BY <1>1, <1>5 DEF Scoped, colons
  <2>4. CASE namespace = <<>>
    <3>1. Scoped(namespace, class_) = class_ /\ namespace \o colons = colons
      BY <1>1, <1>4, <2>4 DEF Scoped
    <3>2. QED
      BY <1>6, <2>1, <2>2, <2>3, <2>4, <3>1 DEF colons
  <2>5. CASE namespace # <<>>
    <3>1. Scoped(namespace, class_) = namespace \o colons \o class_
      BY <2>5 DEF Scoped, colons
    <3>2. <<>> \o (namespace \o colons \o class_) = namespace \o colons \o class_
      BY <1>1, <1>3, <1>4
    <3>3. QED
      BY <2>1, <2>2, <2>3, <2>5, <3>1, <3>2 DEF colons
  <2>6. QED
    BY <2>4, <2>5
<1>7. CASE scope # <<>>
  <2> DEFINE within == namespace \o colons \o scope
             short  == scope \o colons \o class_
  <2>1. Scoped(scope, class_) = short /\ FullScope(namespace, scope) = within
    BY <1>7 DEF Scoped, FullScope, colons
  <2>2. /\ within # <<>> /\ short # <<>> /\ within \in Seq(Word) /\ short \in Seq(Word)
    BY <1>1, <1>3, <1>5
  <2>3. Scoped(within, class_) = within \o colons \o class_
    BY <2>2 DEF Scoped, colons
  <2>4. FullScope(namespace, short) = namespace \o colons \o short
    BY <2>2 DEF FullScope, colons
  <2>5. namespace \o colons \o short = within \o colons \o class_
    <3>0. /\ namespace \in Seq(Word) /\ colons \in Seq(Word) /\ scope \in Seq(Word)
          /\ class_ \in Seq(Word) /\ namespace \o colons \in Seq(Word)
      BY <1>1, <1>3
    <3>1. namespace \o colons \o short = (namespace \o colons) \o (scope \o (colons \o class_))
      <4>1. short = scope \o (colons \o class_)
        BY <3>0, <1>2
      <4>2. QED
        BY <4>1
    <3>2. (namespace \o colons) \o (scope \o (colons \o class_)) = within \o (colons \o class_)
      <4>1. colons \o class_ \in Seq(Word)
        BY <3>0, <1>3
      <4>2. QED
        BY <3>0, <4>1, <1>2
    <3>3. within \o (colons \o class_) = within \o colons \o class_
      <4>1. \A w \in Seq(Word) : w \o (colons \o class_) = w \o colons \o class_
        <5>1. TAKE w \in Seq(Word)
        <5>2. (w \o colons) \o class_ = w \o (colons \o class_)
          BY <3>0, ConcatAssociative
        <5>3. QED
          BY <5>2
      <4> HIDE DEF within
      <4>2. QED
        BY <4>1, <2>2
    <3>4. QED
      BY <3>1, <3>2, <3>3
  <2>6. Scoped(within \o colons \o class_, name) = (within \o colons \o class_) \o colons \o name
    BY <1>1, <1>5, <2>2 DEF Scoped, colons
  <2>7. <<>> \o (within \o colons \o class_) = within \o colons \o class_
    BY <1>1, <1>3, <1>4, <2>2
  <2> HIDE DEF within, short
  <2>8. QED
    BY <1>7, <2>1, <2>3, <2>4, <2>5, <2>6, <2>7 DEF colons
<1>8. QED
  BY <1>6, <1>7

-------------------------------------------------------------------------------
(* The TypeInfos.                                                          *)

Fields == {"quals", "reference", "rvReference", "pointers", "declaredName",
           "scopedName", "fullName", "type", "wellKnown", "inner"}

\* A TypeInfo, whose three names are of one declaration.
IsInfo(info) ==
  /\ DOMAIN info = Fields
  /\ \E namespace, scope, name \in Name : info = WithNames(info, namespace, scope, name)

\* The layers that the first call of Create comes to, and those of them it has seen.
Outer ==
  {i \in DOMAIN type : \A j \in 1..(i - 1) : type[j].class \notin Nesting \cup Unvisited}
Seen  == {i \in Outer : i < at}

\* What DetectWellKnownType makes of a template's name and first argument.
Known(layer) ==
  LET full == Scoped(layer.namespace, Scoped(layer.scope, layer.name))
  IN  IF full = Std("basic_string")
      THEN CASE BuiltinClass(layer.kind) = "Char"  -> "StdString"
             [] BuiltinClass(layer.kind) = "WChar" -> "StdWstring"
             [] OTHER                              -> "none"
      ELSE IF \E n \in OtherWellKnown : full = Std(n) THEN "Std" ELSE "none"

\* Of the layers in S, one is of these classes.
Met(S, classes) == \E i \in S : type[i].class \in classes

\* What a TypeInfo says of the layers in S.
Describes(info, S) ==
  /\ info.reference = Met(S, {"LValueReference"})
  /\ info.rvReference = Met(S, {"RValueReference", "CollapsedReference"})
  /\ info.pointers \in Nat
  /\ info.pointers = 0 <=> ~Met(S, {"Pointer"})
  /\ info.type = "Record" <=> Met(S, {"Record"})
  /\ info.type = "TemplateTypeParm" <=> Met(S, {"TemplateTypeParm"})
  /\ info.type \in {"Template", "WellKnownType"} <=>
       Met(S, {"AliasTemplate", "TemplateSpecialization"})
  /\ \A i \in S : type[i].class = "TemplateSpecialization" =>
       info.wellKnown = Known(type[i])

Elements(s) == {s[i] : i \in DOMAIN s}

\* The first TypeInfo describes what it has seen; there is a second one below
\* the first layer at which Create is called again, and only there.
TypeInv ==
  /\ Done => frames = <<>> /\ IsType(type) /\ IsInfo(created) /\ Describes(created, Outer)
  /\ frames # <<>> =>
       /\ IsType(type) /\ at \in 1..(Len(type) + 1)
       /\ frames \in Seq(Elements(frames))
       /\ \A i \in DOMAIN frames : IsInfo(frames[i])
       /\ Describes(frames[1], Seen)
       /\ Len(frames) > 1 => at \notin Outer /\ Outer = Seen
       /\ Len(frames) = 1 /\ at <= Len(type) => at \in Outer

\* A sequence is one of its own elements.
LEMMA Own ==
  ASSUME NEW S, NEW s \in Seq(S)
  PROVE  s \in Seq(Elements(s))
<1>1. Len(s) \in Nat /\ s \in [1..Len(s) -> S] /\ DOMAIN s = 1..Len(s)
  OBVIOUS
<1>2. s \in [1..Len(s) -> Elements(s)]
  BY <1>1 DEF Elements
<1>3. QED
  BY <1>1, <1>2

\* The stack of TypeInfos.
LEMMA Stack ==
  ASSUME TypeInv, frames # <<>>
  PROVE  /\ Len(frames) \in Nat /\ Len(frames) >= 1 /\ DOMAIN frames = 1..Len(frames)
         /\ \E S : Below \in Seq(S)
         /\ Len(Below) = Len(frames) - 1
         /\ \A i \in 1..(Len(frames) - 1) : Below[i] = frames[i]
         /\ IsInfo(Top) /\ IsInfo(frames[1])
<1> DEFINE S == Elements(frames)
<1>1. frames \in Seq(S) /\ \A i \in DOMAIN frames : IsInfo(frames[i])
  BY DEF TypeInv
<1> HIDE DEF S
<1>2. Len(frames) \in Nat /\ Len(frames) >= 1 /\ DOMAIN frames = 1..Len(frames)
      /\ \A i \in 1..Len(frames) : frames[i] \in S
  BY <1>1, EmptySeq
<1>3. /\ Below \in Seq(S) /\ Len(Below) = Len(frames) - 1
      /\ \A i \in 1..(Len(frames) - 1) : Below[i] = frames[i]
  BY <1>2, SubSeqProperties DEF Below
<1>4. QED
  BY <1>1, <1>2, <1>3 DEF Top

\* The TypeInfo at the top is replaced.
LEMMA Replaced ==
  ASSUME TypeInv, frames # <<>>, NEW info, NEW new, new = Append(Below, info)
  PROVE  /\ new \in Seq(Elements(new))
         /\ Len(new) = Len(frames) /\ DOMAIN new = 1..Len(frames) /\ new # <<>>
         /\ new[Len(frames)] = info
         /\ \A i \in 1..(Len(frames) - 1) : new[i] = frames[i]
<1>1. PICK S : Below \in Seq(S)
  BY Stack
<1> DEFINE T == S \cup {info}
<1>2. Below \in Seq(T) /\ info \in T
  BY <1>1
<1> HIDE DEF T
<1>3. /\ new \in Seq(T) /\ Len(new) = Len(Below) + 1
      /\ \A i \in 1..Len(Below) : new[i] = Below[i]
      /\ new[Len(Below) + 1] = info
  BY <1>2
<1>4. DOMAIN new = 1..Len(new)
  BY <1>3
<1>5. /\ Len(frames) \in Nat /\ Len(frames) >= 1 /\ Len(Below) = Len(frames) - 1
      /\ \A i \in 1..(Len(frames) - 1) : Below[i] = frames[i]
  BY Stack
<1>6. Len(new) = Len(frames) /\ new # <<>>
  BY <1>3, <1>5
<1>7. new \in Seq(Elements(new))
  BY <1>3, Own
<1>8. QED
  BY <1>3, <1>4, <1>5, <1>6, <1>7

\* One more TypeInfo is put on top of the stack.
IsPushed(fr, new, outer, inner) ==
  /\ Len(fr) \in Nat \ {0}
  /\ new \in Seq(Elements(new))
  /\ Len(new) = Len(fr) + 1 /\ DOMAIN new = 1..(Len(fr) + 1) /\ new # <<>>
  /\ new[Len(fr) + 1] = inner /\ new[Len(fr)] = outer
  /\ \A i \in 1..(Len(fr) - 1) : new[i] = fr[i]

LEMMA Pushed ==
  ASSUME TypeInv, frames # <<>>, NEW outer, NEW inner
  PROVE  IsPushed(frames, Append(Append(Below, outer), inner), outer, inner)
<1> DEFINE mid == Append(Below, outer)
           new == Append(mid, inner)
           n   == Len(frames)
<1>1. n \in Nat \ {0}
  BY Stack
<1>2. /\ mid \in Seq(Elements(mid))
      /\ Len(mid) = n /\ mid[n] = outer /\ \A i \in 1..(n - 1) : mid[i] = frames[i]
  BY Replaced
<1> DEFINE S == Elements(mid) \cup {inner}
<1>3. mid \in Seq(S) /\ inner \in S
  BY <1>2
<1> HIDE DEF S, mid
<1>4. /\ new \in Seq(S) /\ Len(new) = n + 1 /\ DOMAIN new = 1..(n + 1) /\ new # <<>>
      /\ new[n + 1] = inner /\ \A i \in 1..n : new[i] = mid[i]
  BY <1>2, <1>3
<1> HIDE DEF new
<1>5. new \in Seq(Elements(new))
  BY <1>4, Own
<1>6. n \in 1..n /\ \A i \in 1..(n - 1) : i \in 1..n
  BY <1>1
<1>7. IsPushed(frames, new, outer, inner)
  BY <1>1, <1>2, <1>4, <1>5, <1>6 DEF IsPushed
<1>8. QED
  BY <1>7 DEF new, mid

\* The TypeInfo on top is put into the one below.
IsPopped(fr, new, below, item) ==
  LET n == Len(fr) - 1
  IN  /\ n \in Nat \ {0} /\ Len(below) = n /\ below[n] = fr[n]
      /\ new \in Seq(Elements(new))
      /\ Len(new) = n /\ DOMAIN new = 1..n /\ new # <<>>
      /\ new[n] = [fr[n] EXCEPT !.inner = item]
      /\ \A i \in 1..(n - 1) : new[i] = fr[i]

LEMMA Popped ==
  ASSUME TypeInv, frames # <<>>, Len(frames) > 1, NEW item
  PROVE  IsPopped(frames, [Below EXCEPT ![Len(Below)].inner = item], Below, item)
<1> DEFINE n    == Len(frames) - 1
           info == [Below[n] EXCEPT !.inner = item]
           new  == [Below EXCEPT ![n] = info]
<1>1. /\ Len(Below) = n /\ n \in Nat \ {0}
      /\ \A i \in 1..n : Below[i] = frames[i]
  <2>1. /\ Len(frames) \in Nat /\ Len(Below) = n
        /\ \A i \in 1..n : Below[i] = frames[i]
    BY Stack
  <2>2. \A m \in Nat : m > 1 => m - 1 \in Nat /\ m - 1 # 0
    OBVIOUS
  <2>3. n \in Nat \ {0}
    BY <2>1, <2>2
  <2>4. QED
    BY <2>1, <2>3
<1>2. PICK S : Below \in Seq(S)
  BY Stack
<1> DEFINE T == S \cup {info}
<1>3. Below \in [1..n -> S]
  BY <1>1, <1>2
<1>4. new \in [1..n -> T]
  BY <1>3
<1>5. new \in Seq(T) /\ DOMAIN new = 1..n
  <2>1. n \in Nat
    BY <1>1
  <2> HIDE DEF new, n, T
  <2>2. QED
    BY <1>4, <2>1
<1>6. \A i \in 1..n : new[i] = IF i = n THEN info ELSE Below[i]
  BY <1>3
<1>7. n \in 1..n /\ \A i \in 1..(n - 1) : i \in 1..n /\ i # n
  BY <1>1
<1>8. info = [frames[n] EXCEPT !.inner = item] /\ Below[n] = frames[n]
  BY <1>1, <1>7
<1>9. new = [Below EXCEPT ![Len(Below)].inner = item]
  BY <1>1
<1> HIDE DEF T, info, new
<1>10. Len(new) = n /\ new # <<>>
  BY <1>1, <1>5
<1>11. new \in Seq(Elements(new))
  BY <1>5, Own
<1>12. new[n] = info /\ \A i \in 1..(n - 1) : new[i] = frames[i]
  BY <1>1, <1>6, <1>7
<1>13. IsPopped(frames, new, Below, item)
  BY <1>1, <1>5, <1>8, <1>10, <1>11, <1>12 DEF IsPopped
<1>14. QED
  BY <1>9, <1>13

-------------------------------------------------------------------------------
\* The names stay what they are when something else is noted.
LEMMA InfoKept ==
  ASSUME NEW info, IsInfo(info), NEW v,
         NEW f \in {"quals", "reference", "rvReference", "pointers", "type", "wellKnown", "inner"}
  PROVE  IsInfo([info EXCEPT ![f] = v])
<1> DEFINE new == [info EXCEPT ![f] = v]
<1>1. PICK namespace \in Name, scope \in Name, name \in Name :
        info = WithNames(info, namespace, scope, name)
  BY DEF IsInfo
<1>2. DOMAIN info = Fields
  BY DEF IsInfo
<1>3. DOMAIN new = Fields /\ new = WithNames(new, namespace, scope, name)
  BY <1>1, <1>2 DEF WithNames, Fields
<1>4. QED
  BY <1>3 DEF IsInfo

\* The names of a declaration are noted.
LEMMA InfoNamed ==
  ASSUME NEW info, IsInfo(info), NEW namespace \in Name, NEW scope \in Name, NEW name \in Name
  PROVE  IsInfo(WithNames(info, namespace, scope, name))
<1> DEFINE new == WithNames(info, namespace, scope, name)
<1>1. DOMAIN info = Fields
  BY DEF IsInfo
<1>2. DOMAIN new = Fields /\ new = WithNames(new, namespace, scope, name)
  BY <1>1 DEF WithNames, Fields
<1>3. QED
  BY <1>2 DEF IsInfo

LEMMA FreshIsInfo == IsInfo(Fresh)
<1>1. <<>> \in Name
  BY DEF Name
<1>2. Scoped(<<>>, <<>>) = <<>>
  BY DEF Scoped
<1>3. DOMAIN Fresh = Fields /\ Fresh.declaredName = <<>> /\ Fresh.scopedName = <<>>
      /\ Fresh.fullName = <<>> /\ Fresh = [f \in Fields |-> Fresh[f]]
  BY DEF Fresh, Fields
<1>4. Fresh = [Fresh EXCEPT !.declaredName = <<>>, !.scopedName = <<>>, !.fullName = <<>>]
  BY <1>3
<1>5. Fresh = WithNames(Fresh, <<>>, <<>>, <<>>)
  BY <1>2, <1>4 DEF WithNames
<1>6. QED
  BY <1>1, <1>3, <1>5 DEF IsInfo

-------------------------------------------------------------------------------
\* The layer that is visited.
LEMMA LayerFacts ==
  ASSUME TypeInv, Visiting
  PROVE  /\ ~Done /\ frames # <<>> /\ IsType(type)
         /\ Len(type) \in Nat /\ DOMAIN type = 1..Len(type) /\ at \in 1..Len(type)
         /\ Layer = type[at] /\ (Layer.class \in Leaves <=> at = Len(type))
         /\ {Layer.namespace, Layer.scope, Layer.name} \subseteq Name
         /\ Layer.kind \in STRING
<1>1. frames # <<>> /\ IsType(type) /\ ~Done /\ at \in 1..(Len(type) + 1) /\ at <= Len(type)
  BY DEF TypeInv, Visiting
<1>2. Len(type) \in Nat /\ DOMAIN type = 1..Len(type)
  BY <1>1 DEF IsType
<1>3. at \in 1..Len(type)
  BY <1>1, <1>2
<1>4. /\ type[at].class \in Leaves <=> at = Len(type)
      /\ {type[at].namespace, type[at].scope, type[at].name} \subseteq Seq(STRING)
      /\ type[at].kind \in STRING
  BY <1>1, <1>3 DEF IsType
<1>5. QED
  BY <1>1, <1>2, <1>3, <1>4, Names DEF Layer

\* The layers that have been seen when one more has been visited.
LEMMA SeenNext ==
  ASSUME TypeInv, Visiting, type' = type, at' = at + 1
  PROVE  /\ Outer' = Outer
         /\ at \in Outer => Seen' = Seen \cup {at}
         /\ at \notin Outer => Seen' = Seen
         /\ at \in Outer /\ Layer.class \notin Nesting \cup Unvisited /\ at + 1 <= Len(type)
              => at + 1 \in Outer
         /\ at \in Outer /\ Layer.class \in Nesting => Outer' = Seen' /\ at + 1 \notin Outer
         /\ at \notin Outer => at + 1 \notin Outer
<1>1. /\ Len(type) \in Nat /\ DOMAIN type = 1..Len(type) /\ at \in 1..Len(type)
      /\ Layer = type[at]
  BY LayerFacts
<1>2. Outer' = Outer
  BY DEF Outer
<1>3. Seen' = {i \in Outer : i < at + 1}
  BY <1>2 DEF Seen
<1>4. Outer \subseteq 1..Len(type)
  BY <1>1 DEF Outer
<1>5. /\ at \in Outer => Seen' = Seen \cup {at}
      /\ at \notin Outer => Seen' = Seen
  <2>1. \A i \in Outer : i < at + 1 <=> i < at \/ i = at
    BY <1>1, <1>4
  <2> HIDE DEF Outer
  <2>2. \A i : i \in Seen' <=> i \in Outer /\ (i < at \/ i = at)
    BY <1>3, <2>1
  <2>3. \A i : i \in Seen <=> i \in Outer /\ i < at
    BY DEF Seen
  <2>4. QED
    BY <2>2, <2>3
<1>6. /\ at \in Outer /\ Layer.class \notin Nesting \cup Unvisited /\ at + 1 <= Len(type)
           => at + 1 \in Outer
      /\ at \notin Outer => at + 1 \notin Outer
  BY <1>1 DEF Outer
<1>7. ASSUME at \in Outer, Layer.class \in Nesting
      PROVE  Outer' = Seen' /\ at + 1 \notin Outer
  <2>1. \A i \in Outer : i < at + 1
    BY <1>1, <1>4, <1>7 DEF Outer
  <2>2. Outer' = Seen'
    BY <1>2, <1>3, <2>1
  <2>3. at + 1 \notin Outer
    BY <1>1, <2>1
  <2>4. QED
    BY <2>2, <2>3
<1>8. QED
  BY <1>2, <1>5, <1>6, <1>7

\* The TypeInfo at the top is replaced, and the visitor goes on.
LEMMA TopKeeps ==
  ASSUME TypeInv, Visiting, NEW info, IsInfo(info), frames' = Append(Below, info),
         type' = type, created' = created, at' \in 1..(Len(type) + 1),
         Len(frames) = 1 =>
           Describes(info, Seen') /\ (at' <= Len(type) => at' \in Outer),
         Len(frames) > 1 => at' \notin Outer /\ Seen' = Seen
  PROVE  TypeInv'
<1>1. /\ ~Done /\ frames # <<>> /\ IsType(type)
      /\ Len(type) \in Nat /\ at \in 1..Len(type)
  BY LayerFacts
<1>2. Outer' = Outer
  BY DEF Outer
<1>3. /\ frames' \in Seq(Elements(frames'))
      /\ Len(frames') = Len(frames) /\ DOMAIN frames' = 1..Len(frames) /\ frames' # <<>>
      /\ frames'[Len(frames)] = info
      /\ \A i \in 1..(Len(frames) - 1) : frames'[i] = frames[i]
  <2> DEFINE new == Append(Below, info)
  <2>1. /\ new \in Seq(Elements(new))
        /\ Len(new) = Len(frames) /\ DOMAIN new = 1..Len(frames) /\ new # <<>>
        /\ new[Len(frames)] = info
        /\ \A i \in 1..(Len(frames) - 1) : new[i] = frames[i]
    BY <1>1, Replaced
  <2>2. frames' = new
    OBVIOUS
  <2> HIDE DEF new
  <2>3. QED
    BY <2>1, <2>2
<1>4. Len(frames) \in Nat /\ Len(frames) >= 1 /\ DOMAIN frames = 1..Len(frames)
  BY <1>1, Stack
<1>5. \A i \in DOMAIN frames' : IsInfo(frames'[i])
  <2>1. \A i \in 1..Len(frames) : IsInfo(frames[i])
    BY <1>1, <1>4 DEF TypeInv
  <2>2. \A n \in Nat : \A i \in 1..n : i = n \/ i \in 1..(n - 1)
    OBVIOUS
  <2>3. \A i \in 1..Len(frames) : i = Len(frames) \/ i \in 1..(Len(frames) - 1)
    BY <1>4, <2>2
  <2>4. QED
    BY <1>3, <2>1, <2>3
<1>6. ~Done'
  BY <1>1 DEF Done
<1>7. IsType(type') /\ at' \in 1..(Len(type') + 1)
  BY <1>1
<1>8. CASE Len(frames) = 1
  <2>1. frames'[1] = info
    BY <1>3, <1>8
  <2>2. Describes(frames'[1], Seen')
    BY <1>8, <2>1
  <2>3. Describes(frames[1], Seen)'
    BY <2>2 DEF Describes, Met
  <2>4. QED
    BY <1>2, <1>3, <1>5, <1>6, <1>7, <1>8, <2>3 DEF TypeInv
<1>9. CASE Len(frames) > 1
  <2>1. Outer = Seen /\ Describes(frames[1], Seen)
    BY <1>1, <1>9 DEF TypeInv
  <2>2. frames'[1] = frames[1]
    BY <1>3, <1>4, <1>9
  <2>3. Describes(frames[1], Seen)'
    BY <1>9, <2>1, <2>2 DEF Describes, Met
  <2>4. at' \notin Outer' /\ Outer' = Seen' /\ Len(frames') # 1
    BY <1>2, <1>3, <1>4, <1>9, <2>1
  <2>5. QED
    BY <1>3, <1>5, <1>6, <1>7, <2>3, <2>4 DEF TypeInv
<1>10. QED
  BY <1>4, <1>8, <1>9

\* The visitor notes something and goes on to the next layer.
LEMMA NoteKeeps ==
  ASSUME TypeInv, Visiting, NEW info, Note(info), IsInfo(info),
         Layer.class \notin Nesting \cup Unvisited,
         Len(frames) = 1 => Describes(info, Seen \cup {at})
  PROVE  TypeInv'
<1>1. /\ frames' = Append(Below, info) /\ at' = at + 1
      /\ type' = type /\ created' = created
  BY DEF Note
<1>2. frames # <<>> /\ Len(type) \in Nat /\ at \in 1..Len(type) /\ at <= Len(type)
  BY LayerFacts DEF Visiting
<1>3. at' \in 1..(Len(type) + 1)
  BY <1>1, <1>2
<1>4. ASSUME Len(frames) = 1
      PROVE  Describes(info, Seen') /\ (at' <= Len(type) => at' \in Outer)
  <2>1. at \in Outer
    BY <1>2, <1>4 DEF TypeInv
  <2>2. Seen' = Seen \cup {at} /\ (at + 1 <= Len(type) => at + 1 \in Outer)
    BY <1>1, <2>1, SeenNext
  <2>3. QED
    BY <1>1, <1>4, <2>2
<1>5. ASSUME Len(frames) > 1
      PROVE  at' \notin Outer /\ Seen' = Seen
  <2>1. at \notin Outer
    BY <1>2, <1>5 DEF TypeInv
  <2>2. QED
    BY <1>1, <2>1, SeenNext
<1>6. QED
  BY <1>1, <1>3, <1>4, <1>5, TopKeeps

\* What the only TypeInfo says before the layer is visited: it has met neither a
\* leaf nor an inner type.
LEMMA QualifiedTop ==
  ASSUME TypeInv, Visiting
  PROVE  /\ IsInfo(Qualified(Top))
         /\ Len(frames) = 1 =>
              /\ Describes(Qualified(Top), Seen)
              /\ \A i \in Seen : type[i].class \notin Leaves \cup Nesting
<1>1. /\ frames # <<>> /\ IsType(type) /\ Len(type) \in Nat /\ at \in 1..Len(type)
      /\ DOMAIN type = 1..Len(type)
  BY LayerFacts
<1>2. IsInfo(Top)
  BY <1>1, Stack
<1>3. IsInfo(Qualified(Top))
  BY <1>2, InfoKept DEF Qualified
<1>4. ASSUME Len(frames) = 1
      PROVE  Describes(Qualified(Top), Seen)
  <2>1. Describes(Top, Seen)
    BY <1>1, <1>4 DEF TypeInv, Top
  <2>2. DOMAIN Top = Fields
    BY <1>2 DEF IsInfo
  <2>3. \A f \in {"reference", "rvReference", "pointers", "type", "wellKnown"} :
          Qualified(Top)[f] = Top[f]
    BY <2>2 DEF Qualified, Fields
  <2>4. QED
    BY <2>1, <2>3 DEF Describes
<1>5. ASSUME Len(frames) = 1, NEW i \in Seen
      PROVE  type[i].class \notin Leaves \cup Nesting
  <2>1. i \in 1..Len(type) /\ i < at /\ at \in Outer
    BY <1>1, <1>5 DEF TypeInv, Seen, Outer
  <2>2. type[i].class \notin Nesting
    BY <1>1, <2>1 DEF Outer
  <2>3. type[i].class \in Leaves <=> i = Len(type)
    BY <1>1, <2>1 DEF IsType
  <2>4. \A n \in Nat : \A b, a \in 1..n : a < b => a # n
    OBVIOUS
  <2>5. i # Len(type)
    BY <1>1, <2>1, <2>4, Zenon
  <2>6. QED
    BY <2>2, <2>3, <2>5
<1>6. QED
  BY <1>3, <1>4, <1>5

\* What a TypeInfo must note of the layer.
Noted(old, new) ==
  /\ new.reference = IF Layer.class = "LValueReference" THEN TRUE ELSE old.reference
  /\ new.rvReference = IF Layer.class \in {"RValueReference", "CollapsedReference"}
                       THEN TRUE ELSE old.rvReference
  /\ new.pointers = IF Layer.class = "Pointer" THEN old.pointers + 1 ELSE old.pointers
  /\ CASE Layer.class \in {"Record", "TemplateTypeParm"} -> new.type = Layer.class
       [] Layer.class \in {"AliasTemplate", "TemplateSpecialization"} ->
            new.type \in {"Template", "WellKnownType"}
       [] OTHER -> \/ new.type = old.type
                   \/ new.type \notin {"Record", "TemplateTypeParm", "Template", "WellKnownType"}
  /\ Layer.class = "TemplateSpecialization" => new.wellKnown = Known(Layer)

\* Then it describes this layer too.
LEMMA DescribesNext ==
  ASSUME NEW old, NEW new, NEW S, Describes(old, S), Noted(old, new),
         \A i \in S : type[i].class \notin Leaves \cup Nesting
  PROVE  Describes(new, S \cup {at})
<1> DEFINE more == S \cup {at}
<1>1. \A classes : Met(more, classes) = (Met(S, classes) \/ Layer.class \in classes)
  BY DEF Met, Layer
<1>2. ~Met(S, Leaves \cup Nesting)
  BY DEF Met
<1>3. /\ ~Met(S, {"Record"}) /\ ~Met(S, {"TemplateTypeParm"})
      /\ ~Met(S, {"AliasTemplate", "TemplateSpecialization"})
      /\ \A i \in S : type[i].class # "TemplateSpecialization"
  BY DEF Met, Leaves, Named, Nesting
<1>4. /\ old.reference = Met(S, {"LValueReference"})
      /\ old.rvReference = Met(S, {"RValueReference", "CollapsedReference"})
      /\ old.pointers \in Nat
      /\ (old.pointers = 0) <=> ~Met(S, {"Pointer"})
      /\ (old.type = "Record") <=> Met(S, {"Record"})
      /\ (old.type = "TemplateTypeParm") <=> Met(S, {"TemplateTypeParm"})
      /\ (old.type \in {"Template", "WellKnownType"}) <=>
           Met(S, {"AliasTemplate", "TemplateSpecialization"})
  BY DEF Describes
<1>5. \A i \in more : type[i].class = "TemplateSpecialization" =>
                        new.wellKnown = Known(type[i])
  BY <1>3 DEF Noted, Layer
<1> HIDE DEF more
<1>6. /\ new.reference = Met(more, {"LValueReference"})
      /\ new.rvReference = Met(more, {"RValueReference", "CollapsedReference"})
  <2>1. /\ Met(more, {"LValueReference"}) <=>
               (Met(S, {"LValueReference"}) \/ Layer.class = "LValueReference")
        /\ Met(more, {"RValueReference", "CollapsedReference"}) <=>
             (Met(S, {"RValueReference", "CollapsedReference"})
               \/ Layer.class \in {"RValueReference", "CollapsedReference"})
    BY <1>1
  <2>2. /\ new.reference = (old.reference \/ Layer.class = "LValueReference")
        /\ new.rvReference = (old.rvReference
              \/ Layer.class \in {"RValueReference", "CollapsedReference"})
    BY <1>4 DEF Noted, Met
  <2>3. QED
    BY <1>4, <2>1, <2>2 DEF Met
<1>7. /\ new.pointers \in Nat
      /\ (new.pointers = 0) <=> ~Met(more, {"Pointer"})
  <2>1. Met(more, {"Pointer"}) <=> (Met(S, {"Pointer"}) \/ Layer.class = "Pointer")
    BY <1>1
  <2>2. CASE Layer.class = "Pointer"
    BY <1>4, <2>1, <2>2 DEF Noted
  <2>3. CASE Layer.class # "Pointer"
    BY <1>4, <2>1, <2>3 DEF Noted
  <2>4. QED
    BY <2>2, <2>3
<1>8. /\ (new.type = "Record") <=> Met(more, {"Record"})
      /\ (new.type = "TemplateTypeParm") <=> Met(more, {"TemplateTypeParm"})
      /\ (new.type \in {"Template", "WellKnownType"}) <=>
           Met(more, {"AliasTemplate", "TemplateSpecialization"})
  <2>1. /\ Met(more, {"Record"}) <=> Layer.class = "Record"
        /\ Met(more, {"TemplateTypeParm"}) <=> Layer.class = "TemplateTypeParm"
        /\ Met(more, {"AliasTemplate", "TemplateSpecialization"}) <=>
             Layer.class \in {"AliasTemplate", "TemplateSpecialization"}
    BY <1>1, <1>3
  <2>2. old.type \notin {"Record", "TemplateTypeParm", "Template", "WellKnownType"}
    BY <1>3, <1>4
  <2>3. QED
    BY <2>1, <2>2 DEF Noted
<1>9. QED
  BY <1>5, <1>6, <1>7, <1>8 DEF Describes, more

\* The visitor notes all of a layer that is described.
LEMMA VisitKeeps ==
  ASSUME TypeInv, Visiting, Layer.class \notin Nesting \cup Unvisited,
         NEW info, IsInfo(info), Note(info), Len(frames) = 1 => Noted(Qualified(Top), info)
  PROVE  TypeInv'
<1>1. Len(frames) = 1 => Describes(info, Seen \cup {at})
  BY QualifiedTop, DescribesNext
<1>2. QED
  BY <1>1, NoteKeeps

LEMMA SugarKeeps == TypeInv /\ VisitSugar => TypeInv'
<1> SUFFICES ASSUME TypeInv, VisitSugar PROVE TypeInv'
  OBVIOUS
<1>1. Visiting /\ Layer.class \in Sugar /\ Note(Qualified(Top))
  BY DEF VisitSugar
<1>2. Noted(Qualified(Top), Qualified(Top))
  BY <1>1 DEF Noted, Sugar
<1>3. Layer.class \notin Nesting \cup Unvisited
  BY <1>1 DEF Sugar, Nesting, Unvisited
<1>4. QED
  BY <1>1, <1>2, <1>3, QualifiedTop, VisitKeeps

\* The visitor stops: there is no Visit function for the layer.
LEMMA OtherKeeps == TypeInv /\ VisitOther => TypeInv'
<1> SUFFICES ASSUME TypeInv, VisitOther PROVE TypeInv'
  OBVIOUS
<1> DEFINE info == Qualified(Top)
<1>1. /\ Visiting /\ Layer.class \in Unvisited \cup {"Other"}
      /\ frames' = Append(Below, info) /\ at' = Len(type) + 1
      /\ type' = type /\ created' = created
  BY DEF VisitOther
<1>2. /\ frames # <<>> /\ Len(type) \in Nat /\ DOMAIN type = 1..Len(type)
      /\ at \in 1..Len(type) /\ Layer = type[at]
      /\ Layer.class \in Leaves <=> at = Len(type)
  BY <1>1, LayerFacts
<1>3. IsInfo(info)
  BY <1>1, QualifiedTop
<1>4. at' \in 1..(Len(type) + 1) /\ ~(at' <= Len(type)) /\ at' \notin Outer
  <2>1. \A n \in Nat : n + 1 \in 1..(n + 1) /\ ~(n + 1 <= n) /\ n + 1 \notin 1..n
    OBVIOUS
  <2>2. Outer \subseteq 1..Len(type)
    BY <1>2 DEF Outer
  <2>3. QED
    BY <1>1, <1>2, <2>1, <2>2
<1>5. Seen' = Outer
  <2>1. \A i \in 1..Len(type) : i < Len(type) + 1
    <3>1. \A n \in Nat : \A i \in 1..n : i < n + 1
      OBVIOUS
    <3>2. QED
      BY <1>2, <3>1
  <2>2. Outer' = Outer
    BY <1>1 DEF Outer
  <2>3. Outer \subseteq 1..Len(type)
    BY <1>2 DEF Outer
  <2>4. QED
    BY <1>1, <2>1, <2>2, <2>3 DEF Seen
<1>6. ASSUME Len(frames) = 1 PROVE Describes(info, Outer)
  <2>1. at \in Outer
    BY <1>1, <1>2, <1>6 DEF TypeInv, Visiting
  <2>2. \A i \in Outer : i < at \/ i = at
    <3> SUFFICES ASSUME NEW i \in Outer, ~(i < at), i # at PROVE FALSE
      OBVIOUS
    <3>1. i \in 1..Len(type) /\ at \in 1..(i - 1) /\ at # Len(type)
      <4>1. i \in 1..Len(type)
        BY <1>2 DEF Outer
      <4>2. \A n \in Nat : \A a, b \in 1..n : ~(b < a) /\ b # a => a \in 1..(b - 1) /\ a # n
        OBVIOUS
      <4>3. QED
        BY <1>2, <4>1, <4>2
    <3>2. Layer.class \notin Unvisited
      BY <1>2, <3>1 DEF Outer
    <3>3. Layer.class # "Other"
      BY <1>2, <3>1 DEF Leaves
    <3>4. QED
      BY <1>1, <3>2, <3>3
  <2>3. Outer = Seen \cup {at}
    BY <2>1, <2>2 DEF Seen
  <2>4. Noted(info, info)
    BY <1>1 DEF Noted, Unvisited
  <2>5. Describes(info, Seen) /\ \A i \in Seen : type[i].class \notin Leaves \cup Nesting
    BY <1>1, <1>6, QualifiedTop
  <2> HIDE DEF info
  <2>6. Describes(info, Seen \cup {at})
    BY <2>4, <2>5, DescribesNext
  <2>7. QED
    BY <2>3, <2>6
<1>7. Len(frames) > 1 => Seen = Outer
  BY <1>2 DEF TypeInv
<1> HIDE DEF info
<1>8. QED
  BY <1>1, <1>3, <1>4, <1>5, <1>6, <1>7, TopKeeps

LEMMA PointerKeeps == TypeInv /\ VisitPointerType => TypeInv'
<1> SUFFICES ASSUME TypeInv, VisitPointerType PROVE TypeInv'
  OBVIOUS
<1> DEFINE old == Qualified(Top)
           new == [old EXCEPT !.pointers = @ + 1]
<1>1. Visiting /\ Layer.class = "Pointer" /\ Note(new)
  BY DEF VisitPointerType
<1>2. IsInfo(old) /\ DOMAIN old = Fields
  BY <1>1, QualifiedTop DEF IsInfo
<1>3. IsInfo(new)
  BY <1>2, InfoKept
<1>4. Noted(old, new)
  BY <1>1, <1>2 DEF Noted, Fields
<1>5. Layer.class \notin Nesting \cup Unvisited
  BY <1>1 DEF Nesting, Unvisited
<1>6. QED
  BY <1>1, <1>3, <1>4, <1>5, VisitKeeps

LEMMA ReferenceKeeps == TypeInv /\ VisitReferenceType => TypeInv'
<1> SUFFICES ASSUME TypeInv, VisitReferenceType PROVE TypeInv'
  OBVIOUS
<1> DEFINE old == Qualified(Top)
           new == [old EXCEPT !.reference = @ \/ SpelledAsLValue,
                              !.rvReference = @ \/ ~SpelledAsLValue]
<1>1. Visiting /\ Layer.class \in References /\ Note(new)
  BY DEF VisitReferenceType
<1>2. IsInfo(old) /\ DOMAIN old = Fields
  BY <1>1, QualifiedTop DEF IsInfo
<1>3. IsInfo(new)
  <2> DEFINE one == [old EXCEPT !.reference = @ \/ SpelledAsLValue]
  <2>1. IsInfo(one)
    BY <1>2, InfoKept
  <2>2. new = [one EXCEPT !.rvReference = @ \/ ~SpelledAsLValue]
    OBVIOUS
  <2>3. QED
    BY <2>1, <2>2, InfoKept
<1>4. ASSUME Len(frames) = 1 PROVE Noted(old, new)
  <2>1. old.reference \in BOOLEAN /\ old.rvReference \in BOOLEAN
    BY <1>1, <1>4, QualifiedTop DEF Describes, Met
  <2>2. /\ new.reference = (old.reference \/ SpelledAsLValue)
        /\ new.rvReference = (old.rvReference \/ ~SpelledAsLValue)
        /\ new.pointers = old.pointers /\ new.type = old.type
    BY <1>2 DEF Fields
  <2>3. QED
    BY <1>1, <2>1, <2>2 DEF Noted, SpelledAsLValue, References
<1>5. Layer.class \notin Nesting \cup Unvisited
  BY <1>1 DEF Nesting, Unvisited, References
<1>6. QED
  BY <1>1, <1>3, <1>4, <1>5, VisitKeeps

LEMMA BuiltinKeeps == TypeInv /\ VisitBuiltinType => TypeInv'
<1> SUFFICES ASSUME TypeInv, VisitBuiltinType PROVE TypeInv'
  OBVIOUS
<1> DEFINE old  == Qualified(Top)
           one  == [old EXCEPT !.type = "Builtin"]
           name == IF BuiltinClass(Layer.kind) = "Extended" THEN <<>> ELSE <<Layer.kind>>
           new  == WithNames(one, <<>>, <<>>, name)
<1>1. Visiting /\ Layer.class = "Builtin" /\ Note(new)
  BY DEF VisitBuiltinType
<1>2. IsInfo(old)
  BY <1>1, QualifiedTop
<1>3. IsInfo(one)
  BY <1>2, InfoKept
<1>4. IsInfo(new)
  <2>1. Layer.kind \in STRING
    BY <1>1, LayerFacts
  <2>2. name \in Name /\ <<>> \in Name
    <3>1. Layer.kind \in Word
      BY <2>1 DEF Word
    <3>2. QED
      BY <3>1 DEF Name
  <2> HIDE DEF one, name
  <2>3. QED
    BY <1>3, <2>2, InfoNamed
<1>5. Noted(old, new)
  <2>1. DOMAIN old = Fields /\ DOMAIN one = Fields
    BY <1>2, <1>3 DEF IsInfo
  <2>2. /\ new.reference = old.reference /\ new.rvReference = old.rvReference
        /\ new.pointers = old.pointers /\ new.type = "Builtin"
    BY <2>1 DEF Fields, WithNames
  <2>3. QED
    BY <1>1, <2>2 DEF Noted
<1>6. Layer.class \notin Nesting \cup Unvisited
  BY <1>1 DEF Nesting, Unvisited
<1>7. QED
  BY <1>1, <1>4, <1>5, <1>6, VisitKeeps

LEMMA NamedKeeps == TypeInv /\ VisitNamedType => TypeInv'
<1> SUFFICES ASSUME TypeInv, VisitNamedType PROVE TypeInv'
  OBVIOUS
<1> DEFINE old == Qualified(Top)
           one == [old EXCEPT !.type = Layer.class]
           new == NamedByDecl(one)
<1>1. Visiting /\ Layer.class \in Named /\ Note(new)
  BY DEF VisitNamedType
<1>2. IsInfo(old)
  BY <1>1, QualifiedTop
<1>3. IsInfo(one)
  BY <1>2, InfoKept
<1>4. IsInfo(new)
  BY <1>1, <1>3, LayerFacts, InfoNamed DEF NamedByDecl
<1>5. Noted(old, new)
  <2>1. DOMAIN old = Fields /\ DOMAIN one = Fields
    BY <1>2, <1>3 DEF IsInfo
  <2>2. /\ new.reference = old.reference /\ new.rvReference = old.rvReference
        /\ new.pointers = old.pointers /\ new.type = Layer.class
    BY <2>1 DEF Fields, WithNames, NamedByDecl
  <2>3. QED
    BY <1>1, <2>2 DEF Noted, Named
<1>6. Layer.class \notin Nesting \cup Unvisited
  BY <1>1 DEF Nesting, Unvisited, Named
<1>7. QED
  BY <1>1, <1>4, <1>5, <1>6, VisitKeeps

LEMMA UnnamedKeeps == TypeInv /\ VisitUnnamedType => TypeInv'
<1> SUFFICES ASSUME TypeInv, VisitUnnamedType PROVE TypeInv'
  OBVIOUS
<1> DEFINE old == Qualified(Top)
           new == [old EXCEPT !.type = Layer.class]
<1>1. Visiting /\ Layer.class \in {"Decltype", "TemplateTypeParm"} /\ Note(new)
  BY DEF VisitUnnamedType
<1>2. IsInfo(old) /\ DOMAIN old = Fields
  BY <1>1, QualifiedTop DEF IsInfo
<1>3. IsInfo(new)
  BY <1>2, InfoKept
<1>4. Noted(old, new)
  BY <1>1, <1>2 DEF Noted, Fields
<1>5. Layer.class \notin Nesting \cup Unvisited
  BY <1>1 DEF Nesting, Unvisited
<1>6. QED
  BY <1>1, <1>3, <1>4, <1>5, VisitKeeps

\* Nothing is visited.
LEMMA StandsStill == TypeInv /\ UNCHANGED <<type, at, frames, created>> => TypeInv'
<1> SUFFICES ASSUME TypeInv, UNCHANGED <<type, at, frames, created>> PROVE TypeInv'
  OBVIOUS
<1>1. type' = type /\ at' = at /\ frames' = frames /\ created' = created
  OBVIOUS
<1>2. Outer' = Outer /\ (Done' <=> Done)
  BY <1>1 DEF Outer, Done
<1>3. Seen' = Seen
  BY <1>1, <1>2 DEF Seen
<1>4. /\ Describes(created, Outer)' <=> Describes(created, Outer)
      /\ Describes(frames[1], Seen)' <=> Describes(frames[1], Seen)
  BY <1>1, <1>2, <1>3 DEF Describes, Met
<1>5. QED
  BY <1>1, <1>2, <1>3, <1>4 DEF TypeInv

LEMMA SpecializationKeeps == TypeInv /\ VisitTemplateSpecializationType => TypeInv'
<1> SUFFICES ASSUME TypeInv, VisitTemplateSpecializationType PROVE TypeInv'
  OBVIOUS
<1> DEFINE old   == Qualified(Top)
           named == NamedByDecl(old)
           known == WellKnown(named)
           one   == [named EXCEPT !.wellKnown = known]
           kind  == IF known = "none" THEN "Template" ELSE "WellKnownType"
           new   == [one EXCEPT !.type = kind]
<1>1. /\ Visiting /\ Layer.class = "TemplateSpecialization"
      /\ \/ UNCHANGED <<type, at, frames, created>>
         \/ Note([named EXCEPT !.wellKnown = known, !.type = kind])
  BY DEF VisitTemplateSpecializationType, Note
<1>2. IsInfo(old) /\ DOMAIN old = Fields
  BY <1>1, QualifiedTop DEF IsInfo
<1>3. IsInfo(named) /\ DOMAIN named = Fields
  <2>1. IsInfo(named)
    BY <1>1, <1>2, LayerFacts, InfoNamed DEF NamedByDecl
  <2>2. QED
    BY <2>1 DEF IsInfo
<1>4. IsInfo(new)
  <2>1. IsInfo(one)
    BY <1>3, InfoKept
  <2>2. QED
    BY <2>1, InfoKept
<1>5. Noted(old, new)
  <2>1. /\ named.reference = old.reference /\ named.rvReference = old.rvReference
        /\ named.pointers = old.pointers
        /\ named.fullName = Scoped(Layer.namespace, Scoped(Layer.scope, Layer.name))
    BY <1>2 DEF NamedByDecl, WithNames, Fields
  <2>2. known = Known(Layer)
    BY <2>1 DEF WellKnown, Known
  <2> HIDE DEF named, known
  <2>3. /\ new.reference = named.reference /\ new.rvReference = named.rvReference
        /\ new.pointers = named.pointers /\ new.wellKnown = known
        /\ new.type \in {"Template", "WellKnownType"}
    BY <1>3 DEF Fields
  <2>4. QED
    BY <1>1, <2>1, <2>2, <2>3 DEF Noted
<1>6. Layer.class \notin Nesting \cup Unvisited
  BY <1>1 DEF Nesting, Unvisited
<1>7. CASE UNCHANGED <<type, at, frames, created>>
  BY <1>7, StandsStill
<1>8. CASE Note([named EXCEPT !.wellKnown = known, !.type = kind])
  <2>1. Note(new)
    BY <1>8
  <2>2. QED
    BY <1>1, <1>4, <1>5, <1>6, <2>1, VisitKeeps
<1>9. QED
  BY <1>1, <1>7, <1>8

\* Create is called below an array or an alias.
LEMMA NestingKeeps == TypeInv /\ VisitNesting => TypeInv'
<1> SUFFICES ASSUME TypeInv, VisitNesting PROVE TypeInv'
  OBVIOUS
<1> DEFINE old   == Qualified(Top)
           array == [old EXCEPT !.type = "Array"]
           alias == NamedByDecl([old EXCEPT !.type = "Template"])
           outer == IF Layer.class = "ConstantArray" THEN array ELSE alias
           n     == Len(frames)
<1>1. /\ Visiting /\ Layer.class \in Nesting
      /\ frames' = Append(Append(Below, outer), Fresh) /\ at' = at + 1
      /\ type' = type /\ created' = created
  BY DEF VisitNesting
<1>2. /\ ~Done /\ frames # <<>> /\ IsType(type)
      /\ Len(type) \in Nat /\ at \in 1..Len(type)
  BY <1>1, LayerFacts
<1>3. IsInfo(outer)
  <2>1. IsInfo(old)
    BY <1>1, QualifiedTop
  <2>2. IsInfo(array) /\ IsInfo([old EXCEPT !.type = "Template"])
    BY <2>1, InfoKept
  <2>3. IsInfo(alias)
    BY <1>1, <2>2, LayerFacts, InfoNamed DEF NamedByDecl
  <2> HIDE DEF array, alias
  <2>4. QED
    BY <2>2, <2>3
<1>4. Noted(old, outer)
  <2>1. DOMAIN old = Fields
    BY <1>1, QualifiedTop DEF IsInfo
  <2>2. /\ outer.reference = old.reference /\ outer.rvReference = old.rvReference
        /\ outer.pointers = old.pointers
        /\ outer.type = IF Layer.class = "ConstantArray" THEN "Array" ELSE "Template"
    BY <2>1 DEF Fields, WithNames, NamedByDecl
  <2> HIDE DEF outer
  <2>3. QED
    BY <1>1, <2>2 DEF Noted, Nesting
<1>5. n \in Nat /\ n >= 1 /\ \A i \in 1..n : IsInfo(frames[i])
  BY <1>2, Stack DEF TypeInv
<1> HIDE DEF outer
<1>6. /\ frames' \in Seq(Elements(frames'))
      /\ Len(frames') = n + 1 /\ DOMAIN frames' = 1..(n + 1) /\ frames' # <<>>
      /\ frames'[n + 1] = Fresh /\ frames'[n] = outer
      /\ \A i \in 1..(n - 1) : frames'[i] = frames[i]
  <2>1. IsPushed(frames, frames', outer, Fresh)
    BY <1>1, <1>2, Pushed
  <2>2. QED
    BY <2>1 DEF IsPushed
<1>7. \A i \in DOMAIN frames' : IsInfo(frames'[i])
  <2>1. \A m \in Nat : \A i \in 1..(m + 1) : i = m + 1 \/ i = m \/ (i \in 1..(m - 1) /\ i \in 1..m)
    OBVIOUS
  <2>2. \A i \in 1..(n + 1) : i = n + 1 \/ i = n \/ (i \in 1..(n - 1) /\ i \in 1..n)
    BY <1>5, <2>1
  <2> HIDE DEF n
  <2>3. QED
    BY <1>3, <1>5, <1>6, <2>2, FreshIsInfo
<1>8. Describes(frames'[1], Seen') /\ Outer' = Seen' /\ at' \notin Outer'
  <2>1. CASE n = 1
    <3>1. Describes(old, Seen) /\ \A i \in Seen : type[i].class \notin Leaves \cup Nesting
      BY <1>1, <2>1, QualifiedTop
    <3>2. Describes(outer, Seen \cup {at})
      BY <1>4, <3>1, DescribesNext
    <3>3. at \in Outer
      BY <1>2, <2>1 DEF TypeInv
    <3>4. Seen' = Seen \cup {at} /\ Outer' = Outer /\ Outer' = Seen' /\ at + 1 \notin Outer
      BY <1>1, <3>3, SeenNext
    <3>5. frames'[1] = outer
      BY <1>6, <2>1
    <3>6. QED
      BY <1>1, <3>2, <3>4, <3>5
  <2>2. CASE n > 1
    <3>1. at \notin Outer /\ Outer = Seen /\ Describes(frames[1], Seen)
      BY <1>2, <2>2 DEF TypeInv
    <3>2. Outer' = Outer /\ Seen' = Seen /\ at + 1 \notin Outer
      BY <1>1, <3>1, SeenNext
    <3>3. 1 \in 1..n /\ 1 \in 1..(n - 1)
      BY <1>5, <2>2
    <3>4. frames'[1] = frames[1]
      BY <1>6, <3>3
    <3>5. QED
      BY <1>1, <3>1, <3>2, <3>4
  <2>3. QED
    BY <1>5, <2>1, <2>2
<1>9. Describes(frames[1], Seen)'
  BY <1>1, <1>8 DEF Describes, Met
<1>10. ~Done' /\ IsType(type') /\ at' \in 1..(Len(type') + 1) /\ Len(frames') # 1
  BY <1>1, <1>2, <1>5, <1>6 DEF Done
<1>11. QED
  BY <1>6, <1>7, <1>8, <1>9, <1>10 DEF TypeInv

\* When all layers are visited, all outer ones are seen.
LEMMA AllSeen ==
  ASSUME TypeInv, Unwrapped
  PROVE  Seen = Outer /\ at \notin Outer
<1>1. IsType(type) /\ at \in 1..(Len(type) + 1) /\ at > Len(type)
  BY DEF TypeInv, Unwrapped
<1>2. Len(type) \in Nat /\ DOMAIN type = 1..Len(type)
  BY <1>1 DEF IsType
<1>3. \A i \in DOMAIN type : i < at
  BY <1>1, <1>2
<1>4. at \notin DOMAIN type
  BY <1>1, <1>2
<1>5. QED
  BY <1>3, <1>4 DEF Seen, Outer

\* What the call below has made is put into the TypeInfo.
LEMMA VisitorKeeps == TypeInv /\ ReturnToVisitor => TypeInv'
<1> SUFFICES ASSUME TypeInv, ReturnToVisitor PROVE TypeInv'
  OBVIOUS
<1> DEFINE n    == Len(Below)
           item == Item(Below[n], Top)
           info == [Below[n] EXCEPT !.inner = item]
<1>1. /\ Unwrapped /\ Len(frames) > 1 /\ frames # <<>>
      /\ frames' = [Below EXCEPT ![n] = info]
      /\ type' = type /\ at' = at /\ created' = created
  BY DEF ReturnToVisitor, Unwrapped
<1>2. /\ Len(frames) \in Nat /\ n = Len(frames) - 1 /\ n \in Nat /\ n >= 1
      /\ \A i \in 1..n : Below[i] = frames[i] /\ IsInfo(frames[i])
  BY <1>1, Stack DEF TypeInv
<1>3. n \in 1..n
  BY <1>2
<1>4. IsInfo(info)
  BY <1>2, <1>3, InfoKept
<1> DEFINE new == [Below EXCEPT ![n] = info]
<1>5. /\ new \in Seq(Elements(new)) /\ new # <<>> /\ DOMAIN new = 1..n
      /\ \A i \in 1..n : new[i] = IF i = n THEN info ELSE frames[i]
  <2>1. n = Len(frames) - 1 /\ info = [frames[n] EXCEPT !.inner = item]
    BY <1>2, <1>3
  <2>2. IsPopped(frames, new, Below, item)
    BY <1>1, Popped
  <2> HIDE DEF n, info, item, new
  <2>3. /\ new \in Seq(Elements(new)) /\ DOMAIN new = 1..n /\ new # <<>>
        /\ new[n] = info /\ \A i \in 1..(n - 1) : new[i] = frames[i]
    BY <2>1, <2>2 DEF IsPopped
  <2>4. \A i \in 1..n : i = n \/ (i # n /\ i \in 1..(n - 1))
    BY <1>2
  <2>5. QED
    BY <2>3, <2>4
<1> HIDE DEF new, n, info
<1>6. \A i \in DOMAIN new : IsInfo(new[i])
  BY <1>2, <1>4, <1>5
<1>7. Describes(new[1], Seen)
  <2>1. Describes(frames[1], Seen)
    BY <1>1 DEF TypeInv
  <2>2. CASE n = 1
    <3>1. new[1] = info /\ info = [frames[1] EXCEPT !.inner = item]
      BY <1>2, <1>3, <1>5, <2>2 DEF info
    <3>2. DOMAIN frames[1] = Fields
      BY <1>2, <1>3, <2>2 DEF IsInfo
    <3>3. \A f \in {"reference", "rvReference", "pointers", "type", "wellKnown"} :
            new[1][f] = frames[1][f]
      BY <3>1, <3>2 DEF Fields
    <3>4. QED
      BY <2>1, <3>3 DEF Describes
  <2>3. CASE n # 1
    BY <1>2, <1>5, <2>1, <2>3
  <2>4. QED
    BY <2>2, <2>3
<1>8. Seen = Outer /\ at \notin Outer /\ at > Len(type) /\ IsType(type) /\ ~Done
       /\ at \in 1..(Len(type) + 1)
  BY <1>1, AllSeen DEF TypeInv, Unwrapped
<1>9. frames' = new
  BY <1>1 DEF new
<1>10. Outer' = Outer /\ Seen' = Seen
  BY <1>1 DEF Outer, Seen
<1>11. Describes(frames[1], Seen)'
  BY <1>1, <1>7, <1>9, <1>10 DEF Describes, Met
<1>12. at' \notin Outer' /\ Outer' = Seen' /\ ~Done' /\ ~(at' <= Len(type'))
  <2>1. Len(type) \in Nat
    BY <1>8 DEF IsType
  <2>2. ~(at <= Len(type))
    BY <1>8, <2>1
  <2>3. QED
    BY <1>1, <1>8, <1>10, <2>2 DEF Done
<1>13. /\ IsType(type') /\ at' \in 1..(Len(type') + 1)
       /\ frames' \in Seq(Elements(frames'))
       /\ \A i \in DOMAIN frames' : IsInfo(frames'[i])
  BY <1>1, <1>5, <1>6, <1>8, <1>9
<1>14. QED
  BY <1>11, <1>12, <1>13 DEF TypeInv

\* Create returns.
LEMMA CallerKeeps == TypeInv /\ ReturnToCaller => TypeInv'
<1> SUFFICES ASSUME TypeInv, ReturnToCaller PROVE TypeInv'
  OBVIOUS
<1>1. /\ Unwrapped /\ Len(frames) = 1 /\ frames # <<>>
      /\ created' = frames[1] /\ frames' = <<>> /\ type' = type
  BY DEF ReturnToCaller, Unwrapped, Top
<1>2. IsInfo(frames[1]) /\ Describes(frames[1], Outer) /\ IsType(type)
  BY <1>1, Stack, AllSeen DEF TypeInv
<1>3. Outer' = Outer
  BY <1>1 DEF Outer
<1>4. Describes(created, Outer)'
  BY <1>1, <1>2, <1>3 DEF Describes, Met
<1>5. QED
  BY <1>1, <1>2, <1>4 DEF TypeInv

\* Create is called.
LEMMA CallKeeps ==
  ASSUME NEW t, IsType(t), CreateForType(t)
  PROVE  TypeInv'
<1>1. type' = t /\ at' = 1 /\ frames' = <<Fresh>> /\ created' = NoInfo
  BY DEF CreateForType
<1>2. /\ frames' \in Seq(Elements(frames'))
      /\ Len(frames') = 1 /\ frames'[1] = Fresh
      /\ \A i \in DOMAIN frames' : IsInfo(frames'[i])
  BY <1>1, FreshIsInfo DEF Elements
<1>3. Len(t) \in Nat /\ DOMAIN t = 1..Len(t)
  BY DEF IsType
<1>4. Seen' = {}
  BY <1>1, <1>3 DEF Seen, Outer
<1>5. at' <= Len(type') => at' \in Outer'
  BY <1>1, <1>3 DEF Outer
<1>6. Describes(frames[1], Seen)'
  BY <1>2, <1>4 DEF Describes, Met, Fresh
<1>7. QED
  BY <1>1, <1>2, <1>3, <1>5, <1>6 DEF TypeInv, Done

\* Every step of Create.
LEMMA CreateKeeps == TypeInv /\ Create => TypeInv'
BY SugarKeeps, ReferenceKeeps, PointerKeeps, BuiltinKeeps, NamedKeeps, UnnamedKeeps,
   OtherKeeps, SpecializationKeeps, NestingKeeps, VisitorKeeps, CallerKeeps DEF Create

-------------------------------------------------------------------------------
(* The methods.                                                            *)

\* The MethodInfo that is made of a method.
Made(d, params) ==
  IF d.maker = "ReflectMethod" THEN ReflectMethod(d, params) ELSE ImplicitMember(d, params)

\* A MethodInfo is of the method that is looked at, and of the type that Create has
\* returned; the names are of the MethodInfo.
MethodInv ==
  /\ TypeInv
  /\ declared \in Decls \cup {NoMethod}
  /\ declared = NoMethod => methodInfo = NoMethod
  /\ methodInfo # NoMethod =>
       \/ methodInfo = Made(declared, <<>>)
       \/ methodInfo = Made(declared, <<created>>) /\ Done
  /\ "names" \in DOMAIN printed
  /\ printed.names # NoMethod =>
       /\ methodInfo # NoMethod
       /\ printed.names = ForwardedNames(methodInfo.params)

LEMMA LookKeeps ==
  ASSUME MethodInv, NEW d \in Decls, declared = NoMethod, Look(d)
  PROVE  MethodInv'
<1>1. /\ declared' = d /\ methodInfo' = methodInfo /\ printed' = printed
      /\ \/ UNCHANGED typeVars
         \/ d.params # <<>> /\ CreateForType(d.params[1])
  BY DEF Look
<1>2. methodInfo = NoMethod /\ printed.names = NoMethod
  BY DEF MethodInv
<1>3. TypeInv'
  <2>1. CASE UNCHANGED typeVars
    BY <2>1, StandsStill DEF MethodInv, typeVars
  <2>2. CASE d.params # <<>> /\ CreateForType(d.params[1])
    BY <2>2, DeclsAssumption, CallKeeps
  <2>3. QED
    BY <1>1, <2>1, <2>2
<1>4. QED
  BY <1>1, <1>2, <1>3 DEF MethodInv

LEMMA CreateStepKeeps == MethodInv /\ CreateStep => MethodInv'
<1> SUFFICES ASSUME MethodInv, CreateStep PROVE MethodInv'
  OBVIOUS
<1>1. /\ Create /\ asserts' = asserts /\ declared' = declared
      /\ methodInfo' = methodInfo /\ printed' = printed
  BY DEF CreateStep
<1>2. TypeInv'
  BY <1>1, CreateKeeps DEF MethodInv
<1>3. ~Done
  <2>1. frames # <<>>
    BY <1>1 DEF Create, VisitSugar, VisitReferenceType, VisitPointerType, VisitBuiltinType,
                VisitNamedType, VisitUnnamedType, VisitOther, VisitTemplateSpecializationType,
                VisitNesting, ReturnToVisitor, ReturnToCaller, Visiting, Unwrapped
  <2>2. QED
    BY <2>1 DEF MethodInv, TypeInv
<1>4. QED
  BY <1>1, <1>2, <1>3 DEF MethodInv

LEMMA MakeKeeps == MethodInv /\ MakeMethodInfo => MethodInv'
<1> SUFFICES ASSUME MethodInv, MakeMethodInfo PROVE MethodInv'
  OBVIOUS
<1>1. /\ declared # NoMethod /\ methodInfo = NoMethod
      /\ UNCHANGED <<typeVars, asserts, declared, printed>>
      /\ \/ methodInfo' = Made(declared, <<>>)
         \/ methodInfo' = Made(declared, <<created>>) /\ Done
  BY DEF MakeMethodInfo, Made
<1>2. TypeInv'
  BY <1>1, StandsStill DEF MethodInv, typeVars
<1>3. created' = created /\ declared' = declared /\ printed' = printed
  BY <1>1 DEF typeVars
<1>4. printed.names = NoMethod
  BY <1>1 DEF MethodInv
<1>5. QED
  BY <1>1, <1>2, <1>3, <1>4 DEF MethodInv, Done

LEMMA PrintKeeps ==
  ASSUME MethodInv, NEW what \in {"forwarding", "trailing", "decl", "names"}, NEW text,
         NEW options, NEW failing, PrintOnce(what, text, options, failing),
         what = "names" => text = ForwardedNames(methodInfo.params)
  PROVE  MethodInv'
<1>1. /\ methodInfo # NoMethod
      /\ \/ printed' = printed
         \/ printed' = [printed EXCEPT ![what] = text, !.options = @ \cup options]
      /\ UNCHANGED <<type, at, frames, created, asserts, declared, methodInfo>>
  BY DEF PrintOnce
<1>2. TypeInv'
  BY <1>1, StandsStill DEF MethodInv
<1>3. "names" \in DOMAIN printed'
  BY <1>1 DEF MethodInv
<1>4. printed'.names \in {printed.names, ForwardedNames(methodInfo.params)}
  <2>1. CASE printed' = printed
    BY <2>1
  <2>2. CASE printed' = [printed EXCEPT ![what] = text, !.options = @ \cup options]
    BY <2>2 DEF MethodInv
  <2>3. QED
    BY <1>1, <2>1, <2>2
<1>5. QED
  BY <1>1, <1>2, <1>3, <1>4 DEF MethodInv, Done

LEMMA PrinterKeeps == MethodInv /\ PrinterStep => MethodInv'
<1> SUFFICES ASSUME MethodInv, PrinterStep PROVE MethodInv'
  OBVIOUS
<1>1. CASE CreateStep
  BY <1>1, CreateStepKeeps
<1>2. CASE MakeMethodInfo
  BY <1>2, MakeKeeps
<1>3. CASE \E options \in {ForwardingAll, ForwardingAll \ {"return type"}} :
             PrintMethodForwarding(options)
  BY <1>3, PrintKeeps DEF PrintMethodForwarding
<1>4. CASE \E options \in {TrailingAll, TrailingAll \ {"body"}} : PrintMethodTrailing(options)
  BY <1>4, PrintKeeps DEF PrintMethodTrailing
<1>5. CASE PrintMethodDecl
  BY <1>5, PrintKeeps DEF PrintMethodDecl
<1>6. CASE ForwardMethodParamNames
  BY <1>6, PrintKeeps DEF ForwardMethodParamNames
<1>7. QED
  BY <1>1, <1>2, <1>3, <1>4, <1>5, <1>6 DEF PrinterStep

\* The invariant of the types and the methods.
THEOREM MethodInvariance == ClassSpec => []MethodInv
<1>1. ClassInit => MethodInv
  BY DEF ClassInit, PrinterInit, TypeInit, MethodInv, TypeInv, Done
<1>2. MethodInv /\ [ClassNext]_allVars => MethodInv'
  <2> SUFFICES ASSUME MethodInv, [ClassNext]_allVars PROVE MethodInv'
    OBVIOUS
  <2>1. CASE UNCHANGED printerVars
    <3>1. UNCHANGED <<type, at, frames, created>>
      BY <2>1 DEF printerVars, typeVars
    <3>2. declared' = declared /\ methodInfo' = methodInfo /\ printed' = printed
      BY <2>1 DEF printerVars
    <3>3. QED
      BY <3>1, <3>2, StandsStill DEF MethodInv, Done
  <2>2. CASE forEachDeclaredMethod
    BY <2>2, LookKeeps DEF forEachDeclaredMethod
  <2>3. CASE PrinterStep
    BY <2>3, PrinterKeeps
  <2>4. QED
    BY <2>1, <2>2, <2>3 DEF ClassNext, ListStep, Finished, allVars
<1>3. QED
  BY <1>1, <1>2, PTL DEF ClassSpec

\* What a method is called, if it is declared or implicit, next to its class.
THEOREM QualifiedNames == ClassSpec => []NamedAlike
<1>1. MethodInv => NamedAlike
  <2> SUFFICES ASSUME MethodInv, methodInfo # NoMethod PROVE NamedAlike
    BY DEF NamedAlike
  <2> DEFINE c         == declared.class
             namespace == c.namespace
             scope     == c.scope
             name      == declared.name
             own       == FullQualifiedName(methodInfo.called)
             reflected == FullQualifiedName(ReflectMethod(declared, methodInfo.params).called)
             colons    == IF namespace = <<>> /\ scope = <<>> THEN <<"::">> ELSE <<>>
  <2>1. declared \in Decls
    BY DEF MethodInv
  <2>2. {namespace, scope, c.name, name} \subseteq Name
    BY <2>1, DeclsAssumption, Names
  <2>3. methodInfo = Made(declared, <<>>) \/ methodInfo = Made(declared, <<created>>)
    BY DEF MethodInv
  <2>4. \A params : ReflectMethod(declared, params).called =
                      [namespace |-> namespace, scope |-> ScopeIn(c), name |-> name]
    BY DEF ReflectMethod
  <2>5. reflected = IF name = <<>> THEN <<>>
                    ELSE Scoped(FullScope(namespace, ScopeIn(c)), name)
    BY <2>4 DEF FullQualifiedName
  <2>6. c.name # <<>> =>
          /\ ScopeIn(c) = Scoped(scope, c.name)
          /\ FullQualifiedName(c) = Scoped(FullScope(namespace, scope), c.name)
    BY DEF ScopeIn, FullQualifiedName
  <2>7. c.name = <<>> => ScopeIn(c) = scope /\ FullQualifiedName(c) = <<>>
    BY DEF ScopeIn, FullQualifiedName
  <2>8. CASE declared.maker = "ReflectMethod"
    <3>1. methodInfo.called = [namespace |-> namespace, scope |-> ScopeIn(c), name |-> name]
      BY <2>3, <2>4, <2>8 DEF Made
    <3>2. own = reflected
      BY <2>5, <3>1 DEF FullQualifiedName
    <3>3. ASSUME c.name # <<>>, name # <<>>
          PROVE  own = colons \o FullQualifiedName(c) \o <<"::">> \o name
      <4>1. own = Scoped(FullScope(namespace, Scoped(scope, c.name)), name)
        BY <2>5, <2>6, <3>2, <3>3
      <4>2. own = colons \o Scoped(FullScope(namespace, scope), c.name) \o <<"::">> \o name
        <5>1. namespace \in Name /\ scope \in Name /\ c.name \in Name /\ name \in Name
          BY <2>2
        <5>2. CalledByClass(namespace, scope, c.name, name)
          BY <3>3, <5>1, NameOfMember
        <5>3. QED
          BY <4>1, <5>2 DEF CalledByClass
      <4>3. QED
        BY <2>6, <3>3, <4>2
    <3>4. QED
      BY <2>8, <3>3 DEF NamedAlike
  <2>9. CASE declared.maker # "ReflectMethod"
    <3>1. methodInfo.called = [namespace |-> namespace, scope |-> FullQualifiedName(c), name |-> name]
      BY <2>3, <2>9 DEF Made, ImplicitMember
    <3>2. own = IF name = <<>> THEN <<>>
                ELSE Scoped(FullScope(namespace, FullQualifiedName(c)), name)
      BY <3>1 DEF FullQualifiedName
    <3>3. ASSUME name # <<>>, c.name # <<>>
          PROVE  own = reflected <=> namespace = <<>> /\ scope = <<>>
      <4>1. /\ own = Scoped(FullScope(namespace, Scoped(FullScope(namespace, scope), c.name)), name)
            /\ reflected = Scoped(FullScope(namespace, Scoped(scope, c.name)), name)
        BY <2>5, <2>6, <3>2, <3>3
      <4>2. QED
        BY <2>2, <4>1, ImplicitScope
    <3>4. ASSUME name # <<>>, c.name = <<>>
          PROVE  own = reflected <=> scope = <<>>
      <4>1. own = Scoped(FullScope(namespace, <<>>), name)
            /\ reflected = Scoped(FullScope(namespace, scope), name)
        BY <2>5, <2>7, <3>2, <3>4
      <4>2. ASSUME scope # <<>> PROVE own # reflected
        <5>1. <<>> \in Name /\ Len(<<>>) = 0 /\ Len(scope) \in Nat /\ Len(scope) # 0
          BY <2>2, <4>2, EmptySeq DEF Name
        <5>2. Len(scope) > Len(<<>>)
          BY <5>1
        <5>3. QED
          BY <2>2, <4>1, <5>1, <5>2, LongerScope
      <4>3. QED
        BY <4>1, <4>2
    <3>5. name = <<>> => own = reflected
      BY <2>5, <3>2
    <3> HIDE DEF own, reflected, namespace, scope, name
    <3>6. own = reflected <=> \/ name = <<>>
                              \/ IF c.name = <<>> THEN scope = <<>>
                                 ELSE namespace = <<>> /\ scope = <<>>
      BY <3>3, <3>4, <3>5
    <3>7. QED
      BY <2>9, <3>6 DEF NamedAlike, own, reflected, namespace, scope, name
  <2>10. QED
    BY <2>8, <2>9
<1>2. QED
  BY <1>1, MethodInvariance, PTL

-------------------------------------------------------------------------------
(* What a TypeInfo says.                                                   *)

\* Whatever is in front of a name, the last place where it occurs is the end.
LEMMA LastOccurrence ==
  ASSUME NEW full \in Name, NEW name \in Name, NEW begin \in Nat,
         begin = Len(full) - Len(name) + 1, begin >= 1,
         SubSeq(full, begin, begin + Len(name) - 1) = name
  PROVE  GetScope(full, name) = IF begin = 1 THEN <<>> ELSE SubSeq(full, 1, begin - 2)
<1> DEFINE places == {i \in 1..(Len(full) - Len(name) + 1) :
                        SubSeq(full, i, i + Len(name) - 1) = name}
<1>1. begin \in places /\ places \subseteq 1..begin
  BY DEF Name
<1> HIDE DEF places
<1>2. Occurrence(places) = begin
  <2>1. \A j \in places : j <= begin /\ j \in Nat
    BY <1>1
  <2>2. Occurrence(places) \in places /\ \A j \in places : j <= Occurrence(places)
    BY <1>1, <2>1 DEF Occurrence
  <2>3. Occurrence(places) <= begin /\ begin <= Occurrence(places)
        /\ Occurrence(places) \in Nat
    BY <1>1, <2>1, <2>2
  <2>4. QED
    BY <2>3
<1>3. QED
  BY <1>2 DEF GetScope, places

\* The scope of a name is found again, whatever the names are.
LEMMA ScopeFound ==
  ASSUME NEW scope \in Name, NEW name \in Name
  PROVE  GetScope(Scoped(scope, name), name) = scope
<1>0. Len(name) \in Nat /\ Len(scope) \in Nat
  BY DEF Name
<1>1. CASE scope = <<>>
  <2>1. Scoped(scope, name) = name
    BY <1>1 DEF Scoped
  <2>2. SubSeq(name, 1, 1 + Len(name) - 1) = name
    <3>1. SubSeq(name, 1, Len(name)) = name
      BY SubSeqFull DEF Name
    <3>2. 1 + Len(name) - 1 = Len(name)
      BY <1>0
    <3>3. QED
      BY <3>1, <3>2
  <2>3. 1 = Len(name) - Len(name) + 1
    BY <1>0
  <2>4. GetScope(name, name) = <<>>
    <3>1. \A b \in Nat : b = Len(name) - Len(name) + 1 /\ b >= 1
                         /\ SubSeq(name, b, b + Len(name) - 1) = name =>
                         GetScope(name, name) = IF b = 1 THEN <<>> ELSE SubSeq(name, 1, b - 2)
      BY LastOccurrence
    <3>2. QED
      BY <2>2, <2>3, <3>1
  <2>5. QED
    BY <1>1, <2>1, <2>4
<1>2. CASE scope # <<>>
  <2> DEFINE full  == scope \o <<"::">> \o name
             begin == Len(scope) + 2
  <2>1. Scoped(scope, name) = full
    BY <1>2 DEF Scoped
  <2>2. /\ full \in Name
        /\ Len(full) = Len(scope) + 1 + Len(name)
        /\ \A i \in 1..Len(scope) : full[i] = scope[i]
        /\ \A i \in 1..Len(name) : full[Len(scope) + 1 + i] = name[i]
    <3>1. "::" \in Word /\ scope \in Seq(Word) /\ name \in Seq(Word)
      BY DEF Word, Name
    <3>2. QED
      BY <3>1, Joined DEF Name
  <2> HIDE DEF full
  <2>3. SubSeq(full, begin, begin + Len(name) - 1) = name
    <3> DEFINE part == SubSeq(full, begin, begin + Len(name) - 1)
    <3>1. \A i \in begin..(begin + Len(name) - 1) : full[i] \in Word
      BY <1>0, <2>2 DEF Name
    <3>2. begin \in Int /\ begin + Len(name) - 1 \in Int
      BY <1>0
    <3>3. /\ part \in Seq(Word)
          /\ Len(part) = IF begin <= begin + Len(name) - 1
                         THEN begin + Len(name) - 1 - begin + 1 ELSE 0
          /\ \A i \in 1..(begin + Len(name) - 1 - begin + 1) : part[i] = full[begin + i - 1]
      BY <3>1, <3>2, SubSeqProperties
    <3> HIDE DEF part
    <3>4. Len(part) = Len(name)
      BY <1>0, <3>3
    <3>5. \A i \in 1..Len(name) : part[i] = name[i]
      BY <1>0, <2>2, <3>3
    <3>6. part = name
      BY <3>3, <3>4, <3>5, SeqEqual DEF Name
    <3>7. QED
      BY <3>6 DEF part
  <2>4. SubSeq(full, 1, begin - 2) = scope
    <3> DEFINE part == SubSeq(full, 1, Len(scope))
    <3>1. \A i \in 1..Len(scope) : full[i] \in Word
      BY <1>0, <2>2 DEF Name
    <3>2. /\ part \in Seq(Word)
          /\ Len(part) = IF 1 <= Len(scope) THEN Len(scope) - 1 + 1 ELSE 0
          /\ \A i \in 1..(Len(scope) - 1 + 1) : part[i] = full[1 + i - 1]
      BY <1>0, <3>1, SubSeqProperties
    <3> HIDE DEF part
    <3>3. Len(part) = Len(scope) /\ \A i \in 1..Len(scope) : part[i] = scope[i]
      BY <1>0, <2>2, <3>2
    <3>4. part = scope
      BY <3>2, <3>3, SeqEqual DEF Name
    <3>5. begin - 2 = Len(scope)
      BY <1>0
    <3>6. QED
      BY <3>4, <3>5 DEF part
  <2>5. begin \in Nat /\ begin = Len(full) - Len(name) + 1 /\ begin >= 1 /\ begin # 1
    BY <1>0, <2>2
  <2> HIDE DEF begin
  <2>6. GetScope(full, name) = scope
    BY <2>2, <2>3, <2>4, <2>5, LastOccurrence
  <2>7. QED
    BY <2>1, <2>6
<1>3. QED
  BY <1>1, <1>2

\* A TypeInfo taken apart and put together again.
THEOREM Described == ClassSpec => []DescribedAgain
<1>1. ASSUME NEW info, IsInfo(info)
      PROVE  CreateForDescr(GetTypeDescr(info)) = info
  <2>1. PICK namespace \in Name, scope \in Name, name \in Name :
          info = WithNames(info, namespace, scope, name)
    BY <1>1 DEF IsInfo
  <2>2. /\ info.declaredName = name
        /\ info.scopedName = Scoped(scope, name)
        /\ info.fullName = Scoped(namespace, Scoped(scope, name))
    <3>1. DOMAIN info = Fields
      BY <1>1 DEF IsInfo
    <3>2. QED
      BY <2>1, <3>1 DEF WithNames, Fields
  <2>3. Scoped(scope, name) \in Name
    BY ScopedName
  <2>4. /\ GetScope(info.scopedName, info.declaredName) = scope
        /\ GetScope(info.fullName, info.scopedName) = namespace
    BY <2>2, <2>3, ScopeFound
  <2>5. CreateForDescr(GetTypeDescr(info)) = WithNames(info, namespace, scope, name)
    BY <2>2, <2>4 DEF CreateForDescr, GetTypeDescr
  <2>6. QED
    BY <2>1, <2>5
<1>2. MethodInv => DescribedAgain
  BY <1>1 DEF MethodInv, TypeInv, DescribedAgain
<1>3. QED
  BY <1>2, MethodInvariance, PTL

\* What is moved out of.
THEOREM Moved == ClassSpec => []MovedLvalues
<1>1. MethodInv => MovedLvalues
  <2> DEFINE lvalue == {"LValueReference", "CollapsedReference"}
             plain  == created.quals \cap {"const"} = {} /\ ~Met(Outer, {"Pointer"})
             moved  == CanBeMoved(created) \/ created.rvReference
             said   == \/ Met(Outer, {"CollapsedReference", "TemplateTypeParm"})
                       \/ plain /\ Met(Outer, {"Record"})
                       \/ plain /\ Met(Outer, {"AliasTemplate"}) /\ ~Met(Outer, lvalue)
  <2>1. ASSUME MethodInv, printed.names \notin {NoMethod, <<>>}
        PROVE  printed.names[1].moved = moved /\ Done
    <3>1. printed.names = ForwardedNames(methodInfo.params) /\ methodInfo # NoMethod
      BY <2>1 DEF MethodInv
    <3>2. methodInfo.params # <<>>
      <4>1. ForwardedNames(<<>>) = <<>>
        BY DEF ForwardedNames
      <4>2. QED
        BY <2>1, <3>1, <4>1
    <3>3. methodInfo.params = <<created>> /\ Done
      BY <2>1, <3>1, <3>2 DEF MethodInv, Made, ReflectMethod, ImplicitMember
    <3>4. ForwardedNames(<<created>>)[1].moved = moved
      BY DEF ForwardedNames
    <3>5. QED
      BY <3>1, <3>3, <3>4
  <2>2. ASSUME MethodInv, Done, NEW r \in DOMAIN type, type[r].class \in lvalue
        PROVE  moved <=> said
    <3>1. IsType(type) /\ Describes(created, Outer)
      BY <2>2 DEF MethodInv, TypeInv
    <3>2. Len(type) \in Nat /\ DOMAIN type = 1..Len(type)
      BY <3>1 DEF IsType
    <3>3. ~Met(Outer, {"RValueReference"})
      <4>1. ASSUME NEW i \in DOMAIN type, type[i].class = "RValueReference" PROVE FALSE
        <5>1. i < r \/ r < i
          BY <2>2, <3>2, <4>1
        <5>2. \A j \in 1..Len(type) : type[j].class \in References =>
                \A k \in 1..(j - 1) : type[k].class \notin References
          BY <3>1 DEF IsType, References
        <5>3. type[i].class \in References /\ type[r].class \in References
          BY <2>2, <4>1 DEF References
        <5>4. i \in 1..(r - 1) \/ r \in 1..(i - 1)
          BY <2>2, <3>2, <4>1, <5>1
        <5>5. QED
          BY <2>2, <3>2, <4>1, <5>2, <5>3, <5>4
      <4>2. QED
        BY <4>1 DEF Met, Outer
    <3>4. Met(Outer, {"TemplateSpecialization"}) => Met(Outer, lvalue)
      <4> SUFFICES ASSUME NEW i \in Outer, type[i].class = "TemplateSpecialization"
                   PROVE  Met(Outer, lvalue)
        BY DEF Met
      <4>1. i \in 1..Len(type) /\ i = Len(type)
        BY <3>1, <3>2 DEF Outer, IsType, Leaves
      <4>2. r \in Outer
        BY <3>2, <4>1 DEF Outer
      <4>3. QED
        BY <2>2, <4>2 DEF Met
    <3>5. /\ Met(Outer, {"RValueReference", "CollapsedReference"})
               <=> Met(Outer, {"RValueReference"}) \/ Met(Outer, {"CollapsedReference"})
          /\ Met(Outer, lvalue)
               <=> Met(Outer, {"LValueReference"}) \/ Met(Outer, {"CollapsedReference"})
          /\ Met(Outer, {"CollapsedReference", "TemplateTypeParm"})
               <=> Met(Outer, {"CollapsedReference"}) \/ Met(Outer, {"TemplateTypeParm"})
          /\ Met(Outer, {"AliasTemplate", "TemplateSpecialization"})
               <=> Met(Outer, {"AliasTemplate"}) \/ Met(Outer, {"TemplateSpecialization"})
      BY DEF Met
    <3>6. /\ created.reference <=> Met(Outer, {"LValueReference"})
          /\ created.rvReference <=> Met(Outer, {"RValueReference", "CollapsedReference"})
          /\ created.pointers = 0 <=> ~Met(Outer, {"Pointer"})
          /\ created.type = "Record" <=> Met(Outer, {"Record"})
          /\ created.type = "TemplateTypeParm" <=> Met(Outer, {"TemplateTypeParm"})
          /\ created.type \in {"Template", "WellKnownType"} <=>
               Met(Outer, {"AliasTemplate", "TemplateSpecialization"})
      BY <3>1 DEF Describes, Met
    <3>7. plain <=> "const" \notin created.quals /\ created.pointers = 0
      BY <3>6
    <3>8. moved <=> \/ created.rvReference
                    \/ created.type = "TemplateTypeParm"
                    \/ created.type = "Record" /\ plain
                    \/ created.type \in {"Template", "WellKnownType"} /\ plain
                         /\ ~created.reference
      BY <3>7 DEF CanBeMoved
    <3> HIDE DEF plain, moved, lvalue
    <3>9. QED
      BY <3>3, <3>4, <3>5, <3>6, <3>8
  <2> HIDE DEF moved
  <2> SUFFICES ASSUME MethodInv, printed.names \notin {NoMethod, <<>>},
                      NEW r \in DOMAIN type, type[r].class \in lvalue
               PROVE  printed.names[1].moved <=> said
    BY DEF MovedLvalues, Met, Outer
  <2>3. QED
    BY <2>1, <2>2
<1>2. QED
  BY <1>1, MethodInvariance, PTL

-------------------------------------------------------------------------------
(* What is printed of a method.                                            *)

\* The words of a text.
Texts == Seq(Phrases)

\* The words of two texts, one after the other.
LEMMA TwoTexts ==
  ASSUME NEW s \in Texts, NEW t \in Texts
  PROVE  /\ s \o t \in Texts
         /\ Words(s \o t) = Words(s) \cup Words(t)
<1>1. /\ s \o t \in Seq(Phrases) /\ Len(s \o t) = Len(s) + Len(t)
      /\ Len(s) \in Nat /\ Len(t) \in Nat
      /\ DOMAIN s = 1..Len(s) /\ DOMAIN t = 1..Len(t) /\ DOMAIN (s \o t) = 1..(Len(s) + Len(t))
      /\ \A i \in 1..(Len(s) + Len(t)) :
           (s \o t)[i] = IF i <= Len(s) THEN s[i] ELSE t[i - Len(s)]
  BY ConcatProperties DEF Texts
<1>2. ASSUME NEW w \in Words(s \o t) PROVE w \in Words(s) \cup Words(t)
  <2>1. PICK i \in 1..(Len(s) + Len(t)) : w = (s \o t)[i]
    BY <1>1, <1>2 DEF Words
  <2>2. CASE i <= Len(s)
    BY <1>1, <2>1, <2>2 DEF Words
  <2>3. CASE ~(i <= Len(s))
    <3>1. i - Len(s) \in 1..Len(t) /\ w = t[i - Len(s)]
      BY <1>1, <2>1, <2>3
    <3>2. QED
      BY <1>1, <3>1 DEF Words
  <2>4. QED
    BY <2>2, <2>3
<1>3. ASSUME NEW w \in Words(s) PROVE w \in Words(s \o t)
  <2>1. PICK i \in 1..Len(s) : w = s[i]
    BY <1>1, <1>3 DEF Words
  <2>2. i \in 1..(Len(s) + Len(t)) /\ w = (s \o t)[i]
    BY <1>1, <2>1
  <2>3. QED
    BY <1>1, <2>2 DEF Words
<1>4. ASSUME NEW w \in Words(t) PROVE w \in Words(s \o t)
  <2>1. PICK i \in 1..Len(t) : w = t[i]
    BY <1>1, <1>4 DEF Words
  <2>2. /\ Len(s) + i \in 1..(Len(s) + Len(t)) /\ ~(Len(s) + i <= Len(s))
        /\ Len(s) + i - Len(s) = i
    BY <1>1, <2>1
  <2>3. w = (s \o t)[Len(s) + i]
    BY <1>1, <2>1, <2>2
  <2>4. QED
    BY <1>1, <2>2, <2>3 DEF Words
<1>5. QED
  BY <1>1, <1>2, <1>3, <1>4 DEF Texts

\* A word that is printed if it is one of some.
LEMMA SaidWord ==
  ASSUME NEW w \in Phrases, NEW words
  PROVE  Said(w, words) \in Texts /\ Words(Said(w, words)) = {w} \cap words
<1>1. CASE w \in words
  <2>1. Said(w, words) = <<w>>
    BY <1>1 DEF Said
  <2>2. <<w>> \in Seq(Phrases) /\ DOMAIN <<w>> = {1} /\ <<w>>[1] = w
    OBVIOUS
  <2>3. Words(<<w>>) = {w}
    BY <2>2 DEF Words
  <2>4. QED
    BY <1>1, <2>1, <2>2, <2>3 DEF Texts
<1>2. CASE w \notin words
  <2>1. Said(w, words) = <<>>
    BY <1>2 DEF Said
  <2>2. <<>> \in Texts /\ Words(<<>>) = {}
    BY DEF Texts, Words
  <2>3. QED
    BY <1>2, <2>1, <2>2
<1>3. QED
  BY <1>1, <1>2

\* The words before the name.
LEMMA BeforeWords ==
  ASSUME NEW words
  PROVE  SaidBefore(words) \in Texts /\ Words(SaidBefore(words)) = Specifiers \cap words
<1> DEFINE a == Said("explicit", words)
           b == Said("virtual", words)
           c == Said("constexpr", words)
           d == Said("static", words)
<1>1. /\ a \in Texts /\ Words(a) = {"explicit"} \cap words
      /\ b \in Texts /\ Words(b) = {"virtual"} \cap words
      /\ c \in Texts /\ Words(c) = {"constexpr"} \cap words
      /\ d \in Texts /\ Words(d) = {"static"} \cap words
  <2>1. {"explicit", "virtual", "constexpr", "static"} \subseteq Phrases
    BY DEF Phrases, Specifiers
  <2>2. QED
    BY <2>1, SaidWord
<1>2. SaidBefore(words) = a \o b \o c \o d
  BY DEF SaidBefore
<1> HIDE DEF a, b, c, d
<1>3. a \o b \in Texts /\ Words(a \o b) = Words(a) \cup Words(b)
  BY <1>1, TwoTexts
<1>4. a \o b \o c \in Texts /\ Words(a \o b \o c) = Words(a \o b) \cup Words(c)
  BY <1>1, <1>3, TwoTexts
<1>5. a \o b \o c \o d \in Texts
      /\ Words(a \o b \o c \o d) = Words(a \o b \o c) \cup Words(d)
  BY <1>1, <1>4, TwoTexts
<1>6. QED
  BY <1>1, <1>2, <1>3, <1>4, <1>5 DEF Specifiers

\* The words after the parameters.
LEMMA AfterWords ==
  ASSUME NEW words
  PROVE  SaidAfter(words) \in Texts /\ Words(SaidAfter(words)) = Trailers \cap words
<1> DEFINE a == Said("const", words)
           b == Said("noexcept", words)
           c == Said("pure", words)
           d == Said("delete", words)
           e == Said("default", words)
<1>1. /\ a \in Texts /\ Words(a) = {"const"} \cap words
      /\ b \in Texts /\ Words(b) = {"noexcept"} \cap words
      /\ c \in Texts /\ Words(c) = {"pure"} \cap words
      /\ d \in Texts /\ Words(d) = {"delete"} \cap words
      /\ e \in Texts /\ Words(e) = {"default"} \cap words
  <2>1. {"const", "noexcept", "pure", "delete", "default"} \subseteq Phrases
    BY DEF Phrases, Trailers, Qualifying
  <2>2. QED
    BY <2>1, SaidWord
<1>2. SaidAfter(words) = a \o b \o c \o d \o e
  BY DEF SaidAfter
<1> HIDE DEF a, b, c, d, e
<1>3. a \o b \in Texts /\ Words(a \o b) = Words(a) \cup Words(b)
  BY <1>1, TwoTexts
<1>4. a \o b \o c \in Texts /\ Words(a \o b \o c) = Words(a \o b) \cup Words(c)
  BY <1>1, <1>3, TwoTexts
<1>5. a \o b \o c \o d \in Texts
      /\ Words(a \o b \o c \o d) = Words(a \o b \o c) \cup Words(d)
  BY <1>1, <1>4, TwoTexts
<1>6. a \o b \o c \o d \o e \in Texts
      /\ Words(a \o b \o c \o d \o e) = Words(a \o b \o c \o d) \cup Words(e)
  BY <1>1, <1>5, TwoTexts
<1>7. QED
  BY <1>1, <1>2, <1>3, <1>4, <1>5, <1>6 DEF Trailers, Qualifying

\* What is printed of two sets is the same, if they have the same words for it.
LEMMA SameWords ==
  ASSUME NEW S, NEW T
  PROVE  /\ Specifiers \cap S = Specifiers \cap T => SaidBefore(S) = SaidBefore(T)
         /\ Trailers \cap S = Trailers \cap T => SaidAfter(S) = SaidAfter(T)
<1>1. ASSUME Specifiers \cap S = Specifiers \cap T
      PROVE  SaidBefore(S) = SaidBefore(T)
  <2>1. \A w \in Specifiers : Said(w, S) = Said(w, T)
    BY <1>1 DEF Said
  <2>2. QED
    BY <2>1 DEF SaidBefore, Specifiers
<1>2. ASSUME Trailers \cap S = Trailers \cap T
      PROVE  SaidAfter(S) = SaidAfter(T)
  <2>1. \A w \in Trailers : Said(w, S) = Said(w, T)
    BY <1>2 DEF Said
  <2>2. QED
    BY <2>1 DEF SaidAfter, Trailers, Qualifying
<1>3. QED
  BY <1>1, <1>2

\* What printMethodTrailing puts after the words.
End(mi, options) ==
  IF "body" \notin options THEN <<>>
  ELSE IF CanHaveBody(mi) THEN mi.body ELSE <<"semicolon">>

\* What the printing functions ask a MethodInfo for.
LEMMA MadeOf ==
  ASSUME NEW d \in Decls, NEW params
  PROVE  /\ d.maker = "ReflectMethod" =>
              /\ Made(d, params).is = Flags(d)
              /\ Made(d, params).hasReturnType = TRUE
              /\ CanHaveBody(Made(d, params)) <=> d.definition \in {"inline", "defaultedUsed"}
              /\ Made(d, params).body = Content(d)
         /\ d.maker # "ReflectMethod" =>
              /\ Made(d, params).is = {}
              /\ Made(d, params).hasReturnType = FALSE
              /\ ~CanHaveBody(Made(d, params))
              /\ Made(d, params).body = <<>>
<1>1. CASE d.maker = "ReflectMethod"
  <2>1. Made(d, params) = ReflectMethod(d, params)
    BY <1>1 DEF Made
  <2>2. /\ ReflectMethod(d, params).is = Flags(d)
        /\ ReflectMethod(d, params).hasReturnType = TRUE
        /\ ReflectMethod(d, params).isDefined = (d.definition \notin {"declared", "pure"})
        /\ ReflectMethod(d, params).isClassScopeInlined = Inlined(d)
        /\ ReflectMethod(d, params).body = Content(d)
    BY DEF ReflectMethod
  <2>3. CanHaveBody(ReflectMethod(d, params))
          <=> d.definition \in {"inline", "defaultedUsed"}
    BY <2>2 DEF CanHaveBody, Inlined, HasBody
  <2>4. QED
    BY <1>1, <2>1, <2>2, <2>3
<1>2. CASE d.maker # "ReflectMethod"
  BY <1>2 DEF Made, ImplicitMember, CanHaveBody
<1>3. QED
  BY <1>1, <1>2

\* The copy of a body has no closing brace.
LEMMA CopyOfBody ==
  ASSUME NEW d
  PROVE  Content(d) \in Texts /\ Words(Content(d)) \subseteq {"open brace", "statement"}
<1> DEFINE whole == <<"open brace", "statement", "close brace">>
           copy  == SubSeq(whole, 1, 2)
<1>1. <<>> \in Texts /\ Words(<<>>) = {}
  BY DEF Texts, Words
<1>2. copy \in Texts /\ Words(copy) \subseteq {"open brace", "statement"}
  <2>1. /\ whole \in Seq(Phrases) /\ Len(whole) = 3
        /\ whole[1] = "open brace" /\ whole[2] = "statement"
    BY DEF Phrases, Ending
  <2> HIDE DEF whole
  <2>2. \A i \in 1..2 : whole[i] \in Phrases
    <3>1. 1..2 = {1, 2}
      OBVIOUS
    <3>2. {"open brace", "statement"} \subseteq Phrases
      BY DEF Phrases, Ending
    <3>3. QED
      BY <2>1, <3>1, <3>2
  <2>3. /\ copy \in Seq(Phrases)
        /\ Len(copy) = IF 1 <= 2 THEN 2 - 1 + 1 ELSE 0
        /\ \A i \in 1..(2 - 1 + 1) : copy[i] = whole[1 + i - 1]
    BY <2>2, SubSeqProperties
  <2> HIDE DEF copy
  <2>4. DOMAIN copy = 1..2 /\ copy[1] = whole[1] /\ copy[2] = whole[2]
    BY <2>3
  <2>5. Words(copy) \subseteq {"open brace", "statement"}
    <3>1. 1..2 = {1, 2}
      OBVIOUS
    <3>2. Words(copy) = {copy[1], copy[2]}
      BY <2>4, <3>1 DEF Words
    <3>3. QED
      BY <2>1, <2>4, <3>2
  <2>6. QED
    BY <2>3, <2>5 DEF Texts
<1>3. Content(d) \in {<<>>, copy}
  <2>1. BodyText(d) \in {<<>>, whole}
    BY DEF BodyText
  <2>2. Len(whole) - 1 = 2
    OBVIOUS
  <2> HIDE DEF whole
  <2>3. BodyText(d) = whole => SubSeq(BodyText(d), 1, Len(BodyText(d)) - 1) = copy
    BY <2>2
  <2> HIDE DEF copy
  <2>4. QED
    BY <2>1, <2>3 DEF Content
<1> HIDE DEF copy
<1>4. QED
  BY <1>1, <1>2, <1>3

\* What is put after the words is the copy of the body or a semicolon.
LEMMA EndWords ==
  ASSUME NEW d \in Decls, NEW params, NEW options
  PROVE  /\ End(Made(d, params), options) \in Texts
         /\ Words(End(Made(d, params), options)) \subseteq Ending
         /\ "body" \in options =>
              IF CanHaveBody(Made(d, params))
              THEN Words(End(Made(d, params), options)) \subseteq {"open brace", "statement"}
              ELSE End(Made(d, params), options) = <<"semicolon">>
<1>1. <<>> \in Texts /\ Words(<<>>) = {}
  BY DEF Texts, Words
<1>2. <<"semicolon">> \in Texts /\ Words(<<"semicolon">>) = {"semicolon"}
  <2>1. /\ <<"semicolon">> \in Seq(Phrases) /\ DOMAIN <<"semicolon">> = {1}
        /\ <<"semicolon">>[1] = "semicolon"
    BY DEF Phrases, Ending
  <2>2. QED
    BY <2>1 DEF Texts, Words
<1>3. Made(d, params).body \in {<<>>, Content(d)}
  BY MadeOf
<1>4. /\ Made(d, params).body \in Texts
      /\ Words(Made(d, params).body) \subseteq {"open brace", "statement"}
  BY <1>1, <1>3, CopyOfBody
<1>5. QED
  BY <1>1, <1>2, <1>4 DEF End, Ending

\* The words that the two functions print.
LEMMA ForwardingWords ==
  ASSUME NEW mi, NEW options
  PROVE  /\ Forwarding(mi, options) \in Texts
         /\ Words(Forwarding(mi, options)) =
              (Specifiers \cap options \cap mi.is)
              \cup (IF mi.hasReturnType THEN {"return type"} \cap options ELSE {})
<1> DEFINE front == SaidBefore(options \cap mi.is)
           back  == IF mi.hasReturnType THEN Said("return type", options) ELSE <<>>
<1>1. front \in Texts /\ Words(front) = Specifiers \cap (options \cap mi.is)
  BY BeforeWords
<1>2. /\ back \in Texts
      /\ Words(back) = IF mi.hasReturnType THEN {"return type"} \cap options ELSE {}
  <2>1. <<>> \in Texts /\ Words(<<>>) = {}
    BY DEF Texts, Words
  <2>2. "return type" \in Phrases
    BY DEF Phrases
  <2>3. /\ Said("return type", options) \in Texts
        /\ Words(Said("return type", options)) = {"return type"} \cap options
    BY <2>2, SaidWord
  <2>4. QED
    BY <2>1, <2>3
<1>3. Forwarding(mi, options) = front \o back
  BY DEF Forwarding
<1> HIDE DEF front, back
<1>4. front \o back \in Texts /\ Words(front \o back) = Words(front) \cup Words(back)
  BY <1>1, <1>2, TwoTexts
<1>5. QED
  BY <1>1, <1>2, <1>3, <1>4

LEMMA TrailingWords ==
  ASSUME NEW d \in Decls, NEW params, NEW options
  PROVE  /\ Trailing(Made(d, params), options) \in Texts
         /\ Words(Trailing(Made(d, params), options)) =
              (Trailers \cap options \cap Made(d, params).is)
              \cup Words(End(Made(d, params), options))
<1> DEFINE mi    == Made(d, params)
           front == SaidAfter(options \cap mi.is)
           back  == End(mi, options)
<1>1. front \in Texts /\ Words(front) = Trailers \cap (options \cap mi.is)
  BY AfterWords
<1>2. back \in Texts
  BY EndWords
<1>3. Trailing(mi, options) = front \o back
  BY DEF Trailing, End
<1> HIDE DEF front, back, mi
<1>4. front \o back \in Texts /\ Words(front \o back) = Words(front) \cup Words(back)
  BY <1>1, <1>2, TwoTexts
<1>5. QED
  BY <1>1, <1>2, <1>3, <1>4 DEF mi, back

\* What has been printed, with which options.
ForwardingMasks == {ForwardingAll, ForwardingAll \ {"return type"}}
TrailingMasks   == {TrailingAll, TrailingAll \ {"body"}}

\* The forwarding first, then what trails.
ArePrinted(mi, forwarding, trailing, options) ==
  \/ forwarding = NoMethod /\ trailing = NoMethod /\ options = {}
  \/ /\ mi # NoMethod
     /\ \E f \in ForwardingMasks :
          /\ forwarding = Forwarding(mi, f)
          /\ \/ trailing = NoMethod /\ options = f
             \/ \E t \in TrailingMasks : trailing = Trailing(mi, t) /\ options = f \cup t

PrintInv ==
  /\ DOMAIN printed = {"forwarding", "trailing", "decl", "names", "options"}
  /\ ArePrinted(methodInfo, printed.forwarding, printed.trailing, printed.options)
  /\ printed.decl # NoMethod =>
       /\ methodInfo # NoMethod /\ declared.maker = "ReflectMethod"
       /\ printed.decl = Decl(declared)

\* A text is a text.
LEMMA PrintedIsText ==
  ASSUME MethodInv, methodInfo # NoMethod, NEW options
  PROVE  Forwarding(methodInfo, options) # NoMethod /\ Trailing(methodInfo, options) # NoMethod
<1>1. NoMethod \notin Texts
  BY DeclsAssumption DEF Texts
<1>2. declared \in Decls
  BY DEF MethodInv
<1>3. PICK params : methodInfo = Made(declared, params)
  BY DEF MethodInv
<1>4. Forwarding(methodInfo, options) \in Texts
  BY ForwardingWords
<1>5. Trailing(Made(declared, params), options) \in Texts
  BY <1>2, TrailingWords
<1>6. QED
  BY <1>1, <1>3, <1>4, <1>5

\* A step before anything is printed.
LEMMA NothingPrinted ==
  ASSUME PrintInv, methodInfo = NoMethod, printed' = printed
  PROVE  PrintInv'
<1>1. /\ printed.forwarding = NoMethod /\ printed.trailing = NoMethod
      /\ printed.options = {} /\ printed.decl = NoMethod
  BY DEF PrintInv, ArePrinted
<1>2. ArePrinted(methodInfo', printed.forwarding, printed.trailing, printed.options)
  BY <1>1 DEF ArePrinted
<1>3. QED
  BY <1>1, <1>2 DEF PrintInv

\* A function prints a text.
LEMMA PrintsKeep ==
  ASSUME MethodInv, PrintInv, NEW what \in {"forwarding", "trailing", "decl", "names"}, NEW text,
         NEW options, NEW failing, PrintOnce(what, text, options, failing),
         what = "forwarding" => options \in ForwardingMasks /\ text = Forwarding(methodInfo, options),
         what = "trailing" => /\ options \in TrailingMasks /\ text = Trailing(methodInfo, options)
                              /\ printed.forwarding # NoMethod,
         what = "decl" => options = {} /\ text = Decl(declared) /\ declared.maker = "ReflectMethod",
         what = "names" => options = {}
  PROVE  PrintInv'
<1>1. /\ methodInfo # NoMethod /\ printed[what] = NoMethod
      /\ methodInfo' = methodInfo /\ declared' = declared
      /\ \/ printed' = printed
         \/ printed' = [printed EXCEPT ![what] = text, !.options = @ \cup options]
  BY DEF PrintOnce
<1>2. CASE printed' = printed
  BY <1>1, <1>2 DEF PrintInv
<1>3. ASSUME printed' = [printed EXCEPT ![what] = text, !.options = @ \cup options]
      PROVE  PrintInv'
  <2> DEFINE now == printed'
  <2>0. DOMAIN printed = {"forwarding", "trailing", "decl", "names", "options"}
    BY DEF PrintInv
  <2>1. /\ DOMAIN now = {"forwarding", "trailing", "decl", "names", "options"}
        /\ now[what] = text
        /\ now.options = printed.options \cup options
        /\ \A w \in {"forwarding", "trailing", "decl", "names"} \ {what} : now[w] = printed[w]
    BY <1>3, <2>0
  <2> HIDE DEF now
  <2>2. \A f : Forwarding(methodInfo, f) # NoMethod /\ Trailing(methodInfo, f) # NoMethod
    BY <1>1, PrintedIsText
  <2>3. ArePrinted(methodInfo, printed.forwarding, printed.trailing, printed.options)
    BY DEF PrintInv
  <2>4. ArePrinted(methodInfo, now.forwarding, now.trailing, now.options)
    <3>1. CASE what = "forwarding"
      <4>1. printed.trailing = NoMethod /\ printed.options = {}
        BY <1>1, <2>2, <2>3, <3>1 DEF ArePrinted
      <4>2. /\ now.forwarding = Forwarding(methodInfo, options)
            /\ now.trailing = NoMethod /\ now.options = options
        BY <2>1, <3>1, <4>1
      <4>3. QED
        BY <1>1, <3>1, <4>2 DEF ArePrinted
    <3>2. CASE what = "trailing"
      <4>1. PICK f \in ForwardingMasks :
              printed.forwarding = Forwarding(methodInfo, f) /\ printed.options = f
        BY <1>1, <2>2, <2>3, <3>2 DEF ArePrinted
      <4>2. /\ now.forwarding = Forwarding(methodInfo, f)
            /\ now.trailing = Trailing(methodInfo, options)
            /\ now.options = f \cup options
        BY <2>1, <3>2, <4>1
      <4>3. QED
        BY <1>1, <3>2, <4>2 DEF ArePrinted
    <3>3. CASE what \in {"decl", "names"}
      <4>1. /\ now.forwarding = printed.forwarding
            /\ now.trailing = printed.trailing
            /\ now.options = printed.options
        BY <2>1, <3>3
      <4>2. QED
        BY <2>3, <4>1
    <3>4. QED
      BY <3>1, <3>2, <3>3
  <2>5. now.decl # NoMethod => declared.maker = "ReflectMethod" /\ now.decl = Decl(declared)
    <3>1. CASE what = "decl"
      <4>1. now.decl = text
        BY <2>1, <3>1
      <4>2. QED
        BY <3>1, <4>1
    <3>2. CASE what # "decl"
      <4>1. now.decl = printed.decl
        BY <2>1, <3>2
      <4>2. QED
        BY <4>1 DEF PrintInv
    <3>3. QED
      BY <3>1, <3>2
  <2>6. QED
    BY <1>1, <2>1, <2>4, <2>5 DEF PrintInv, now
<1>4. QED
  BY <1>1, <1>2, <1>3

\* The steps of the plugin.
LEMMA PluginKeepsPrinted ==
  MethodInv /\ PrintInv /\ (PrinterStep \/ forEachDeclaredMethod) => PrintInv'
<1> SUFFICES ASSUME MethodInv, PrintInv, PrinterStep \/ forEachDeclaredMethod PROVE PrintInv'
  OBVIOUS
<1>1. CASE CreateStep
  <2>1. printed' = printed /\ methodInfo' = methodInfo /\ declared' = declared
    BY <1>1 DEF CreateStep
  <2>2. QED
    BY <2>1 DEF PrintInv
<1>2. CASE MakeMethodInfo
  <2>1. methodInfo = NoMethod /\ printed' = printed
    BY <1>2 DEF MakeMethodInfo
  <2>2. QED
    BY <2>1, NothingPrinted
<1>3. CASE \E options \in {ForwardingAll, ForwardingAll \ {"return type"}} :
             PrintMethodForwarding(options)
  <2>1. PICK options \in ForwardingMasks : PrintMethodForwarding(options)
    BY <1>3 DEF ForwardingMasks
  <2>2. QED
    BY <2>1, PrintsKeep DEF PrintMethodForwarding
<1>4. CASE \E options \in {TrailingAll, TrailingAll \ {"body"}} : PrintMethodTrailing(options)
  <2>1. PICK options \in TrailingMasks : PrintMethodTrailing(options)
    BY <1>4 DEF TrailingMasks
  <2>2. QED
    BY <2>1, PrintsKeep DEF PrintMethodTrailing
<1>5. CASE PrintMethodDecl
  BY <1>5, PrintsKeep DEF PrintMethodDecl
<1>6. CASE ForwardMethodParamNames
  BY <1>6, PrintsKeep DEF ForwardMethodParamNames
<1>7. CASE forEachDeclaredMethod
  <2>1. methodInfo = NoMethod /\ printed' = printed
    BY <1>7 DEF forEachDeclaredMethod, Look, MethodInv
  <2>2. QED
    BY <2>1, NothingPrinted
<1>8. QED
  BY <1>1, <1>2, <1>3, <1>4, <1>5, <1>6, <1>7 DEF PrinterStep

\* What has been printed is what the functions print of the method, whatever it is.
THEOREM PrintInvariance == ClassSpec => []PrintInv
<1>1. ClassInit => PrintInv
  BY DEF ClassInit, PrinterInit, PrintInv, ArePrinted
<1>2. MethodInv /\ PrintInv /\ [ClassNext]_allVars => PrintInv'
  <2> SUFFICES ASSUME MethodInv, PrintInv, [ClassNext]_allVars PROVE PrintInv'
    OBVIOUS
  <2>1. CASE UNCHANGED printerVars
    BY <2>1 DEF printerVars, PrintInv
  <2>2. CASE PrinterStep \/ forEachDeclaredMethod
    BY <2>2, PluginKeepsPrinted
  <2>3. QED
    BY <2>1, <2>2 DEF ClassNext, ListStep, Finished, allVars
<1>3. QED
  BY <1>1, <1>2, MethodInvariance, PTL DEF ClassSpec

\* The last word of two texts, one after the other.
LEMMA LastWord ==
  ASSUME NEW s \in Texts, NEW t \in Texts, t # <<>>
  PROVE  s \o t # <<>> /\ (s \o t)[Len(s \o t)] = t[Len(t)]
<1>1. Len(s) \in Nat /\ Len(t) \in Nat /\ Len(t) # 0
  BY EmptySeq DEF Texts
<1>2. /\ s \o t \in Seq(Phrases) /\ Len(s \o t) = Len(s) + Len(t)
      /\ \A i \in 1..(Len(s) + Len(t)) :
           (s \o t)[i] = IF i <= Len(s) THEN s[i] ELSE t[i - Len(s)]
  BY ConcatProperties DEF Texts
<1>3. /\ Len(s) + Len(t) \in 1..(Len(s) + Len(t)) /\ ~(Len(s) + Len(t) <= Len(s))
      /\ Len(s) + Len(t) - Len(s) = Len(t) /\ Len(s) + Len(t) # 0
  BY <1>1
<1>4. s \o t # <<>>
  BY <1>2, <1>3, EmptySeq
<1>5. QED
  BY <1>2, <1>3, <1>4

\* The last place of a text.
LEMMA HasLast ==
  ASSUME NEW s \in Seq(Phrases), s # <<>>
  PROVE  Len(s) \in DOMAIN s
<1>1. Len(s) \in Nat \ {0}
  BY EmptySeq
<1>2. DOMAIN s = 1..Len(s)
  OBVIOUS
<1>3. QED
  BY <1>1, <1>2

\* What is printed with all options but perhaps the return type, and where it ends.
LEMMA PrintedWords ==
  ASSUME NEW d \in Decls, NEW params, NEW f \in ForwardingMasks
  PROVE  LET mi   == Made(d, params)
             text == Forwarding(mi, f) \o Trailing(mi, TrailingAll)
         IN  /\ Words(text) \ Ending =
                  (Specifiers \cap mi.is) \cup (Trailers \cap mi.is)
                  \cup (IF mi.hasReturnType THEN {"return type"} \cap f ELSE {})
             /\ IsComplete(text) <=> ~CanHaveBody(mi)
<1> DEFINE mi   == Made(d, params)
           a    == Forwarding(mi, f)
           b    == Trailing(mi, TrailingAll)
           c    == SaidAfter(TrailingAll \cap mi.is)
           e    == End(mi, TrailingAll)
           rt   == IF mi.hasReturnType THEN {"return type"} \cap f ELSE {}
<1>1. Specifiers \subseteq f /\ Trailers \subseteq TrailingAll /\ "body" \in TrailingAll
  <2>1. "return type" \notin Specifiers
    BY DEF Specifiers
  <2>2. QED
    BY <2>1 DEF ForwardingMasks, ForwardingAll, TrailingAll
<1>2. a \in Texts /\ Words(a) = (Specifiers \cap mi.is) \cup rt
  <2>1. a \in Texts /\ Words(a) = (Specifiers \cap f \cap mi.is) \cup rt
    BY ForwardingWords
  <2>2. QED
    BY <1>1, <2>1
<1>3. b \in Texts /\ Words(b) = (Trailers \cap mi.is) \cup Words(e)
  <2>1. b \in Texts /\ Words(b) = (Trailers \cap TrailingAll \cap mi.is) \cup Words(e)
    BY TrailingWords
  <2>2. QED
    BY <1>1, <2>1
<1>4. /\ e \in Texts /\ Words(e) \subseteq Ending
      /\ IF CanHaveBody(mi) THEN Words(e) \subseteq {"open brace", "statement"}
         ELSE e = <<"semicolon">>
  BY <1>1, EndWords
<1>5. c \in Texts /\ b = c \o e
  BY AfterWords DEF Trailing, End
<1> HIDE DEF mi, a, b, c, e, rt
<1>6. a \o b \in Texts /\ Words(a \o b) = Words(a) \cup Words(b)
  BY <1>2, <1>3, TwoTexts
<1>7. Specifiers \cap Ending = {} /\ Trailers \cap Ending = {} /\ rt \cap Ending = {}
  <2>1. rt \subseteq {"return type"}
    BY DEF rt
  <2>2. QED
    BY <2>1 DEF Specifiers, Trailers, Qualifying, Ending
<1>8. Words(a \o b) \ Ending = (Specifiers \cap mi.is) \cup (Trailers \cap mi.is) \cup rt
  BY <1>2, <1>3, <1>4, <1>6, <1>7
<1>9. ASSUME CanHaveBody(mi) PROVE ~IsComplete(a \o b)
  <2> SUFFICES ASSUME a \o b # <<>>, (a \o b)[Len(a \o b)] \in {"semicolon", "close brace"}
               PROVE  FALSE
    BY DEF IsComplete
  <2>1. Len(a \o b) \in DOMAIN (a \o b)
    BY <1>6, HasLast DEF Texts
  <2>2. (a \o b)[Len(a \o b)] \in Words(a \o b) \cap {"semicolon", "close brace"}
    BY <2>1 DEF Words
  <2>3. {"semicolon", "close brace"} \subseteq Ending
        /\ {"semicolon", "close brace"} \cap {"open brace", "statement"} = {}
    BY DEF Ending
  <2>4. QED
    BY <1>2, <1>3, <1>4, <1>6, <1>7, <1>9, <2>2, <2>3
<1>10. ASSUME ~CanHaveBody(mi) PROVE IsComplete(a \o b)
  <2>1. e # <<>> /\ e[Len(e)] = "semicolon"
    <3>1. e = <<"semicolon">>
      BY <1>4, <1>10
    <3>2. Len(<<"semicolon">>) = 1 /\ <<"semicolon">>[1] = "semicolon" /\ <<"semicolon">> # <<>>
      OBVIOUS
    <3>3. QED
      BY <3>1, <3>2
  <2>2. b # <<>> /\ b[Len(b)] = "semicolon"
    BY <1>4, <1>5, <2>1, LastWord
  <2>3. a \o b # <<>> /\ (a \o b)[Len(a \o b)] = "semicolon"
    BY <1>2, <1>3, <2>2, LastWord
  <2>4. QED
    BY <2>3 DEF IsComplete
<1>11. QED
  BY <1>8, <1>9, <1>10 DEF mi, a, b, rt

\* What ends a declaration, as far as it is no body.
LEMMA ClausesOf ==
  ASSUME NEW d
  PROVE  Clauses(d) \subseteq Trailers \ Qualifying
BY DEF Clauses, Trailers, Qualifying

\* Of a method that somebody wrote, the words are the same.
LEMMA SameAsWritten ==
  ASSUME NEW d \in Decls, d.maker = "ReflectMethod", NEW params, NEW f,
         NEW W, W = (Specifiers \cap Flags(d)) \cup (Trailers \cap Flags(d))
                    \cup ({"return type"} \cap f)
  PROVE  W = Written(d) <=>
           /\ d.specifiers \subseteq Specifiers /\ d.trailing \subseteq Qualifying
           /\ d.implied \subseteq d.specifiers \cup d.trailing
           /\ d.definition # "defaultedDeleted"
           /\ d.kind \in {"constructor", "destructor"} <=> "return type" \notin f
<1> DEFINE S  == d.specifiers
           T  == d.trailing
           I  == d.implied
           C  == Clauses(d)
           CW == IF d.definition = "defaultedDeleted" THEN {"default"} ELSE C
           R  == {"return type"} \cap f
           RW == IF d.kind \in {"constructor", "destructor"} THEN {} ELSE {"return type"}
           N  == IF "noexcept(false)" \in T THEN {"noexcept"} ELSE {}
           More == Trailers \ Qualifying
<1>1. /\ S \cap (Phrases \ Specifiers) = {} /\ T \cap (Phrases \ Qualifying) = {}
      /\ I \subseteq Specifiers \cup Qualifying
  BY DeclsAssumption DEF Implied, Specifiers
<1>2. /\ Specifiers \subseteq Phrases /\ Qualifying \subseteq Trailers /\ Trailers \subseteq Phrases
      /\ "return type" \in Phrases
  BY DEF Phrases, Trailers
<1>3. /\ Specifiers \cap Trailers = {} /\ "return type" \notin Specifiers \cup Trailers
      /\ "noexcept" \in Qualifying /\ "noexcept(false)" \notin Qualifying
      /\ "default" \in More /\ "delete" \in More /\ "default" # "delete"
  BY DEF Specifiers, Trailers, Qualifying
<1>4. C \subseteq More /\ CW \subseteq More
      /\ (d.definition = "defaultedDeleted" => C = {"delete", "default"} /\ CW = {"default"})
      /\ (d.definition # "defaultedDeleted" => CW = C)
  <2>1. C \subseteq More
    BY ClausesOf
  <2>2. d.definition = "defaultedDeleted" => C = {"delete", "default"}
    BY DEF Clauses
  <2> HIDE DEF C
  <2>3. QED
    BY <1>3, <2>1, <2>2
<1>5. N \subseteq Qualifying /\ (T \subseteq Qualifying => N = {})
  BY <1>3
<1>6. Flags(d) = (S \cap Specifiers) \cup (T \cap Trailers) \cup C \cup I \cup N
  BY DEF Flags
<1>7. Written(d) = S \cup T \cup CW \cup RW
  BY DEF Written
<1>8. RW = {} \/ RW = {"return type"}
  OBVIOUS
<1>9. R = RW <=> (d.kind \in {"constructor", "destructor"} <=> "return type" \notin f)
  OBVIOUS
<1>10. R \subseteq {"return type"}
  OBVIOUS
<1>11. W = (S \cap Specifiers) \cup (T \cap Qualifying) \cup C \cup I \cup N \cup R
  <2> HIDE DEF S, T, I, C, CW, R, RW, N
  <2>1. T \cap Trailers = T \cap Qualifying
    BY <1>1, <1>2
  <2>2. W = (Specifiers \cap Flags(d)) \cup (Trailers \cap Flags(d)) \cup R
    BY DEF R
  <2>3. QED
    <3>1. (Specifiers \cap Flags(d)) \cup (Trailers \cap Flags(d)) = (Specifiers \cup Trailers) \cap Flags(d)
      OBVIOUS
    <3>2. C \cup I \cup N \subseteq Specifiers \cup Trailers
      BY <1>1, <1>2, <1>4, <1>5 DEF More
    <3>3. (S \cap Specifiers) \cup (T \cap Trailers) \subseteq Specifiers \cup Trailers
      OBVIOUS
    <3>4. (Specifiers \cup Trailers) \cap Flags(d) = Flags(d)
      BY <1>6, <3>2, <3>3
    <3>5. QED
      BY <1>6, <2>1, <2>2, <3>1, <3>4
<1> HIDE DEF S, T, I, C, CW, R, RW, N, More
<1>12. ASSUME W = Written(d)
       PROVE  /\ S \subseteq Specifiers /\ T \subseteq Qualifying /\ I \subseteq S \cup T
              /\ C = CW /\ R = RW
  <2>1. W \subseteq Phrases
    BY <1>1, <1>2, <1>4, <1>5, <1>10, <1>11 DEF More
  <2>2. S \subseteq Specifiers /\ T \subseteq Qualifying
    BY <1>1, <1>7, <1>12, <2>1
  <2>3. More \cap (Specifiers \cup Qualifying \cup {"return type"}) = {}
    BY <1>2, <1>3 DEF More
  <2>4. "return type" \notin Specifiers \cup Qualifying
    BY <1>2, <1>3
  <2>5. C = CW
    BY <1>1, <1>4, <1>5, <1>7, <1>8, <1>10, <1>11, <1>12, <2>2, <2>3
  <2>6. R = RW
    <3>1. "return type" \in W <=> "return type" \in R
      BY <1>1, <1>4, <1>5, <1>11, <2>3, <2>4
    <3>2. "return type" \in Written(d) <=> "return type" \in RW
      BY <1>4, <1>7, <2>2, <2>3, <2>4
    <3>3. QED
      BY <1>8, <1>10, <1>12, <3>1, <3>2
  <2>7. I \subseteq S \cup T
    <3>1. I \cap (CW \cup RW) = {}
      BY <1>1, <1>4, <1>8, <2>3, <2>4
    <3>2. QED
      BY <1>7, <1>11, <1>12, <3>1
  <2>8. QED
    BY <2>2, <2>5, <2>6, <2>7
<1>13. ASSUME S \subseteq Specifiers, T \subseteq Qualifying, I \subseteq S \cup T, C = CW, R = RW
       PROVE  W = Written(d)
  BY <1>5, <1>7, <1>11, <1>13
<1>14. C = CW <=> d.definition # "defaultedDeleted"
  BY <1>3, <1>4
<1>15. QED
  BY <1>9, <1>12, <1>13, <1>14 DEF S, T, I

\* What the printed text says of a method.
THEOREM SaysTheSame == ClassSpec => []PrintedSaysTheSame
<1>1. MethodInv /\ PrintInv => PrintedSaysTheSame
  <2> DEFINE d    == declared
             mi   == methodInfo
             text == printed.forwarding \o printed.trailing
             says == Words(text) \ Ending = Written(d) /\ IsComplete(text)
             fits == /\ d.specifiers \subseteq Specifiers /\ d.trailing \subseteq Qualifying
                     /\ d.implied \subseteq d.specifiers \cup d.trailing
                     /\ d.definition \notin {"inline", "defaultedUsed", "defaultedDeleted"}
                     /\ IF d.kind \in {"constructor", "destructor"}
                        THEN d.maker = "ReflectMethod" => "return type" \notin printed.options
                        ELSE d.maker = "ReflectMethod" /\ "return type" \in printed.options
  <2> SUFFICES ASSUME MethodInv, PrintInv, printed.trailing # NoMethod,
                      "body" \in printed.options
               PROVE  says <=> fits
    BY DEF PrintedSaysTheSame
  <2>1. /\ mi # NoMethod
        /\ \E f \in ForwardingMasks, t \in TrailingMasks :
             /\ printed.forwarding = Forwarding(mi, f)
             /\ printed.trailing = Trailing(mi, t) /\ printed.options = f \cup t
    BY DEF PrintInv, ArePrinted
  <2>2. PICK f \in ForwardingMasks, t \in TrailingMasks :
          /\ printed.forwarding = Forwarding(mi, f)
          /\ printed.trailing = Trailing(mi, t) /\ printed.options = f \cup t
    BY <2>1
  <2>3. t = TrailingAll
    <3>0. "body" \notin ForwardingAll
      BY DEF ForwardingAll, Specifiers
    <3>1. "body" \notin f
      BY <3>0 DEF ForwardingMasks
    <3>2. "body" \in t
      BY <2>2, <3>1
    <3>3. QED
      BY <3>2 DEF TrailingMasks
  <2>4. "return type" \in printed.options <=> "return type" \in f
    <3>1. "return type" \notin TrailingAll
      BY DEF TrailingAll, Trailers, Qualifying
    <3>2. QED
      BY <2>2, <2>3, <3>1
  <2>5. d \in Decls /\ \E params : mi = Made(d, params)
    BY <2>1 DEF MethodInv
  <2>6. PICK params : mi = Made(d, params)
    BY <2>5
  <2>7. text = Forwarding(Made(d, params), f) \o Trailing(Made(d, params), TrailingAll)
    BY <2>2, <2>3, <2>6
  <2> HIDE DEF text
  <2>8. /\ Words(text) \ Ending =
             (Specifiers \cap mi.is) \cup (Trailers \cap mi.is)
             \cup (IF mi.hasReturnType THEN {"return type"} \cap f ELSE {})
        /\ IsComplete(text) <=> ~CanHaveBody(mi)
    BY <2>5, <2>6, <2>7, PrintedWords
  <2>9. CASE d.maker = "ReflectMethod"
    <3>1. /\ mi.is = Flags(d) /\ mi.hasReturnType = TRUE
          /\ CanHaveBody(mi) <=> d.definition \in {"inline", "defaultedUsed"}
      BY <2>5, <2>6, <2>9, MadeOf
    <3>2. Words(text) \ Ending =
            (Specifiers \cap Flags(d)) \cup (Trailers \cap Flags(d)) \cup ({"return type"} \cap f)
      BY <2>8, <3>1
    <3>3. Words(text) \ Ending = Written(d) <=>
            /\ d.specifiers \subseteq Specifiers /\ d.trailing \subseteq Qualifying
            /\ d.implied \subseteq d.specifiers \cup d.trailing
            /\ d.definition # "defaultedDeleted"
            /\ d.kind \in {"constructor", "destructor"} <=> "return type" \notin f
      BY <2>5, <2>9, <3>2, SameAsWritten
    <3>4. QED
      BY <2>4, <2>8, <2>9, <3>1, <3>3
  <2>10. CASE d.maker # "ReflectMethod"
    <3>1. mi.is = {} /\ mi.hasReturnType = FALSE /\ ~CanHaveBody(mi)
      BY <2>5, <2>6, <2>10, MadeOf
    <3>2. Words(text) \ Ending = {}
      BY <2>8, <3>1
    <3>3. /\ d.specifiers = {} /\ d.trailing = {} /\ d.implied = {}
          /\ d.definition = "declared"
      BY <2>5, <2>10, DeclsAssumption
    <3>4. Written(d) = IF d.kind \in {"constructor", "destructor"} THEN {} ELSE {"return type"}
      BY <3>3 DEF Written, Clauses
    <3>5. Words(text) \ Ending = Written(d) <=> d.kind \in {"constructor", "destructor"}
      BY <3>2, <3>4
    <3>6. QED
      BY <2>8, <2>10, <3>1, <3>3, <3>5
  <2>11. QED
    BY <2>9, <2>10
<1>2. QED
  BY <1>1, MethodInvariance, PrintInvariance, PTL

\* A text, and what follows it of a body, or the semicolon.
LEMMA HeadOfText ==
  ASSUME NEW head \in Texts, NEW back \in Texts,
         Words(head) \cap Ending = {}, Words(back) \subseteq Ending
  PROVE  /\ BeforeBody(head \o back) = 1..Len(head)
         /\ \A i \in 1..Len(head) : (head \o back)[i] = head[i]
         /\ BeforeBody(head \o back) = DOMAIN (head \o back) <=> back = <<>>
<1>1. /\ head \o back \in Seq(Phrases) /\ Len(head \o back) = Len(head) + Len(back)
      /\ Len(head) \in Nat /\ Len(back) \in Nat
      /\ DOMAIN head = 1..Len(head) /\ DOMAIN back = 1..Len(back)
      /\ DOMAIN (head \o back) = 1..(Len(head) + Len(back))
      /\ \A i \in 1..(Len(head) + Len(back)) :
           (head \o back)[i] = IF i <= Len(head) THEN head[i] ELSE back[i - Len(head)]
  BY ConcatProperties DEF Texts
<1>2. ASSUME NEW i \in 1..Len(head)
      PROVE  (head \o back)[i] = head[i] /\ head[i] \notin Ending /\ i \in 1..(Len(head) + Len(back))
  <2>1. i \in 1..(Len(head) + Len(back)) /\ (head \o back)[i] = head[i]
    BY <1>1
  <2>2. head[i] \in Words(head)
    BY <1>1 DEF Words
  <2>3. QED
    BY <2>1, <2>2
<1>3. ASSUME NEW i \in 1..(Len(head) + Len(back)), i \notin 1..Len(head)
      PROVE  (head \o back)[i] \in Ending
  <2>1. ~(i <= Len(head)) /\ i - Len(head) \in 1..Len(back)
    BY <1>1, <1>3
  <2>2. (head \o back)[i] = back[i - Len(head)] /\ back[i - Len(head)] \in Words(back)
    BY <1>1, <2>1 DEF Words
  <2>3. QED
    BY <2>2
<1>4. BeforeBody(head \o back) = 1..Len(head)
  BY <1>1, <1>2, <1>3 DEF BeforeBody
<1>5. back = <<>> <=> Len(back) = 0
  BY EmptySeq DEF Texts
<1>6. 1..Len(head) = 1..(Len(head) + Len(back)) <=> Len(back) = 0
  <2>1. ASSUME Len(back) # 0 PROVE 1..Len(head) # 1..(Len(head) + Len(back))
    <3>1. Len(head) + 1 \in 1..(Len(head) + Len(back)) /\ Len(head) + 1 \notin 1..Len(head)
      BY <1>1, <2>1
    <3>2. QED
      BY <3>1
  <2>2. Len(back) = 0 => Len(head) + Len(back) = Len(head)
    BY <1>1
  <2>3. QED
    BY <2>1, <2>2
<1>7. QED
  BY <1>1, <1>2, <1>4, <1>5, <1>6

\* What the three functions print of a plain method.
LEMMA SameHead ==
  ASSUME NEW d \in Decls, d.maker = "ReflectMethod", d.kind = "method", NEW params
  PROVE  LET mi   == Made(d, params)
             text == Forwarding(mi, ForwardingAll) \o Trailing(mi, TrailingAll)
         IN  \E head, e, b \in Texts :
               /\ Words(head) \cap Ending = {}
               /\ Words(e) \subseteq Ending /\ Words(b) \subseteq Ending
               /\ text = head \o e /\ Decl(d) = head \o b
               /\ b = <<>> <=> ~HasBody(d)
<1> DEFINE mi    == Made(d, params)
           front == SaidBefore(Flags(d))
           rt    == <<"return type">>
           back  == SaidAfter(Flags(d))
           head  == front \o rt \o back
           e     == End(mi, TrailingAll)
           whole == <<"open brace", "statement", "close brace">>
           b     == IF HasBody(d) THEN whole ELSE <<>>
<1>1. mi.is = Flags(d) /\ mi.hasReturnType = TRUE
  BY MadeOf
<1>2. /\ SaidBefore(ForwardingAll \cap Flags(d)) = front
      /\ SaidAfter(TrailingAll \cap Flags(d)) = back
  <2>1. Specifiers \subseteq ForwardingAll /\ Trailers \subseteq TrailingAll
    BY DEF ForwardingAll, TrailingAll
  <2>2. /\ Specifiers \cap (ForwardingAll \cap Flags(d)) = Specifiers \cap Flags(d)
        /\ Trailers \cap (TrailingAll \cap Flags(d)) = Trailers \cap Flags(d)
    BY <2>1
  <2>3. QED
    BY <2>2, SameWords
<1>3. /\ front \in Texts /\ Words(front) \subseteq Specifiers
      /\ back \in Texts /\ Words(back) \subseteq Trailers
  BY BeforeWords, AfterWords
<1>4. rt \in Texts /\ Words(rt) = {"return type"} /\ Said("return type", ForwardingAll) = rt
  <2>1. "return type" \in ForwardingAll /\ "return type" \in Phrases
    BY DEF ForwardingAll, Phrases
  <2>2. Said("return type", ForwardingAll) = rt
    BY <2>1 DEF Said
  <2>3. Said("return type", ForwardingAll) \in Texts
        /\ Words(Said("return type", ForwardingAll)) = {"return type"} \cap ForwardingAll
    BY <2>1, SaidWord
  <2>4. QED
    BY <2>1, <2>2, <2>3
<1>5. e \in Texts /\ Words(e) \subseteq Ending
  BY EndWords
<1>6. b \in Texts /\ Words(b) \subseteq Ending /\ (b = <<>> <=> ~HasBody(d))
  <2>1. <<>> \in Texts /\ Words(<<>>) = {}
    BY DEF Texts, Words
  <2>2. whole \in Texts /\ Words(whole) \subseteq Ending /\ whole # <<>>
    <3>1. /\ whole \in Seq(Ending) /\ DOMAIN whole = 1..Len(whole) /\ whole # <<>>
          /\ whole \in Seq(Phrases)
      BY DEF Ending, Phrases
    <3> HIDE DEF whole
    <3>2. Words(whole) \subseteq Ending
      BY <3>1 DEF Words
    <3>3. QED
      BY <3>1, <3>2 DEF Texts
  <2>3. QED
    BY <2>1, <2>2
<1>7. Forwarding(mi, ForwardingAll) = front \o rt
  BY <1>1, <1>2, <1>4 DEF Forwarding
<1>8. Trailing(mi, TrailingAll) = back \o e
  BY <1>1, <1>2 DEF Trailing, End
<1>9. Decl(d) = head \o b
  BY DEF Decl
<1> HIDE DEF mi, front, rt, back, e, b
<1>10. /\ front \o rt \in Texts /\ Words(front \o rt) = Words(front) \cup Words(rt)
       /\ head \in Texts /\ Words(head) = Words(front \o rt) \cup Words(back)
  BY <1>3, <1>4, TwoTexts
<1>11. Words(head) \cap Ending = {}
  <2>1. (Specifiers \cup {"return type"} \cup Trailers) \cap Ending = {}
    BY DEF Specifiers, Trailers, Qualifying, Ending
  <2>2. QED
    BY <1>3, <1>4, <1>10, <2>1
<1>12. (front \o rt) \o (back \o e) = head \o e
  <2>1. \A s, t, u \in Texts : (s \o t) \o u = s \o (t \o u)
    BY ConcatAssociative DEF Texts
  <2>2. QED
    <3>1. (front \o rt) \o (back \o e) = ((front \o rt) \o back) \o e
      <4>1. front \o rt \in Texts /\ back \in Texts /\ e \in Texts
        BY <1>3, <1>5, <1>10
      <4>2. QED
        BY <2>1, <4>1
    <3>2. QED
      BY <3>1 DEF head
<1>13. QED
  BY <1>5, <1>6, <1>7, <1>8, <1>9, <1>10, <1>11, <1>12 DEF mi

\* printMethodDecl and the other two, of any plain method.
THEOREM DeclsAgree == ClassSpec => []DeclAgreesWithParts
<1>1. MethodInv /\ PrintInv => DeclAgreesWithParts
  <2> DEFINE text == printed.forwarding \o printed.trailing
             decl == printed.decl
  <2> SUFFICES ASSUME MethodInv, PrintInv, decl # NoMethod, declared.kind = "method",
                      printed.options = ForwardingAll \cup TrailingAll
               PROVE  /\ BeforeBody(decl) = BeforeBody(text)
                      /\ \A i \in BeforeBody(decl) : decl[i] = text[i]
                      /\ (BeforeBody(decl) # DOMAIN decl) = HasBody(declared)
    BY DEF DeclAgreesWithParts
  <2>1. methodInfo # NoMethod /\ declared.maker = "ReflectMethod" /\ decl = Decl(declared)
    BY DEF PrintInv
  <2>2. /\ "body" \in TrailingAll /\ "body" \notin ForwardingAll
        /\ "return type" \in ForwardingAll /\ "return type" \notin TrailingAll
    BY DEF ForwardingAll, TrailingAll, Specifiers, Trailers, Qualifying
  <2>3. /\ printed.forwarding = Forwarding(methodInfo, ForwardingAll)
        /\ printed.trailing = Trailing(methodInfo, TrailingAll)
    <3>1. ArePrinted(methodInfo, printed.forwarding, printed.trailing, printed.options)
      BY DEF PrintInv
    <3>2. \A f \in ForwardingMasks : "body" \notin f /\ ("return type" \in f => f = ForwardingAll)
      BY <2>2 DEF ForwardingMasks
    <3>3. \A t \in TrailingMasks : "return type" \notin t /\ ("body" \in t => t = TrailingAll)
      BY <2>2 DEF TrailingMasks
    <3>4. "body" \in printed.options /\ "return type" \in printed.options
      BY <2>2
    <3>5. QED
      BY <3>1, <3>2, <3>3, <3>4 DEF ArePrinted
  <2>4. declared \in Decls /\ \E params : methodInfo = Made(declared, params)
    BY <2>1 DEF MethodInv
  <2>5. PICK params : methodInfo = Made(declared, params)
    BY <2>4
  <2>6. PICK head, e, b \in Texts :
          /\ Words(head) \cap Ending = {}
          /\ Words(e) \subseteq Ending /\ Words(b) \subseteq Ending
          /\ text = head \o e /\ decl = head \o b
          /\ b = <<>> <=> ~HasBody(declared)
    <3>1. \E head, e, b \in Texts :
            /\ Words(head) \cap Ending = {}
            /\ Words(e) \subseteq Ending /\ Words(b) \subseteq Ending
            /\ Forwarding(Made(declared, params), ForwardingAll)
                 \o Trailing(Made(declared, params), TrailingAll) = head \o e
            /\ Decl(declared) = head \o b
            /\ b = <<>> <=> ~HasBody(declared)
      BY <2>1, <2>4, SameHead
    <3>2. text = Forwarding(Made(declared, params), ForwardingAll)
                   \o Trailing(Made(declared, params), TrailingAll)
      BY <2>3, <2>5
    <3> HIDE DEF text
    <3>3. QED
      BY <2>1, <3>1, <3>2
  <2> HIDE DEF text, decl
  <2>7. /\ BeforeBody(text) = 1..Len(head)
        /\ \A i \in 1..Len(head) : text[i] = head[i]
    BY <2>6, HeadOfText
  <2>8. /\ BeforeBody(decl) = 1..Len(head)
        /\ \A i \in 1..Len(head) : decl[i] = head[i]
        /\ BeforeBody(decl) = DOMAIN decl <=> b = <<>>
    BY <2>6, HeadOfText
  <2>9. HasBody(declared) \in BOOLEAN
    BY DEF HasBody
  <2>10. QED
    BY <2>6, <2>7, <2>8, <2>9
<1>2. QED
  BY <1>1, MethodInvariance, PrintInvariance, PTL

-------------------------------------------------------------------------------
(* Which layers of a type the TypeInfos know.                              *)

\* The levels that PointersOf counts.
Levels(infos) == UNION {{n} \X (1..infos[n].pointers) : n \in DOMAIN infos}

\* TypeInfos that can be counted.
Countable(infos) ==
  /\ infos \in Seq(Elements(infos))
  /\ \A n \in DOMAIN infos : infos[n].pointers \in Nat
  /\ IsFiniteSet(Levels(infos))

LEMMA LevelsAre ==
  ASSUME NEW infos, NEW q
  PROVE  q \in Levels(infos) <=>
           \E n \in DOMAIN infos : \E v \in 1..infos[n].pointers : q = <<n, v>>
BY DEF Levels

\* A TypeInfo in front of others.
LEMMA OneMore ==
  ASSUME NEW x, NEW l, Countable(l)
  PROVE  LET m == <<x>> \o l
         IN  /\ m \in Seq(Elements(m)) /\ DOMAIN m = 1..(Len(l) + 1)
             /\ m[1] = x /\ \A n \in DOMAIN l : m[n + 1] = l[n]
             /\ Len(l) \in Nat /\ DOMAIN l = 1..Len(l)
<1> DEFINE S == Elements(l) \cup {x}
           m == <<x>> \o l
<1>1. l \in Seq(S) /\ <<x>> \in Seq(S) /\ Len(<<x>>) = 1 /\ <<x>>[1] = x
  BY DEF Countable
<1> HIDE DEF S
<1>2. Len(l) \in Nat /\ DOMAIN l = 1..Len(l)
  BY <1>1
<1>3. /\ m \in Seq(S) /\ Len(m) = 1 + Len(l)
      /\ \A i \in 1..(1 + Len(l)) : m[i] = IF i <= 1 THEN <<x>>[i] ELSE l[i - 1]
  BY <1>1, ConcatProperties
<1> HIDE DEF m
<1>4. m \in Seq(Elements(m)) /\ DOMAIN m = 1..(Len(l) + 1)
  BY <1>2, <1>3, Own
<1>5. m[1] = x
  BY <1>1, <1>2, <1>3
<1>6. ASSUME NEW n \in 1..Len(l) PROVE m[n + 1] = l[n]
  <2>1. n + 1 \in 1..(1 + Len(l)) /\ ~(n + 1 <= 1) /\ n + 1 - 1 = n
    BY <1>2
  <2>2. m[n + 1] = l[n + 1 - 1]
    BY <1>3, <2>1
  <2>3. QED
    BY <2>1, <2>2
<1>7. QED
  BY <1>2, <1>4, <1>5, <1>6 DEF m

\* The levels of all but the first, one place further.
LEMMA Shifted ==
  ASSUME NEW P, IsFiniteSet(P), \A q \in P : \E n \in Nat, v \in Nat : q = <<n, v>>
  PROVE  LET Q == {<<q[1] + 1, q[2]>> : q \in P}
         IN  IsFiniteSet(Q) /\ Cardinality(Q) = Cardinality(P)
<1> DEFINE Q == {<<q[1] + 1, q[2]>> : q \in P}
           f == [q \in P |-> <<q[1] + 1, q[2]>>]
<1>1. f \in [P -> Q] /\ \A u \in Q : \E q \in P : f[q] = u
  OBVIOUS
<1>2. ASSUME NEW q \in P, NEW r \in P, f[q] = f[r] PROVE q = r
  <2>1. PICK n \in Nat, v \in Nat : q = <<n, v>>
    OBVIOUS
  <2>2. PICK m \in Nat, w \in Nat : r = <<m, w>>
    OBVIOUS
  <2>3. f[q] = <<n + 1, v>> /\ f[r] = <<m + 1, w>>
    BY <2>1, <2>2
  <2>4. n + 1 = m + 1 /\ v = w
    BY <1>2, <2>3
  <2>5. n = m
    BY <2>4
  <2>6. QED
    BY <2>1, <2>2, <2>4, <2>5
<1> HIDE DEF f, Q
<1>3. f \in Bijection(P, Q)
  BY <1>1, <1>2 DEF Bijection, Injection, Surjection, IsInjective
<1>4. ExistsBijection(P, Q)
  BY <1>3 DEF ExistsBijection
<1>5. QED
  BY <1>4, FS_Bijection DEF Q

\* What one more TypeInfo adds.
LEMMA OneMoreCounts ==
  ASSUME NEW x, x.pointers \in Nat, NEW l, Countable(l)
  PROVE  LET m == <<x>> \o l
         IN  /\ Countable(m)
             /\ PointersOf(m) = x.pointers + PointersOf(l)
             /\ QualifiersOf(m) = x.quals \cup QualifiersOf(l)
<1> DEFINE m == <<x>> \o l
           A == {1} \X (1..x.pointers)
           B == {<<q[1] + 1, q[2]>> : q \in Levels(l)}
<1>1. /\ m \in Seq(Elements(m)) /\ DOMAIN m = 1..(Len(l) + 1)
      /\ m[1] = x /\ \A n \in DOMAIN l : m[n + 1] = l[n]
      /\ Len(l) \in Nat /\ DOMAIN l = 1..Len(l)
  BY OneMore
<1> HIDE DEF m
<1>2. \A n \in DOMAIN m : n = 1 \/ (n - 1 \in DOMAIN l /\ m[n] = l[n - 1])
  <2>1. \A n \in 1..(Len(l) + 1) : n = 1 \/ (n - 1 \in 1..Len(l) /\ (n - 1) + 1 = n)
    BY <1>1
  <2>2. QED
    BY <1>1, <2>1
<1>3. 1 \in DOMAIN m /\ \A n \in DOMAIN l : n + 1 \in DOMAIN m /\ n \in Nat
  BY <1>1
<1>4. \A n \in DOMAIN m : m[n].pointers \in Nat
  BY <1>1, <1>2 DEF Countable
<1>5. ASSUME NEW q \in Levels(l)
      PROVE  \E n \in DOMAIN l : \E v \in 1..l[n].pointers : q = <<n, v>> /\ n \in Nat /\ v \in Nat
  <2>1. PICK n \in DOMAIN l : \E w \in 1..l[n].pointers : q = <<n, w>>
    BY LevelsAre
  <2>1a. PICK v \in 1..l[n].pointers : q = <<n, v>>
    BY <2>1
  <2>2. l[n].pointers \in Nat
    BY DEF Countable
  <2>3. QED
    BY <1>3, <2>1, <2>2
<1>6. IsFiniteSet(A) /\ Cardinality(A) = x.pointers
  <2>1. IsFiniteSet({1}) /\ Cardinality({1}) = 1
    BY FS_Singleton
  <2>2. IsFiniteSet(1..x.pointers) /\ Cardinality(1..x.pointers) = x.pointers
    BY FS_Interval
  <2>3. Cardinality(A) = Cardinality({1}) * Cardinality(1..x.pointers) /\ IsFiniteSet(A)
    BY <2>1, <2>2, FS_Product
  <2>4. QED
    BY <2>1, <2>2, <2>3
<1>7. IsFiniteSet(B) /\ Cardinality(B) = Cardinality(Levels(l))
  <2>1. \A q \in Levels(l) : \E n \in Nat, v \in Nat : q = <<n, v>>
    BY <1>5
  <2>2. QED
    BY <2>1, Shifted DEF Countable
<1>8. A \cap B = {}
  <2> SUFFICES ASSUME NEW q \in Levels(l), <<q[1] + 1, q[2]>> \in A PROVE FALSE
    OBVIOUS
  <2>1. PICK n \in Nat, v \in Nat : q = <<n, v>> /\ n \in DOMAIN l
    BY <1>5
  <2>2. n + 1 = 1 /\ n >= 1
    BY <1>1, <2>1
  <2>3. QED
    BY <2>2
<1>9. Levels(m) = A \cup B
  <2>1. ASSUME NEW q \in Levels(m) PROVE q \in A \cup B
    <3>1. PICK n \in DOMAIN m : \E w \in 1..m[n].pointers : q = <<n, w>>
      BY <2>1, LevelsAre
    <3>1a. PICK v \in 1..m[n].pointers : q = <<n, v>>
      BY <3>1
    <3>2. CASE n = 1
      BY <1>1, <3>1a, <3>2
    <3>3. CASE n # 1
      <4>1. n - 1 \in DOMAIN l /\ m[n] = l[n - 1] /\ (n - 1) + 1 = n
        BY <1>1, <1>2, <3>3
      <4>2. <<n - 1, v>> \in Levels(l)
        BY <3>1a, <4>1, LevelsAre
      <4>3. q = << <<n - 1, v>>[1] + 1, <<n - 1, v>>[2] >>
        <5>1. <<n - 1, v>>[1] = n - 1 /\ <<n - 1, v>>[2] = v
          OBVIOUS
        <5>2. q = <<n, v>>
          BY <3>1a
        <5>3. QED
          BY <4>1, <5>1, <5>2
      <4>4. QED
        BY <4>2, <4>3
    <3>4. QED
      BY <3>2, <3>3
  <2>2. ASSUME NEW q \in A PROVE q \in Levels(m)
    <3>1. PICK v \in 1..x.pointers : q = <<1, v>>
      BY <2>2
    <3>2. QED
      BY <1>1, <1>3, <3>1, LevelsAre
  <2>3. ASSUME NEW q \in Levels(l) PROVE <<q[1] + 1, q[2]>> \in Levels(m)
    <3>1. PICK n \in DOMAIN l : \E w \in 1..l[n].pointers : q = <<n, w>>
      BY <2>3, LevelsAre
    <3>1a. PICK v \in 1..l[n].pointers : q = <<n, v>>
      BY <3>1
    <3>2. n + 1 \in DOMAIN m /\ v \in 1..m[n + 1].pointers
      BY <1>1, <1>3
    <3>3. <<n + 1, v>> \in Levels(m)
      BY <3>2, LevelsAre
    <3>4. <<q[1] + 1, q[2]>> = <<n + 1, v>>
      BY <3>1a
    <3>5. QED
      BY <3>3, <3>4
  <2>4. QED
    BY <2>1, <2>2, <2>3
<1>10. IsFiniteSet(Levels(m)) /\ Cardinality(Levels(m)) = x.pointers + Cardinality(Levels(l))
  <2> HIDE DEF A, B
  <2>1. /\ IsFiniteSet(A \cup B)
        /\ Cardinality(A \cup B) = Cardinality(A) + Cardinality(B) - Cardinality(A \cap B)
    BY <1>6, <1>7, FS_Union
  <2>2. Cardinality(A \cap B) = 0 /\ Cardinality(Levels(l)) \in Nat
    BY <1>8, FS_EmptySet, FS_CardinalityType DEF Countable
  <2>3. Cardinality(A \cup B) = x.pointers + Cardinality(Levels(l))
    BY <1>6, <1>7, <2>1, <2>2
  <2>4. QED
    BY <1>9, <2>1, <2>3
<1>11. QualifiersOf(m) = x.quals \cup QualifiersOf(l)
  <2>1. ASSUME NEW w \in QualifiersOf(m) PROVE w \in x.quals \cup QualifiersOf(l)
    <3>1. PICK n \in DOMAIN m : w \in m[n].quals
      BY <2>1 DEF QualifiersOf
    <3>2. QED
      BY <1>1, <1>2, <3>1 DEF QualifiersOf
  <2>2. ASSUME NEW w \in x.quals PROVE w \in QualifiersOf(m)
    BY <1>1, <1>3, <2>2 DEF QualifiersOf
  <2>3. ASSUME NEW w \in QualifiersOf(l) PROVE w \in QualifiersOf(m)
    <3>1. PICK n \in DOMAIN l : w \in l[n].quals
      BY <2>3 DEF QualifiersOf
    <3>2. QED
      BY <1>1, <1>3, <3>1 DEF QualifiersOf
  <2>4. QED
    BY <2>1, <2>2, <2>3
<1>12. QED
  BY <1>1, <1>4, <1>10, <1>11 DEF m, Countable, PointersOf, Levels

\* CanonicalQuals, of any type.
QualsFrom(t, i) ==
  UNION {t[j].quals : j \in {k \in i..Len(t) : \A l \in i..(k - 1) : t[l].class \in SeenThrough}}

\* What a visitor that has come to these layers is told of the qualifiers.
Told(t, S) == UNION {QualsFrom(t, i) : i \in S}

\* The layer at which the visitor stops, and those it comes to.
Stop(t) ==
  CHOOSE i \in 1..Len(t) :
    /\ t[i].class \in Unvisited \cup Leaves
    /\ \A j \in 1..(i - 1) : t[j].class \notin Unvisited \cup Leaves

PointersIn(t) == {i \in 1..Stop(t) : t[i].class = "Pointer"}
ArraysIn(t)   == {i \in 1..Stop(t) : t[i].class = "ConstantArray"}

LEMMA StopFacts ==
  ASSUME NEW t, IsType(t)
  PROVE  /\ Len(t) \in Nat /\ DOMAIN t = 1..Len(t)
         /\ Stop(t) \in Nat \ {0} /\ Stop(t) <= Len(t) /\ 1..Stop(t) \subseteq 1..Len(t)
         /\ t[Stop(t)].class \in Unvisited \cup Leaves
         /\ \A j \in 1..(Stop(t) - 1) : t[j].class \notin Unvisited \cup Leaves
<1> DEFINE S == {i \in 1..Len(t) : t[i].class \in Unvisited \cup Leaves}
<1>1. Len(t) \in Nat \ {0} /\ DOMAIN t = 1..Len(t)
  BY DEF IsType
<1>2. Len(t) \in 1..Len(t)
  BY <1>1
<1>3. Len(t) \in S /\ S \in SUBSET Nat
  BY <1>1, <1>2 DEF IsType
<1>4. PICK m \in S : \A k \in S : m <= k
  BY <1>3, SmallestInt
<1>5. ASSUME NEW j \in 1..(m - 1) PROVE t[j].class \notin Unvisited \cup Leaves
  <2>1. j \in 1..Len(t) /\ ~(m <= j)
    BY <1>1
  <2>2. QED
    BY <1>4, <2>1
<1>6. \E i \in 1..Len(t) : /\ t[i].class \in Unvisited \cup Leaves
                           /\ \A j \in 1..(i - 1) : t[j].class \notin Unvisited \cup Leaves
  BY <1>5
<1> HIDE DEF S
<1>7. /\ Stop(t) \in 1..Len(t) /\ t[Stop(t)].class \in Unvisited \cup Leaves
      /\ \A j \in 1..(Stop(t) - 1) : t[j].class \notin Unvisited \cup Leaves
  BY <1>6 DEF Stop
<1>8. \A n \in Nat : \A s \in 1..n : s \in Nat \ {0} /\ s <= n /\ 1..s \subseteq 1..n
  OBVIOUS
<1>9. QED
  BY <1>1, <1>7, <1>8

\* The layers between an array and an array of such arrays: their TypeInfo is
\* dropped.
Flattened(t) ==
  {i \in 1..Stop(t) :
     \E a, b \in ArraysIn(t) :
       a < i /\ i <= b /\ \A j \in (a + 1)..(b - 1) : t[j].class \notin Nesting}

\* The TypeInfo knows the layers from a to b.
Tells(t, info, a, b) ==
  /\ info.quals = Told(t, a..b)
  /\ info.pointers = Cardinality(PointersIn(t) \cap (a..b))
  /\ info.type = "Array" <=> b >= a /\ t[b].class = "ConstantArray"

\* The TypeInfos know the layers from a on that are not flattened.
Keeps(t, infos, a) ==
  /\ Countable(infos)
  /\ QualifiersOf(infos) = Told(t, (a..Stop(t)) \ Flattened(t))
  /\ PointersOf(infos) = Cardinality((PointersIn(t) \ Flattened(t)) \cap (a..Stop(t)))

\* The layers from a to b are those that one TypeInfo is made of.
Segment(t, a, b) ==
  /\ a \in 1..Stop(t) /\ b \in a..Stop(t)
  /\ a = 1 \/ t[a - 1].class \in Nesting
  /\ \A i \in a..(b - 1) : t[i].class \notin Nesting
  /\ b = Stop(t) \/ t[b].class \in Nesting

LEMMA SegmentNat ==
  ASSUME NEW t, IsType(t), NEW a, NEW b, a \in 1..Stop(t), b \in a..Stop(t)
  PROVE  /\ Stop(t) \in Nat
         /\ a \in Nat /\ b \in Nat /\ a <= b /\ b <= Stop(t) /\ b \in 1..Stop(t)
<1>1. Stop(t) \in Nat
  BY StopFacts
<1>2. QED
  BY <1>1

\* A TypeInfo is dropped as a whole.
LEMMA FlattenedSegment ==
  ASSUME NEW t, IsType(t), NEW a, NEW b, Segment(t, a, b), NEW i \in a..b
  PROVE  i \in Flattened(t) <=>
           a > 1 /\ t[a - 1].class = "ConstantArray" /\ t[b].class = "ConstantArray"
<1>1. /\ Stop(t) \in Nat /\ a \in 1..Stop(t) /\ b \in a..Stop(t)
      /\ \A j \in 1..Stop(t) : t[j].class = "ConstantArray" => t[j].class \in Nesting
  BY StopFacts DEF Segment, Nesting
<1>2. ASSUME NEW p \in ArraysIn(t), NEW q \in ArraysIn(t), p < i, i <= q,
             \A j \in (p + 1)..(q - 1) : t[j].class \notin Nesting
      PROVE  a > 1 /\ p = a - 1 /\ q = b
  <2>1. /\ p \in 1..Stop(t) /\ t[p].class \in Nesting
        /\ q \in 1..Stop(t) /\ t[q].class \in Nesting
    BY <1>1 DEF ArraysIn
  <2>2. p \notin a..(b - 1) /\ q \notin a..(b - 1)
    BY <2>1 DEF Segment
  <2>3. p < a /\ a > 1
    BY <1>1, <1>2, <2>1, <2>2
  <2>4. a - 1 \notin (p + 1)..(q - 1)
    BY <1>2, <2>3 DEF Segment
  <2>5. p = a - 1
    BY <1>1, <1>2, <2>1, <2>3, <2>4
  <2>6. q >= b
    BY <1>1, <1>2, <2>1, <2>2
  <2>7. q = b
    <3>1. CASE b = Stop(t)
      <4>1. Stop(t) \in Nat /\ q \in 1..Stop(t)
        BY <1>1, <2>1
      <4>2. QED
        BY <2>6, <3>1, <4>1
    <3>2. CASE t[b].class \in Nesting
      <4>1. b \notin (p + 1)..(q - 1)
        BY <1>2, <3>2
      <4>2. QED
        BY <1>1, <1>2, <2>1, <2>6, <4>1
    <3>3. QED
      BY <3>1, <3>2 DEF Segment
  <2>8. QED
    BY <2>3, <2>5, <2>7
<1>3. ASSUME i \in Flattened(t)
      PROVE  a > 1 /\ t[a - 1].class = "ConstantArray" /\ t[b].class = "ConstantArray"
  <2>1. PICK p \in ArraysIn(t), q \in ArraysIn(t) :
          p < i /\ i <= q /\ \A j \in (p + 1)..(q - 1) : t[j].class \notin Nesting
    BY <1>3 DEF Flattened
  <2>2. a > 1 /\ p = a - 1 /\ q = b
    BY <1>2, <2>1
  <2>3. QED
    BY <2>2 DEF ArraysIn
<1>4. ASSUME a > 1, t[a - 1].class = "ConstantArray", t[b].class = "ConstantArray"
      PROVE  i \in Flattened(t)
  <2>1. a - 1 \in 1..Stop(t) /\ b \in 1..Stop(t) /\ i \in 1..Stop(t) /\ a - 1 < i /\ i <= b
    BY <1>1, <1>4
  <2>2. a - 1 \in ArraysIn(t) /\ b \in ArraysIn(t)
    BY <1>1, <1>4, <2>1 DEF ArraysIn
  <2>3. \A j \in ((a - 1) + 1)..(b - 1) : t[j].class \notin Nesting
    <3>1. (a - 1) + 1 = a
      BY <1>1
    <3>2. QED
      BY <3>1 DEF Segment
  <2>4. QED
    BY <1>1, <2>1, <2>2, <2>3 DEF Flattened
<1>5. QED
  BY <1>3, <1>4

LEMMA ToldUnion ==
  ASSUME NEW t, NEW S, NEW T
  PROVE  Told(t, S \cup T) = Told(t, S) \cup Told(t, T)
BY DEF Told

LEMMA ToldOne ==
  ASSUME NEW t, NEW i
  PROVE  Told(t, {i}) = QualsFrom(t, i) /\ Told(t, {}) = {}
BY DEF Told

\* Nothing is left.
LEMMA KeepsNone ==
  ASSUME NEW t, IsType(t), NEW a, a = Stop(t) + 1
  PROVE  Keeps(t, <<>>, a)
<1>1. Stop(t) \in Nat
  BY StopFacts
<1>2. a..Stop(t) = {}
  BY <1>1
<1>3. /\ (a..Stop(t)) \ Flattened(t) = {}
      /\ (PointersIn(t) \ Flattened(t)) \cap (a..Stop(t)) = {}
  BY <1>2
<1>4. Levels(<<>>) = {} /\ QualifiersOf(<<>>) = {}
  <2>1. DOMAIN <<>> = {}
    OBVIOUS
  <2>2. QED
    BY <2>1 DEF Levels, QualifiersOf
<1>5. Countable(<<>>)
  BY <1>4, FS_EmptySet DEF Countable
<1>6. PointersOf(<<>>) = Cardinality({})
  BY <1>4 DEF PointersOf, Levels
<1>7. QED
  BY <1>3, <1>4, <1>5, <1>6, ToldOne DEF Keeps

\* The layers of a type can be counted.
LEMMA FiniteLayers ==
  ASSUME NEW t, IsType(t), NEW S, NEW a, NEW b
  PROVE  IsFiniteSet((PointersIn(t) \ S) \cap (a..b)) /\ IsFiniteSet(PointersIn(t) \cap (a..b))
<1>1. IsFiniteSet(1..Stop(t))
  BY StopFacts, FS_Interval
<1>2. /\ (PointersIn(t) \ S) \cap (a..b) \subseteq 1..Stop(t)
      /\ PointersIn(t) \cap (a..b) \subseteq 1..Stop(t)
  BY DEF PointersIn
<1>3. QED
  BY <1>1, <1>2, FS_Subset

\* The TypeInfo of a segment in front of those of the rest.
LEMMA KeepsMore ==
  ASSUME NEW t, IsType(t), NEW a, NEW b, Segment(t, a, b),
         NEW x, Tells(t, x, a, b), NEW l, Keeps(t, l, b + 1),
         ~(a > 1 /\ t[a - 1].class = "ConstantArray" /\ t[b].class = "ConstantArray")
  PROVE  Keeps(t, <<x>> \o l, a)
<1> DEFINE F    == Flattened(t)
           P    == PointersIn(t)
           here == a..b
           rest == (b + 1)..Stop(t)
           A    == P \cap here
           B    == (P \ F) \cap rest
<1>1. Stop(t) \in Nat /\ a \in Nat /\ b \in Nat /\ a <= b /\ b <= Stop(t)
  BY SegmentNat DEF Segment
<1>2. here \cap F = {}
  BY FlattenedSegment
<1>3. a..Stop(t) = here \cup rest /\ here \cap rest = {}
  BY <1>1
<1> HIDE DEF F, P, here, rest
<1>4. /\ (a..Stop(t)) \ F = here \cup (rest \ F)
      /\ (P \ F) \cap (a..Stop(t)) = A \cup B
      /\ A \cap B = {}
  BY <1>2, <1>3
<1>5. Told(t, (a..Stop(t)) \ F) = Told(t, here) \cup Told(t, rest \ F)
  BY <1>4, ToldUnion
<1>6. IsFiniteSet(A) /\ IsFiniteSet(B)
  BY FiniteLayers DEF P, here, rest
<1> HIDE DEF A, B
<1>7. Cardinality(A \cup B) = Cardinality(A) + Cardinality(B)
  <2>1. Cardinality(A \cup B) = Cardinality(A) + Cardinality(B) - Cardinality(A \cap B)
    BY <1>6, FS_Union
  <2>2. Cardinality(A \cap B) = 0 /\ Cardinality(A) \in Nat /\ Cardinality(B) \in Nat
    BY <1>4, <1>6, FS_EmptySet, FS_CardinalityType
  <2>3. QED
    BY <2>1, <2>2
<1>8. /\ x.quals = Told(t, here) /\ x.pointers = Cardinality(A)
      /\ Countable(l) /\ QualifiersOf(l) = Told(t, rest \ F)
      /\ PointersOf(l) = Cardinality(B)
  BY DEF Tells, Keeps, A, B, P, F, here, rest
<1>9. x.pointers \in Nat
  BY <1>6, <1>8, FS_CardinalityType
<1>10. /\ Countable(<<x>> \o l)
       /\ PointersOf(<<x>> \o l) = x.pointers + PointersOf(l)
       /\ QualifiersOf(<<x>> \o l) = x.quals \cup QualifiersOf(l)
  BY <1>8, <1>9, OneMoreCounts
<1>11. /\ QualifiersOf(<<x>> \o l) = Told(t, (a..Stop(t)) \ F)
       /\ PointersOf(<<x>> \o l) = Cardinality((P \ F) \cap (a..Stop(t)))
  BY <1>4, <1>5, <1>7, <1>8, <1>10
<1>12. QED
  BY <1>10, <1>11 DEF Keeps, F, P

\* A segment that is dropped.
LEMMA KeepsLess ==
  ASSUME NEW t, IsType(t), NEW a, NEW b, Segment(t, a, b), NEW l, Keeps(t, l, b + 1),
         a > 1, t[a - 1].class = "ConstantArray", t[b].class = "ConstantArray"
  PROVE  Keeps(t, l, a)
<1> DEFINE F    == Flattened(t)
           P    == PointersIn(t)
           here == a..b
           rest == (b + 1)..Stop(t)
<1>1. Stop(t) \in Nat /\ a \in Nat /\ b \in Nat /\ a <= b /\ b <= Stop(t)
  BY SegmentNat DEF Segment
<1>2. here \subseteq F
  BY FlattenedSegment
<1>3. a..Stop(t) = here \cup rest
  BY <1>1
<1>4. Countable(l) /\ QualifiersOf(l) = Told(t, rest \ F)
      /\ PointersOf(l) = Cardinality((P \ F) \cap rest)
  BY DEF Keeps
<1> HIDE DEF F, P, here, rest
<1>5. /\ (a..Stop(t)) \ F = rest \ F
      /\ (P \ F) \cap (a..Stop(t)) = (P \ F) \cap rest
  BY <1>2, <1>3
<1>6. QED
  BY <1>4, <1>5 DEF Keeps, F, P

\* The TypeInfo knows one layer more.
LEMMA TellsNext ==
  ASSUME NEW t, IsType(t), NEW a, NEW b, a \in 1..Stop(t), b \in a..Stop(t),
         NEW old, Tells(t, old, a, b - 1), NEW new,
         new.quals = old.quals \cup QualsFrom(t, b),
         new.pointers = IF t[b].class = "Pointer" THEN old.pointers + 1 ELSE old.pointers,
         new.type = "Array" <=> t[b].class = "ConstantArray"
  PROVE  Tells(t, new, a, b)
<1> DEFINE P   == PointersIn(t)
           A   == P \cap (a..(b - 1))
           all == P \cap (a..b)
<1>1. a \in Nat /\ b \in Nat /\ a <= b /\ b \in 1..Stop(t)
  BY SegmentNat
<1>2. a..b = (a..(b - 1)) \cup {b} /\ b \notin a..(b - 1)
  BY <1>1
<1>3. Told(t, a..b) = Told(t, a..(b - 1)) \cup QualsFrom(t, b)
  <2>1. Told(t, {b}) = QualsFrom(t, b)
    BY ToldOne
  <2>2. Told(t, (a..(b - 1)) \cup {b}) = Told(t, a..(b - 1)) \cup Told(t, {b})
    BY ToldUnion
  <2>3. QED
    BY <1>2, <2>1, <2>2
<1>4. new.quals = Told(t, a..b)
  BY <1>3 DEF Tells
<1>5. b \in P <=> t[b].class = "Pointer"
  BY <1>1 DEF PointersIn
<1>6. IsFiniteSet(A) /\ old.pointers = Cardinality(A)
  BY FiniteLayers DEF Tells
<1>7. all = IF b \in P THEN A \cup {b} ELSE A
  BY <1>2
<1>8. b \notin A
  BY <1>2
<1> HIDE DEF A, P, all
<1>9. Cardinality(all) = IF b \in P THEN Cardinality(A) + 1 ELSE Cardinality(A)
  <2>1. Cardinality(A \cup {b}) = Cardinality(A) + 1
    BY <1>6, <1>8, FS_AddElement
  <2>2. QED
    BY <1>7, <2>1
<1>10. new.pointers = Cardinality(all)
  BY <1>5, <1>6, <1>9
<1>11. QED
  BY <1>1, <1>4, <1>10 DEF Tells, all, P

\* The TypeInfo of a call of Create knows nothing yet.
LEMMA TellsNothing ==
  ASSUME NEW t, NEW a \in Nat, NEW b, b = a - 1
  PROVE  Tells(t, Fresh, a, b)
<1>1. a..b = {} /\ ~(b >= a)
  OBVIOUS
<1>2. Fresh.quals = {} /\ Fresh.pointers = 0 /\ Fresh.type # "Array"
  BY DEF Fresh
<1>3. PointersIn(t) \cap (a..b) = {}
  BY <1>1
<1>4. QED
  BY <1>1, <1>2, <1>3, ToldOne, FS_EmptySet DEF Tells

\* The call of Create that has come to the layer pos, and began at a.
Visits(t, info, a, pos) ==
  /\ a \in 1..Stop(t) /\ pos \in a..Stop(t)
  /\ a = 1 \/ t[a - 1].class \in Nesting
  /\ \A i \in a..(pos - 1) : t[i].class \notin Nesting
  /\ Tells(t, info, a, pos - 1)
  /\ info.inner = <<>>

\* The call that waits for what is inside.
Waits(t, info, a, b) ==
  /\ Segment(t, a, b) /\ t[b].class \in Nesting
  /\ Tells(t, info, a, b)
  /\ info.inner = <<>>

\* The call that is about to return.
Complete(t, info, a, b) ==
  /\ Segment(t, a, b)
  /\ Tells(t, info, a, b)
  /\ Keeps(t, info.inner, b + 1)

\* What the visitor adds to a TypeInfo at a layer.
Adds(t, pos, old, new) ==
  /\ new.quals = old.quals \cup QualsFrom(t, pos)
  /\ new.pointers = IF t[pos].class = "Pointer" THEN old.pointers + 1 ELSE old.pointers
  /\ new.inner = old.inner

LEMMA VisitsNat ==
  ASSUME NEW t, IsType(t), NEW info, NEW a, NEW pos, Visits(t, info, a, pos)
  PROVE  /\ Stop(t) \in Nat
         /\ a \in Nat /\ 1 <= a /\ pos \in Nat /\ a <= pos /\ pos <= Stop(t)
         /\ pos \in 1..Stop(t)
         /\ info.type # "Array"
<1>1. a \in 1..Stop(t) /\ pos \in a..Stop(t)
  BY DEF Visits
<1>2. /\ Stop(t) \in Nat
      /\ a \in Nat /\ pos \in Nat /\ a <= pos /\ pos <= Stop(t) /\ pos \in 1..Stop(t)
  BY <1>1, SegmentNat
<1>3. pos - 1 >= a => t[pos - 1].class # "ConstantArray"
  <2>1. pos - 1 >= a => pos - 1 \in a..(pos - 1)
    BY <1>2
  <2>2. QED
    BY <2>1 DEF Visits, Nesting
<1>4. info.type # "Array"
  BY <1>3 DEF Visits, Tells
<1>5. QED
  BY <1>1, <1>2, <1>4

\* A layer at which no other call begins.
LEMMA VisitTells ==
  ASSUME NEW t, IsType(t), NEW old, NEW a, NEW pos, Visits(t, old, a, pos),
         t[pos].class \notin Nesting,
         NEW new, Adds(t, pos, old, new), new.type = old.type \/ new.type # "Array"
  PROVE  /\ a \in 1..Stop(t) /\ pos \in a..Stop(t)
         /\ a = 1 \/ t[a - 1].class \in Nesting
         /\ \A i \in a..pos : t[i].class \notin Nesting
         /\ Tells(t, new, a, pos) /\ new.inner = <<>>
<1>1. /\ Stop(t) \in Nat
      /\ a \in Nat /\ 1 <= a /\ pos \in Nat /\ a <= pos /\ pos <= Stop(t)
      /\ old.type # "Array"
  BY VisitsNat
<1>2. a \in 1..Stop(t) /\ pos \in a..Stop(t)
  BY <1>1
<1>3. new.type # "Array" /\ t[pos].class # "ConstantArray"
  BY <1>1 DEF Nesting
<1>4. Tells(t, new, a, pos)
  <2>1. Tells(t, old, a, pos - 1)
    BY DEF Visits
  <2>2. QED
    BY <1>2, <1>3, <2>1, TellsNext DEF Adds
<1>5. new.inner = <<>> /\ (a = 1 \/ t[a - 1].class \in Nesting)
  BY DEF Adds, Visits
<1>6. \A i \in a..pos : t[i].class \notin Nesting
  <2>1. \A i \in a..pos : i = pos \/ i \in a..(pos - 1)
    BY <1>1
  <2>2. QED
    BY <2>1 DEF Visits
<1>7. QED
  BY <1>2, <1>4, <1>5, <1>6

\* It is the one at which the visitor stops.
LEMMA StopNext ==
  ASSUME NEW t, IsType(t), NEW old, NEW a, NEW pos, Visits(t, old, a, pos),
         t[pos].class \notin Nesting, pos = Stop(t),
         NEW new, Adds(t, pos, old, new), new.type = old.type \/ new.type # "Array"
  PROVE  Complete(t, new, a, pos)
<1>1. /\ a \in 1..Stop(t) /\ pos \in a..Stop(t)
      /\ a = 1 \/ t[a - 1].class \in Nesting
      /\ \A i \in a..pos : t[i].class \notin Nesting
      /\ Tells(t, new, a, pos) /\ new.inner = <<>>
  BY VisitTells
<1>2. \A i \in a..(pos - 1) : i \in a..pos
  BY <1>1
<1>3. Segment(t, a, pos)
  BY <1>1, <1>2 DEF Segment
<1>4. Keeps(t, <<>>, pos + 1)
  BY KeepsNone
<1>5. QED
  BY <1>1, <1>3, <1>4 DEF Complete

\* It is any that has a Visit function.
LEMMA VisitNext ==
  ASSUME NEW t, IsType(t), NEW old, NEW a, NEW pos, Visits(t, old, a, pos),
         t[pos].class \notin Nesting \cup Unvisited,
         NEW new, Adds(t, pos, old, new), new.type = old.type \/ new.type # "Array"
  PROVE  /\ pos + 1 <= Len(t) => Visits(t, new, a, pos + 1)
         /\ ~(pos + 1 <= Len(t)) => Complete(t, new, a, pos)
<1>1. /\ Stop(t) \in Nat /\ Len(t) \in Nat /\ Stop(t) <= Len(t)
      /\ a \in Nat /\ pos \in Nat /\ a <= pos /\ pos <= Stop(t) /\ pos \in 1..Len(t)
  BY VisitsNat, StopFacts
<1>2. pos = Stop(t) => pos = Len(t)
  <2>1. pos = Stop(t) => t[pos].class \in Leaves
    BY StopFacts
  <2>2. t[pos].class \in Leaves => pos = Len(t)
    BY <1>1 DEF IsType
  <2>3. QED
    BY <2>1, <2>2
<1>3. /\ a \in 1..Stop(t)
      /\ a = 1 \/ t[a - 1].class \in Nesting
      /\ \A i \in a..pos : t[i].class \notin Nesting
      /\ Tells(t, new, a, pos) /\ new.inner = <<>>
  BY VisitTells
<1>4. ASSUME pos + 1 <= Len(t)
      PROVE  Visits(t, new, a, pos + 1)
  <2>1. pos # Stop(t)
    BY <1>1, <1>2, <1>4
  <2>2. pos + 1 \in a..Stop(t) /\ (pos + 1) - 1 = pos
    BY <1>1, <2>1
  <2>3. QED
    BY <1>3, <2>2 DEF Visits
<1>5. ASSUME ~(pos + 1 <= Len(t))
      PROVE  Complete(t, new, a, pos)
  <2>1. pos = Stop(t)
    BY <1>1, <1>5
  <2>2. QED
    BY <2>1, StopNext
<1>6. QED
  BY <1>4, <1>5

\* A layer at which another call begins.
LEMMA NestNext ==
  ASSUME NEW t, IsType(t), NEW old, NEW a, NEW pos, Visits(t, old, a, pos),
         t[pos].class \in Nesting,
         NEW new, Adds(t, pos, old, new),
         new.type = "Array" <=> t[pos].class = "ConstantArray"
  PROVE  /\ Waits(t, new, a, pos)
         /\ pos + 1 \in 1..Stop(t) /\ Visits(t, Fresh, pos + 1, pos + 1)
<1>1. /\ Stop(t) \in Nat
      /\ a \in Nat /\ 1 <= a /\ pos \in Nat /\ a <= pos /\ pos <= Stop(t) /\ pos \in 1..Stop(t)
  BY VisitsNat
<1>2. a \in 1..Stop(t) /\ pos \in a..Stop(t)
  BY <1>1
<1>3. pos # Stop(t)
  <2>1. t[pos].class \notin Unvisited \cup Leaves
    BY DEF Nesting, Unvisited, Leaves, Named
  <2>2. QED
    BY <2>1, StopFacts
<1>4. Tells(t, new, a, pos)
  <2>1. Tells(t, old, a, pos - 1)
    BY DEF Visits
  <2>2. QED
    BY <1>2, <2>1, TellsNext DEF Adds
<1>5. Waits(t, new, a, pos)
  BY <1>2, <1>4 DEF Waits, Visits, Segment, Adds
<1>6. pos + 1 \in 1..Stop(t) /\ pos + 1 \in Nat /\ (pos + 1) - 1 = pos
      /\ pos + 1 \in (pos + 1)..Stop(t) /\ (pos + 1)..pos = {}
  BY <1>1, <1>3
<1>7. Tells(t, Fresh, pos + 1, pos)
  BY <1>6, TellsNothing
<1>8. Fresh.inner = <<>>
  BY DEF Fresh
<1>9. Visits(t, Fresh, pos + 1, pos + 1)
  BY <1>6, <1>7, <1>8 DEF Visits
<1>10. QED
  BY <1>5, <1>6, <1>9

\* What is inside has been made.
LEMMA ReturnNext ==
  ASSUME NEW t, IsType(t), NEW outer, NEW a, NEW b, Waits(t, outer, a, b - 1), b \in 1..Stop(t),
         NEW inner, NEW c, Complete(t, inner, b, c),
         NEW new, new.quals = outer.quals, new.pointers = outer.pointers,
         new.type = outer.type, new.inner = Item(outer, inner)
  PROVE  Complete(t, new, a, b - 1)
<1>1. Segment(t, a, b - 1) /\ Tells(t, outer, a, b - 1) /\ Tells(t, inner, b, c)
      /\ Segment(t, b, c) /\ Keeps(t, inner.inner, c + 1)
  BY DEF Waits, Complete
<1>2. /\ Stop(t) \in Nat /\ a \in Nat /\ b - 1 >= a /\ b \in Nat /\ c \in Nat /\ c >= b
      /\ a >= 1
  <2>1. /\ a \in 1..Stop(t) /\ b - 1 \in a..Stop(t) /\ b \in 1..Stop(t) /\ c \in b..Stop(t)
    BY <1>1 DEF Segment
  <2>2. /\ Stop(t) \in Nat /\ a \in Nat /\ b - 1 \in Nat /\ a <= b - 1
        /\ b \in Nat /\ c \in Nat /\ b <= c
    BY <2>1, SegmentNat
  <2>3. QED
    BY <2>1, <2>2
<1>3. b > 1 /\ (b - 1) + 1 = b
  BY <1>2
<1>4. /\ outer.type = "Array" <=> t[b - 1].class = "ConstantArray"
      /\ inner.type = "Array" <=> t[c].class = "ConstantArray"
  BY <1>1, <1>2 DEF Tells
<1>5. Keeps(t, Item(outer, inner), b)
  <2>1. CASE outer.type = "Array" /\ inner.type = "Array"
    <3>1. Keeps(t, inner.inner, b)
      BY <1>1, <1>3, <1>4, <2>1, KeepsLess
    <3>2. QED
      BY <2>1, <3>1 DEF Item
  <2>2. CASE ~(outer.type = "Array" /\ inner.type = "Array")
    <3>1. Keeps(t, <<inner>> \o inner.inner, b)
      BY <1>1, <1>4, <2>2, KeepsMore
    <3>2. QED
      BY <2>2, <3>1 DEF Item
  <2>3. QED
    BY <2>1, <2>2
<1>6. Tells(t, new, a, b - 1)
  BY <1>1 DEF Tells
<1>7. QED
  BY <1>1, <1>3, <1>5, <1>6 DEF Complete

\* All is made.
LEMMA AllMade ==
  ASSUME NEW t, IsType(t), NEW info, NEW b, Complete(t, info, 1, b)
  PROVE  Keeps(t, <<info>> \o info.inner, 1)
<1>1. Segment(t, 1, b) /\ Tells(t, info, 1, b) /\ Keeps(t, info.inner, b + 1)
  BY DEF Complete
<1>2. ~(1 > 1)
  OBVIOUS
<1>3. QED
  BY <1>1, <1>2, KeepsMore

\* Where the calls of Create have begun: all but the last wait.
Stacked(t, pos, fr, start) ==
  /\ start \in [1..Len(fr) -> 1..Stop(t)] /\ start[1] = 1
  /\ \A f \in 1..(Len(fr) - 1) : Waits(t, fr[f], start[f], start[f + 1] - 1)
  /\ pos <= Len(t) => Visits(t, fr[Len(fr)], start[Len(fr)], pos)
  /\ ~(pos <= Len(t)) => \E b : Complete(t, fr[Len(fr)], start[Len(fr)], b)

\* The TypeInfos that are being filled in know the layers that have been visited,
\* and what Create returns knows all that is not flattened.
LayersInv ==
  /\ frames # <<>> => \E start : Stacked(type, at, frames, start)
  /\ Done => Keeps(type, Infos, 1)

\* The visitor has changed the TypeInfo at the top.
LEMMA StackedTop ==
  ASSUME NEW t, NEW pos, NEW fr, NEW start, Stacked(t, pos, fr, start),
         NEW new, NEW k \in Nat \ {0}, Len(fr) = k, Len(new) = k,
         \A i \in 1..(k - 1) : new[i] = fr[i],
         NEW to, to <= Len(t) => Visits(t, new[k], start[k], to),
         ~(to <= Len(t)) => \E b : Complete(t, new[k], start[k], b)
  PROVE  Stacked(t, to, new, start)
BY DEF Stacked

\* One more call of Create.
LEMMA StackedMore ==
  ASSUME NEW t, NEW pos, NEW fr, NEW start, Stacked(t, pos, fr, start),
         NEW new, NEW k \in Nat \ {0}, Len(fr) = k, Len(new) = k + 1,
         \A i \in 1..(k - 1) : new[i] = fr[i],
         NEW to, to <= Len(t), to \in 1..Stop(t), Waits(t, new[k], start[k], to - 1),
         Visits(t, new[k + 1], to, to)
  PROVE  \E more : Stacked(t, to, new, more)
<1> DEFINE more == [f \in 1..(k + 1) |-> IF f = k + 1 THEN to ELSE start[f]]
<1>1. start \in [1..k -> 1..Stop(t)] /\ start[1] = 1
  BY DEF Stacked
<1>2. \A f \in 1..(k + 1) : f = k + 1 \/ (f # k + 1 /\ f \in 1..k)
  OBVIOUS
<1>3. more \in [1..(k + 1) -> 1..Stop(t)]
  BY <1>1, <1>2
<1>4. more[k + 1] = to /\ (\A f \in 1..k : more[f] = start[f]) /\ 1 \in 1..k /\ k \in 1..k
  OBVIOUS
<1> HIDE DEF more
<1>5. ASSUME NEW f \in 1..k
      PROVE  Waits(t, new[f], more[f], more[f + 1] - 1)
  <2>1. CASE f = k
    BY <1>4, <2>1
  <2>2. CASE f # k
    <3>1. f \in 1..(k - 1) /\ f + 1 \in 1..k
      BY <2>2
    <3>2. Waits(t, fr[f], start[f], start[f + 1] - 1)
      BY <3>1 DEF Stacked
    <3>3. QED
      BY <1>4, <3>1, <3>2
  <2>3. QED
    BY <2>1, <2>2
<1>6. (k + 1) - 1 = k
  OBVIOUS
<1>7. more[1] = 1
  BY <1>1, <1>4
<1>8. Stacked(t, to, new, more)
  BY <1>3, <1>4, <1>5, <1>6, <1>7 DEF Stacked
<1>9. QED
  BY <1>8

\* The last call has returned.
LEMMA StackedLess ==
  ASSUME NEW t, NEW pos, NEW fr, NEW start, Stacked(t, pos, fr, start), ~(pos <= Len(t)),
         NEW new, NEW k \in Nat \ {0}, Len(fr) = k + 1, Len(new) = k,
         \A i \in 1..(k - 1) : new[i] = fr[i],
         \E b : Complete(t, new[k], start[k], b)
  PROVE  \E less : Stacked(t, pos, new, less)
<1> DEFINE less == [f \in 1..k |-> start[f]]
<1>1. start \in [1..(k + 1) -> 1..Stop(t)] /\ start[1] = 1
  BY DEF Stacked
<1>2. \A f \in 1..k : f \in 1..(k + 1)
  OBVIOUS
<1>3. less \in [1..k -> 1..Stop(t)]
  BY <1>1, <1>2
<1>4. (\A f \in 1..k : less[f] = start[f]) /\ 1 \in 1..k /\ k \in 1..k
  OBVIOUS
<1> HIDE DEF less
<1>5. ASSUME NEW f \in 1..(k - 1)
      PROVE  Waits(t, new[f], less[f], less[f + 1] - 1)
  <2>1. f \in 1..k /\ f + 1 \in 1..k /\ f \in 1..((k + 1) - 1)
    OBVIOUS
  <2>2. Waits(t, fr[f], start[f], start[f + 1] - 1)
    BY <2>1 DEF Stacked
  <2>3. QED
    BY <1>4, <2>1, <2>2
<1>6. less[1] = 1 /\ \E b : Complete(t, new[k], less[k], b)
  BY <1>1, <1>4
<1>7. Stacked(t, pos, new, less)
  BY <1>3, <1>5, <1>6 DEF Stacked
<1>8. QED
  BY <1>7

\* What Create keeps when it notes a layer at which no other call begins.
LEMMA NoteLayers ==
  ASSUME TypeInv, LayersInv, Visiting, Layer.class \notin Nesting \cup Unvisited,
         NEW info, Note(info), Adds(type, at, Top, info),
         info.type = Top.type \/ info.type # "Array"
  PROVE  LayersInv'
<1> DEFINE k == Len(frames)
<1>1. /\ frames' = Append(Below, info) /\ at' = at + 1
      /\ type' = type /\ created' = created
  BY DEF Note
<1>2. ~Done /\ frames # <<>> /\ IsType(type) /\ at \in 1..Len(type) /\ at <= Len(type)
      /\ Layer = type[at]
  BY LayerFacts DEF Visiting
<1>3. /\ k \in Nat \ {0} /\ Len(frames') = k /\ frames' # <<>>
      /\ frames'[k] = info /\ \A i \in 1..(k - 1) : frames'[i] = frames[i]
  <2> DEFINE new == Append(Below, info)
  <2>1. /\ Len(new) = Len(frames) /\ new # <<>> /\ new[Len(frames)] = info
        /\ \A i \in 1..(Len(frames) - 1) : new[i] = frames[i]
    BY <1>2, Replaced
  <2>2. frames' = new
    BY <1>1
  <2>3. k \in Nat \ {0}
    BY <1>2, Stack
  <2> HIDE DEF new
  <2>4. QED
    BY <2>1, <2>2, <2>3
<1>4. PICK start : Stacked(type, at, frames, start)
  BY <1>2 DEF LayersInv
<1>5. Visits(type, Top, start[k], at)
  BY <1>2, <1>4 DEF Stacked, Top
<1>6. /\ at + 1 <= Len(type) => Visits(type, info, start[k], at + 1)
      /\ ~(at + 1 <= Len(type)) => Complete(type, info, start[k], at)
  BY <1>2, <1>5, VisitNext
<1>7. Stacked(type, at + 1, frames', start)
  BY <1>3, <1>4, <1>6, StackedTop
<1>8. ~Done'
  BY <1>1, <1>2 DEF Done
<1>9. QED
  BY <1>1, <1>7, <1>8 DEF LayersInv

\* At each layer the visitor asks for the qualifiers, and the pointers are counted.
LEMMA QualifiedAdds ==
  ASSUME TypeInv, Visiting
  PROVE  /\ Qualified(Top).quals = Top.quals \cup QualsFrom(type, at)
         /\ Qualified(Top).pointers = Top.pointers /\ Qualified(Top).inner = Top.inner
         /\ Qualified(Top).type = Top.type
         /\ DOMAIN Qualified(Top) = Fields
<1>1. DOMAIN Top = Fields
  BY LayerFacts, Stack DEF IsInfo
<1>2. CanonicalQuals(at) = QualsFrom(type, at)
  BY DEF CanonicalQuals, QualsFrom
<1>3. QED
  BY <1>1, <1>2 DEF Qualified, Fields

\* The names do not tell layers.
LEMMA NamesAddNothing ==
  ASSUME NEW info, DOMAIN info = Fields, NEW namespace, NEW scope, NEW name,
         NEW new, new = WithNames(info, namespace, scope, name)
  PROVE  /\ new.quals = info.quals /\ new.pointers = info.pointers /\ new.inner = info.inner
         /\ DOMAIN new = Fields /\ new.type = info.type
BY DEF Fields, WithNames

LEMMA SugarLayers == TypeInv /\ LayersInv /\ VisitSugar => LayersInv'
<1> SUFFICES ASSUME TypeInv, LayersInv, VisitSugar PROVE LayersInv'
  OBVIOUS
<1>1. Visiting /\ Layer.class \in Sugar /\ Note(Qualified(Top))
  BY DEF VisitSugar
<1>2. Adds(type, at, Top, Qualified(Top)) /\ Qualified(Top).type = Top.type
      /\ Layer.class \notin Nesting \cup Unvisited
  BY <1>1, LayerFacts, QualifiedAdds DEF Adds, Sugar, Nesting, Unvisited
<1>3. QED
  BY <1>1, <1>2, NoteLayers

\* The layer at which the visitor stops is the last that it tells of.
LEMMA OtherLayers == TypeInv /\ LayersInv /\ VisitOther => LayersInv'
<1> SUFFICES ASSUME TypeInv, LayersInv, VisitOther PROVE LayersInv'
  OBVIOUS
<1> DEFINE k    == Len(frames)
           info == Qualified(Top)
<1>1. /\ Visiting /\ Layer.class \in Unvisited \cup {"Other"}
      /\ frames' = Append(Below, info) /\ at' = Len(type) + 1
      /\ type' = type /\ created' = created
  BY DEF VisitOther
<1>2. /\ ~Done /\ frames # <<>> /\ IsType(type) /\ Len(type) \in Nat
      /\ at \in 1..Len(type) /\ at <= Len(type) /\ Layer = type[at]
  BY <1>1, LayerFacts DEF Visiting
<1>3. Adds(type, at, Top, info) /\ info.type = Top.type /\ Layer.class \notin Nesting
  BY <1>1, <1>2, QualifiedAdds DEF Adds, Nesting, Unvisited
<1> HIDE DEF info
<1>4. /\ k \in Nat \ {0} /\ Len(frames') = k
      /\ frames'[k] = info /\ \A i \in 1..(k - 1) : frames'[i] = frames[i]
  <2> DEFINE new == Append(Below, info)
  <2>1. /\ Len(new) = Len(frames) /\ new[Len(frames)] = info
        /\ \A i \in 1..(Len(frames) - 1) : new[i] = frames[i]
    BY <1>2, Replaced
  <2>2. frames' = new
    BY <1>1
  <2>3. k \in Nat \ {0}
    BY <1>2, Stack
  <2> HIDE DEF new
  <2>4. QED
    BY <2>1, <2>2, <2>3
<1>5. PICK start : Stacked(type, at, frames, start)
  BY <1>2 DEF LayersInv
<1>6. Visits(type, Top, start[k], at)
  BY <1>2, <1>5 DEF Stacked, Top
<1>7. at = Stop(type)
  <2>1. at \in Nat /\ at <= Stop(type) /\ at >= 1
    BY <1>2, <1>6, VisitsNat
  <2>2. Layer.class \in Unvisited \cup Leaves
    BY <1>1 DEF Leaves
  <2>3. at \notin 1..(Stop(type) - 1)
    BY <1>2, <2>2, StopFacts
  <2>4. Stop(type) \in Nat
    BY <1>2, StopFacts
  <2>5. QED
    BY <2>1, <2>3, <2>4
<1>8. Complete(type, info, start[k], at)
  BY <1>2, <1>3, <1>6, <1>7, StopNext
<1>9. ~(Len(type) + 1 <= Len(type))
  BY <1>2
<1> DEFINE to == Len(type) + 1
<1>10. Stacked(type, to, frames', start)
  <2>1. ~(to <= Len(type)) /\ \E b : Complete(type, frames'[k], start[k], b)
    BY <1>4, <1>8, <1>9
  <2> HIDE DEF to
  <2>2. QED
    BY <1>4, <1>5, <2>1, StackedTop
<1>11. ~Done'
  BY <1>1, <1>2 DEF Done
<1>12. QED
  BY <1>1, <1>10, <1>11 DEF LayersInv

LEMMA ReferenceLayers == TypeInv /\ LayersInv /\ VisitReferenceType => LayersInv'
<1> SUFFICES ASSUME TypeInv, LayersInv, VisitReferenceType PROVE LayersInv'
  OBVIOUS
<1> DEFINE old == Qualified(Top)
           one == [old EXCEPT !.reference = @ \/ SpelledAsLValue]
           new == [one EXCEPT !.rvReference = @ \/ ~SpelledAsLValue]
<1>1. Visiting /\ Layer.class \in References
      /\ Note([old EXCEPT !.reference = @ \/ SpelledAsLValue,
                          !.rvReference = @ \/ ~SpelledAsLValue])
  BY DEF VisitReferenceType
<1>2. Note(new)
  BY <1>1
<1>3. /\ new.quals = old.quals /\ new.pointers = old.pointers
      /\ new.inner = old.inner /\ new.type = old.type
  BY <1>1, QualifiedAdds DEF Fields
<1> HIDE DEF new
<1>4. Adds(type, at, Top, new) /\ new.type = Top.type /\ Layer.class \notin Nesting \cup Unvisited
  BY <1>1, <1>3, LayerFacts, QualifiedAdds DEF Adds, References, Nesting, Unvisited
<1>5. QED
  BY <1>1, <1>2, <1>4, NoteLayers

LEMMA PointerLayers == TypeInv /\ LayersInv /\ VisitPointerType => LayersInv'
<1> SUFFICES ASSUME TypeInv, LayersInv, VisitPointerType PROVE LayersInv'
  OBVIOUS
<1> DEFINE old == Qualified(Top)
           new == [old EXCEPT !.pointers = @ + 1]
<1>1. Visiting /\ Layer.class = "Pointer" /\ Note(new)
  BY DEF VisitPointerType
<1>2. /\ new.quals = old.quals /\ new.pointers = old.pointers + 1
      /\ new.inner = old.inner /\ new.type = old.type
  BY <1>1, QualifiedAdds DEF Fields
<1> HIDE DEF new
<1>3. Adds(type, at, Top, new) /\ new.type = Top.type /\ Layer.class \notin Nesting \cup Unvisited
  BY <1>1, <1>2, LayerFacts, QualifiedAdds DEF Adds, Nesting, Unvisited
<1>4. QED
  BY <1>1, <1>3, NoteLayers

LEMMA BuiltinLayers == TypeInv /\ LayersInv /\ VisitBuiltinType => LayersInv'
<1> SUFFICES ASSUME TypeInv, LayersInv, VisitBuiltinType PROVE LayersInv'
  OBVIOUS
<1> DEFINE old  == Qualified(Top)
           one  == [old EXCEPT !.type = "Builtin"]
           name == IF BuiltinClass(Layer.kind) = "Extended" THEN <<>> ELSE <<Layer.kind>>
           new  == WithNames(one, <<>>, <<>>, name)
<1>1. Visiting /\ Layer.class = "Builtin" /\ Note(new)
  BY DEF VisitBuiltinType
<1>2. /\ one.quals = old.quals /\ one.pointers = old.pointers
      /\ one.inner = old.inner /\ one.type = "Builtin" /\ DOMAIN one = Fields
  BY <1>1, QualifiedAdds DEF Fields
<1> HIDE DEF one, name
<1>3. /\ new.quals = old.quals /\ new.pointers = old.pointers
      /\ new.inner = old.inner /\ new.type = "Builtin"
  BY <1>2, NamesAddNothing
<1> HIDE DEF new
<1>4. Adds(type, at, Top, new) /\ new.type # "Array" /\ Layer.class \notin Nesting \cup Unvisited
  BY <1>1, <1>3, LayerFacts, QualifiedAdds DEF Adds, Nesting, Unvisited
<1>5. QED
  BY <1>1, <1>4, NoteLayers

LEMMA NamedLayers == TypeInv /\ LayersInv /\ VisitNamedType => LayersInv'
<1> SUFFICES ASSUME TypeInv, LayersInv, VisitNamedType PROVE LayersInv'
  OBVIOUS
<1> DEFINE old == Qualified(Top)
           one == [old EXCEPT !.type = Layer.class]
           new == NamedByDecl(one)
<1>1. Visiting /\ Layer.class \in Named /\ Note(new)
  BY DEF VisitNamedType
<1>2. /\ one.quals = old.quals /\ one.pointers = old.pointers
      /\ one.inner = old.inner /\ one.type = Layer.class /\ DOMAIN one = Fields
  BY <1>1, QualifiedAdds DEF Fields
<1> HIDE DEF one
<1>3. /\ new.quals = old.quals /\ new.pointers = old.pointers
      /\ new.inner = old.inner /\ new.type = Layer.class
  BY <1>2, NamesAddNothing DEF NamedByDecl
<1> HIDE DEF new
<1>4. Adds(type, at, Top, new) /\ new.type # "Array" /\ Layer.class \notin Nesting \cup Unvisited
  BY <1>1, <1>3, LayerFacts, QualifiedAdds DEF Adds, Nesting, Unvisited, Named
<1>5. QED
  BY <1>1, <1>4, NoteLayers

LEMMA UnnamedLayers == TypeInv /\ LayersInv /\ VisitUnnamedType => LayersInv'
<1> SUFFICES ASSUME TypeInv, LayersInv, VisitUnnamedType PROVE LayersInv'
  OBVIOUS
<1> DEFINE old == Qualified(Top)
           new == [old EXCEPT !.type = Layer.class]
<1>1. Visiting /\ Layer.class \in {"Decltype", "TemplateTypeParm"} /\ Note(new)
  BY DEF VisitUnnamedType
<1>2. /\ new.quals = old.quals /\ new.pointers = old.pointers
      /\ new.inner = old.inner /\ new.type = Layer.class
  BY <1>1, QualifiedAdds DEF Fields
<1> HIDE DEF new
<1>3. Adds(type, at, Top, new) /\ new.type # "Array" /\ Layer.class \notin Nesting \cup Unvisited
  BY <1>1, <1>2, LayerFacts, QualifiedAdds DEF Adds, Nesting, Unvisited
<1>4. QED
  BY <1>1, <1>3, NoteLayers

\* No layer is visited.
LEMMA LayersStand == LayersInv /\ UNCHANGED <<type, at, frames, created>> => LayersInv'
<1> SUFFICES ASSUME LayersInv, UNCHANGED <<type, at, frames, created>> PROVE LayersInv'
  OBVIOUS
<1>1. type' = type /\ at' = at /\ frames' = frames /\ created' = created
  OBVIOUS
<1>2. QED
  BY <1>1 DEF LayersInv, Done, Infos

LEMMA SpecializationLayers ==
  TypeInv /\ LayersInv /\ VisitTemplateSpecializationType => LayersInv'
<1> SUFFICES ASSUME TypeInv, LayersInv, VisitTemplateSpecializationType PROVE LayersInv'
  OBVIOUS
<1> DEFINE old   == Qualified(Top)
           named == NamedByDecl(old)
           known == WellKnown(named)
           kind  == IF known = "none" THEN "Template" ELSE "WellKnownType"
           one   == [named EXCEPT !.wellKnown = known]
           new   == [one EXCEPT !.type = kind]
<1>1. /\ Visiting /\ Layer.class = "TemplateSpecialization"
      /\ \/ UNCHANGED <<type, at, frames, created>>
         \/ Note([named EXCEPT !.wellKnown = known, !.type = kind])
  BY DEF VisitTemplateSpecializationType, Note
<1>2. /\ named.quals = old.quals /\ named.pointers = old.pointers
      /\ named.inner = old.inner /\ DOMAIN named = Fields
  BY <1>1, QualifiedAdds, NamesAddNothing DEF NamedByDecl
<1> HIDE DEF named, known
<1>3. /\ new.quals = old.quals /\ new.pointers = old.pointers
      /\ new.inner = old.inner /\ new.type = kind
  BY <1>2 DEF Fields
<1>4. CASE UNCHANGED <<type, at, frames, created>>
  BY <1>4, LayersStand
<1>5. CASE Note([named EXCEPT !.wellKnown = known, !.type = kind])
  <2>1. Note(new)
    BY <1>5
  <2> HIDE DEF new
  <2>2. Adds(type, at, Top, new) /\ new.type # "Array" /\ Layer.class \notin Nesting \cup Unvisited
    BY <1>1, <1>3, LayerFacts, QualifiedAdds DEF Adds, Nesting, Unvisited
  <2>3. QED
    BY <1>1, <2>1, <2>2, NoteLayers
<1>6. QED
  BY <1>1, <1>4, <1>5

LEMMA NestingLayers == TypeInv /\ LayersInv /\ VisitNesting => LayersInv'
<1> SUFFICES ASSUME TypeInv, LayersInv, VisitNesting PROVE LayersInv'
  OBVIOUS
<1> DEFINE old   == Qualified(Top)
           array == [old EXCEPT !.type = "Array"]
           one   == [old EXCEPT !.type = "Template"]
           outer == IF Layer.class = "ConstantArray" THEN array ELSE NamedByDecl(one)
           k     == Len(frames)
<1>1. /\ Visiting /\ Layer.class \in Nesting
      /\ frames' = Append(Append(Below, outer), Fresh) /\ at' = at + 1
      /\ type' = type /\ created' = created
  BY DEF VisitNesting
<1>2. /\ ~Done /\ frames # <<>> /\ IsType(type) /\ Len(type) \in Nat
      /\ at \in 1..Len(type) /\ at <= Len(type) /\ Layer = type[at]
  BY <1>1, LayerFacts DEF Visiting
<1>3. /\ outer.quals = old.quals /\ outer.pointers = old.pointers /\ outer.inner = old.inner
      /\ outer.type = IF Layer.class = "ConstantArray" THEN "Array" ELSE "Template"
  <2>1. /\ one.quals = old.quals /\ one.pointers = old.pointers
        /\ one.inner = old.inner /\ one.type = "Template" /\ DOMAIN one = Fields
    BY <1>1, QualifiedAdds DEF Fields
  <2>2. /\ array.quals = old.quals /\ array.pointers = old.pointers
        /\ array.inner = old.inner /\ array.type = "Array"
    BY <1>1, QualifiedAdds DEF Fields
  <2> HIDE DEF array, one
  <2>3. LET named == NamedByDecl(one)
        IN  /\ named.quals = old.quals /\ named.pointers = old.pointers
            /\ named.inner = old.inner /\ named.type = "Template"
    BY <2>1, NamesAddNothing DEF NamedByDecl
  <2>4. QED
    BY <2>2, <2>3
<1> HIDE DEF outer
<1>4. /\ Adds(type, at, Top, outer)
      /\ outer.type = "Array" <=> type[at].class = "ConstantArray"
  BY <1>1, <1>2, <1>3, QualifiedAdds DEF Adds, Nesting
<1>5. IsPushed(frames, frames', outer, Fresh)
  BY <1>1, <1>2, Pushed
<1>6. /\ k \in Nat \ {0} /\ Len(frames') = k + 1 /\ frames'[k + 1] = Fresh /\ frames'[k] = outer
      /\ \A i \in 1..(k - 1) : frames'[i] = frames[i]
  BY <1>5 DEF IsPushed
<1>7. PICK start : Stacked(type, at, frames, start)
  BY <1>2 DEF LayersInv
<1>8. Visits(type, Top, start[k], at)
  BY <1>2, <1>7 DEF Stacked, Top
<1>9. /\ Waits(type, outer, start[k], at)
      /\ at + 1 \in 1..Stop(type) /\ Visits(type, Fresh, at + 1, at + 1)
  BY <1>1, <1>2, <1>4, <1>8, NestNext
<1>10. at + 1 <= Len(type) /\ (at + 1) - 1 = at
  <2>1. at \in Nat /\ Len(type) \in Nat /\ 1..Stop(type) \subseteq 1..Len(type)
    BY <1>2, StopFacts
  <2>2. QED
    BY <1>9, <2>1
<1> HIDE DEF k
<1>11. \E more : Stacked(type, at + 1, frames', more)
  <2> DEFINE to == at + 1
  <2>1. /\ to <= Len(type) /\ to \in 1..Stop(type)
        /\ Waits(type, frames'[k], start[k], to - 1) /\ Visits(type, frames'[k + 1], to, to)
    BY <1>6, <1>9, <1>10
  <2>2. Len(frames) = k
    BY DEF k
  <2> HIDE DEF to
  <2>3. \E more : Stacked(type, to, frames', more)
    BY <1>6, <1>7, <2>1, <2>2, StackedMore
  <2>4. QED
    BY <2>3 DEF to
<1>12. ~Done'
  BY <1>1, <1>2 DEF Done
<1>13. QED
  BY <1>1, <1>11, <1>12 DEF LayersInv

LEMMA VisitorLayers == TypeInv /\ LayersInv /\ ReturnToVisitor => LayersInv'
<1> SUFFICES ASSUME TypeInv, LayersInv, ReturnToVisitor PROVE LayersInv'
  OBVIOUS
<1> DEFINE k    == Len(frames) - 1
           item == Item(Below[Len(Below)], Top)
<1>1. /\ Unwrapped /\ Len(frames) > 1 /\ frames # <<>>
      /\ frames' = [Below EXCEPT ![Len(Below)].inner = item]
      /\ type' = type /\ at' = at /\ created' = created
  BY DEF ReturnToVisitor, Unwrapped
<1>2. IsType(type) /\ ~Done /\ at > Len(type) /\ at \in 1..(Len(type) + 1)
      /\ \A i \in DOMAIN frames : DOMAIN frames[i] = Fields
  BY <1>1 DEF TypeInv, Unwrapped, IsInfo
<1>3. ~(at <= Len(type))
  <2>1. Len(type) \in Nat
    BY <1>2 DEF IsType
  <2>2. at \in Nat
    BY <1>2, <2>1
  <2>3. QED
    BY <1>2, <2>1, <2>2
<1>4. IsPopped(frames, frames', Below, item)
  BY <1>1, Popped
<1>5. /\ k \in Nat \ {0} /\ Len(Below) = k /\ Below[k] = frames[k]
      /\ Len(frames') = k /\ frames'[k] = [frames[k] EXCEPT !.inner = item]
      /\ \A i \in 1..(k - 1) : frames'[i] = frames[i]
  BY <1>4 DEF IsPopped
<1>6. Len(frames) = k + 1 /\ k \in DOMAIN frames /\ k \in 1..(Len(frames) - 1)
  <2>1. Len(frames) \in Nat /\ DOMAIN frames = 1..Len(frames)
    BY <1>1, Stack
  <2>2. QED
    BY <1>5, <2>1
<1>7. Top = frames[k + 1] /\ item = Item(frames[k], Top)
  BY <1>5, <1>6 DEF Top
<1>8. PICK start : Stacked(type, at, frames, start)
  BY <1>1 DEF LayersInv
<1> HIDE DEF k, item
<1>9. /\ Waits(type, frames[k], start[k], start[k + 1] - 1)
      /\ start[k + 1] \in 1..Stop(type)
  <2>1. k + 1 \in 1..Len(frames)
    BY <1>5, <1>6
  <2>2. QED
    BY <1>6, <1>8, <2>1 DEF Stacked
<1>10. PICK b : Complete(type, Top, start[k + 1], b)
  BY <1>3, <1>6, <1>7, <1>8 DEF Stacked
<1> DEFINE new == [frames[k] EXCEPT !.inner = item]
<1>11. /\ new.quals = frames[k].quals /\ new.pointers = frames[k].pointers
       /\ new.type = frames[k].type /\ new.inner = item
  BY <1>2, <1>6 DEF Fields
<1>12. frames'[k] = new
  BY <1>5
<1> HIDE DEF new
<1>13. Complete(type, new, start[k], start[k + 1] - 1)
  BY <1>2, <1>7, <1>9, <1>10, <1>11, ReturnNext
<1>14. \E less : Stacked(type, at, frames', less)
  BY <1>3, <1>5, <1>6, <1>8, <1>12, <1>13, StackedLess
<1>15. ~Done'
  BY <1>1, <1>2 DEF Done
<1>16. QED
  BY <1>1, <1>14, <1>15 DEF LayersInv

LEMMA CallerLayers == TypeInv /\ LayersInv /\ ReturnToCaller => LayersInv'
<1> SUFFICES ASSUME TypeInv, LayersInv, ReturnToCaller PROVE LayersInv'
  OBVIOUS
<1>1. /\ Unwrapped /\ Len(frames) = 1 /\ frames # <<>> /\ Top = frames[1]
      /\ created' = Top /\ frames' = <<>> /\ type' = type
  BY DEF ReturnToCaller, Unwrapped, Top
<1>2. IsType(type) /\ at > Len(type) /\ at \in 1..(Len(type) + 1)
  BY <1>1 DEF TypeInv, Unwrapped
<1>3. ~(at <= Len(type))
  <2>1. Len(type) \in Nat
    BY <1>2 DEF IsType
  <2>2. at \in Nat
    BY <1>2, <2>1
  <2>3. QED
    BY <1>2, <2>1, <2>2
<1>4. PICK start : Stacked(type, at, frames, start)
  BY <1>1 DEF LayersInv
<1>5. PICK b : Complete(type, Top, 1, b)
  BY <1>1, <1>3, <1>4 DEF Stacked
<1>6. Keeps(type, <<Top>> \o Top.inner, 1)
  BY <1>2, <1>5, AllMade
<1>7. Infos' = <<Top>> \o Top.inner
  BY <1>1 DEF Infos
<1>8. QED
  BY <1>1, <1>6, <1>7 DEF LayersInv

LEMMA CallLayers ==
  ASSUME NEW t, IsType(t), CreateForType(t)
  PROVE  LayersInv'
<1>1. type' = t /\ at' = 1 /\ frames' = <<Fresh>> /\ created' = NoInfo
  BY DEF CreateForType
<1>2. /\ Len(<<Fresh>>) = 1 /\ <<Fresh>>[1] = Fresh
  OBVIOUS
<1>3. Len(t) \in Nat /\ Len(t) # 0 /\ Stop(t) \in Nat \ {0}
  BY StopFacts DEF IsType
<1>4. 1 \in 1..Stop(t) /\ 1 <= Len(t) /\ 1 - 1 = 0 /\ 1..0 = {}
  BY <1>3
<1>5. Tells(t, Fresh, 1, 0)
  BY <1>4, TellsNothing
<1>6. Visits(t, Fresh, 1, 1)
  BY <1>4, <1>5 DEF Visits, Fresh
<1> DEFINE start == [f \in 1..1 |-> 1]
<1>7. start \in [1..1 -> 1..Stop(t)] /\ start[1] = 1
  BY <1>4
<1> HIDE DEF start
<1>8. Stacked(t, 1, <<Fresh>>, start)
  BY <1>2, <1>4, <1>6, <1>7 DEF Stacked
<1>9. \E s : Stacked(type', at', frames', s)
  BY <1>1, <1>8
<1>10. ~Done'
  BY <1>1 DEF Done
<1>11. QED
  BY <1>9, <1>10 DEF LayersInv

\* Every step of Create.
LEMMA CreateLayers == TypeInv /\ LayersInv /\ Create => LayersInv'
BY SugarLayers, ReferenceLayers, PointerLayers, BuiltinLayers, NamedLayers, UnnamedLayers,
   OtherLayers, SpecializationLayers, NestingLayers, VisitorLayers, CallerLayers DEF Create

LEMMA PrintLayers ==
  ASSUME LayersInv, NEW what, NEW text, NEW options, NEW failing,
         PrintOnce(what, text, options, failing)
  PROVE  LayersInv'
<1>1. UNCHANGED <<type, at, frames, created>>
  BY DEF PrintOnce
<1>2. QED
  BY <1>1, LayersStand

\* The TypeInfos know the layers of any type, however its arrays and aliases are
\* nested.
THEOREM LayersInvariance == ClassSpec => []LayersInv
<1>1. ClassInit => LayersInv
  BY DEF ClassInit, PrinterInit, TypeInit, LayersInv, Done
<1>2. MethodInv /\ LayersInv /\ [ClassNext]_allVars => LayersInv'
  <2> SUFFICES ASSUME MethodInv, LayersInv, [ClassNext]_allVars PROVE LayersInv'
    OBVIOUS
  <2>1. CASE UNCHANGED typeVars
    BY <2>1, LayersStand DEF typeVars
  <2>2. CASE Create
    BY <2>2, CreateLayers DEF MethodInv
  <2>3. CASE \E d \in Decls : d.params # <<>> /\ CreateForType(d.params[1])
    BY <2>3, DeclsAssumption, CallLayers
  <2>4. CASE UNCHANGED printerVars
    BY <2>1, <2>4 DEF printerVars
  <2>5. CASE forEachDeclaredMethod
    BY <2>1, <2>3, <2>5 DEF forEachDeclaredMethod, Look
  <2>6. CASE PrinterStep
    <3>1. CASE CreateStep
      BY <2>2, <3>1 DEF CreateStep
    <3>2. CASE MakeMethodInfo
      BY <2>1, <3>2 DEF MakeMethodInfo
    <3>3. CASE \E options \in {ForwardingAll, ForwardingAll \ {"return type"}} :
                 PrintMethodForwarding(options)
      BY PrintLayers, <3>3 DEF PrintMethodForwarding
    <3>4. CASE \E options \in {TrailingAll, TrailingAll \ {"body"}} :
                 PrintMethodTrailing(options)
      BY PrintLayers, <3>4 DEF PrintMethodTrailing
    <3>5. CASE PrintMethodDecl
      BY PrintLayers, <3>5 DEF PrintMethodDecl
    <3>6. CASE ForwardMethodParamNames
      BY PrintLayers, <3>6 DEF ForwardMethodParamNames
    <3>7. QED
      BY <2>6, <3>1, <3>2, <3>3, <3>4, <3>5, <3>6 DEF PrinterStep
  <2>7. QED
    BY <2>4, <2>5, <2>6 DEF ClassNext, ListStep, Finished, allVars
<1>3. QED
  BY <1>1, <1>2, MethodInvariance, PTL DEF ClassSpec

\* The layers whose qualifiers the visitor sees.
ShownIn(t) ==
  {j \in 1..Len(t) :
     \E s \in 1..Stop(t) : s <= j /\ \A l \in s..(j - 1) : t[l].class \in SeenThrough}

\* Their qualifiers are what the visitor is told, unless a pointer is dropped.
LEMMA ToldAll ==
  ASSUME NEW t, IsType(t)
  PROVE  /\ \A S \in SUBSET (1..Stop(t)) :
              Told(t, S) \subseteq UNION {t[i].quals : i \in ShownIn(t)}
         /\ PointersIn(t) \cap Flattened(t) = {} =>
              Told(t, (1..Stop(t)) \ Flattened(t)) = UNION {t[i].quals : i \in ShownIn(t)}
<1> DEFINE all == UNION {t[i].quals : i \in ShownIn(t)}
           F   == Flattened(t)
           N   == Stop(t)
           L   == Len(t)
<1>1. /\ L \in Nat /\ N \in Nat /\ N <= L /\ DOMAIN t = 1..L
      /\ \A i \in 1..L : t[i].class \in LayerClasses
      /\ \A i \in 1..(N - 1) : t[i].class \notin Unvisited \cup Leaves
  BY StopFacts DEF IsType
<1>2. ASSUME NEW S \in SUBSET (1..N) PROVE Told(t, S) \subseteq all
  <2>1. \A i \in S : QualsFrom(t, i) \subseteq all
    <3> SUFFICES ASSUME NEW i \in S, NEW j \in i..L, NEW w \in t[j].quals,
                        \A l \in i..(j - 1) : t[l].class \in SeenThrough
                 PROVE  w \in all
      BY DEF QualsFrom
    <3>1. i \in 1..N /\ j \in 1..L /\ i <= j
      BY <1>1
    <3>2. j \in ShownIn(t)
      BY <3>1 DEF ShownIn
    <3>3. QED
      BY <3>2
  <2>2. QED
    BY <2>1 DEF Told
<1>3. ASSUME PointersIn(t) \cap F = {}, NEW j \in ShownIn(t), NEW w \in t[j].quals
      PROVE  w \in Told(t, (1..N) \ F)
  <2> DEFINE M == {m \in 1..N : m <= j /\ \A l \in m..(j - 1) : t[l].class \in SeenThrough}
  <2>1. M # {} /\ M \in SUBSET Nat /\ j \in 1..L
    BY <1>1 DEF ShownIn
  <2>2. PICK m \in M : \A k \in M : m <= k
    BY <2>1, SmallestInt
  <2>3. /\ m \in 1..N /\ m <= j /\ j \in m..L
        /\ \A l \in m..(j - 1) : t[l].class \in SeenThrough
    BY <1>1, <2>1
  <2>4. ASSUME m > 1 PROVE t[m - 1].class \notin SeenThrough
    <3> SUFFICES ASSUME t[m - 1].class \in SeenThrough PROVE FALSE
      OBVIOUS
    <3>1. m - 1 \in 1..N /\ m - 1 <= j /\ ~(m <= m - 1)
      BY <1>1, <2>1, <2>3, <2>4
    <3>2. \A l \in (m - 1)..(j - 1) : l = m - 1 \/ l \in m..(j - 1)
      BY <1>1, <2>1, <2>3
    <3>3. m - 1 \in M
      BY <2>3, <3>1, <3>2
    <3>4. QED
      BY <2>2, <3>1, <3>3
  <2> HIDE DEF M
  <2>5. m \notin F
    <3> SUFFICES ASSUME m \in F PROVE FALSE
      OBVIOUS
    <3>1. PICK a \in ArraysIn(t), b \in ArraysIn(t) :
            a < m /\ m <= b /\ \A i \in (a + 1)..(b - 1) : t[i].class \notin Nesting
      BY DEF Flattened
    <3>2. /\ a \in 1..N /\ b \in 1..N
          /\ t[a].class = "ConstantArray" /\ t[a].class \in SeenThrough
      BY <1>1 DEF ArraysIn, SeenThrough, Nesting
    <3>3. m > 1 /\ m - 1 \in 1..N /\ m - 1 \in 1..L /\ m - 1 \in 1..(N - 1) /\ a <= m - 1
      BY <1>1, <2>3, <3>1, <3>2
    <3>4. t[m - 1].class \notin SeenThrough /\ a # m - 1
      BY <2>4, <3>2, <3>3
    <3>5. a < m - 1 /\ m - 1 <= b /\ a \in 1..((m - 1) - 1) /\ m - 1 # 1
      BY <1>1, <2>3, <3>1, <3>2, <3>3, <3>4
    <3>6. m - 1 \in F
      BY <1>1, <3>1, <3>3, <3>5 DEF Flattened
    <3>7. t[m - 1].class # "Pointer"
      BY <1>1, <1>3, <3>3, <3>6 DEF PointersIn
    <3>8. t[m - 1].class \notin Unvisited \cup Leaves /\ t[m - 1].class # "Decayed"
      BY <1>1, <3>3, <3>5 DEF IsType
    <3>9. t[m - 1].class \in References
      BY <1>1, <3>3, <3>4, <3>7, <3>8 DEF LayerClasses, Sugar, SeenThrough
    <3>10. t[a].class \in {"Elaborated", "Typedef", "AliasTemplate", "Paren"}
      BY <3>3, <3>5, <3>9 DEF IsType
    <3>11. QED
      BY <3>2, <3>10
  <2>6. w \in QualsFrom(t, m)
    BY <2>3 DEF QualsFrom
  <2>7. QED
    BY <2>3, <2>5, <2>6 DEF Told
<1>4. QED
  BY <1>1, <1>2, <1>3

\* The layers that the visitor comes to, and those that it sees.
LEMMA ReachedLayers ==
  ASSUME IsType(type)
  PROVE  /\ Reached = 1..Stop(type) /\ Shown = ShownIn(type)
         /\ LayersOf("ConstantArray") = ArraysIn(type)
         /\ LayersOf("Pointer") = PointersIn(type)
<1>1. /\ Len(type) \in Nat /\ DOMAIN type = 1..Len(type)
      /\ Stop(type) \in Nat \ {0} /\ Stop(type) <= Len(type)
      /\ type[Stop(type)].class \in Unvisited \cup Leaves
      /\ \A j \in 1..(Stop(type) - 1) : type[j].class \notin Unvisited \cup Leaves
      /\ Stop(type) \in 1..Len(type)
  BY StopFacts
<1>2. ASSUME NEW i \in Reached PROVE i \in 1..Stop(type)
  <2> SUFFICES ASSUME i \notin 1..Stop(type) PROVE FALSE
    OBVIOUS
  <2>1. i \in 1..Len(type)
    BY <1>1 DEF Reached
  <2>2. Stop(type) \in 1..(i - 1) /\ Stop(type) # Len(type)
    <3>1. \A n, s \in Nat : \A k \in 1..n : s # 0 /\ k \notin 1..s => s \in 1..(k - 1) /\ s # n
      OBVIOUS
    <3>2. QED
      BY <1>1, <2>1, <3>1
  <2>3. type[Stop(type)].class \notin Unvisited
    BY <2>2 DEF Reached
  <2>4. type[Stop(type)].class \notin Leaves
    BY <1>1, <2>2 DEF IsType
  <2>5. QED
    BY <1>1, <2>3, <2>4
<1>3. ASSUME NEW i \in 1..Stop(type) PROVE i \in Reached
  <2>1. i \in 1..Len(type) /\ \A j \in 1..(i - 1) : j \in 1..(Stop(type) - 1)
    BY <1>1
  <2>2. QED
    BY <1>1, <2>1 DEF Reached
<1>4. Reached = 1..Stop(type)
  BY <1>2, <1>3
<1> HIDE DEF Reached
<1>5. QED
  BY <1>1, <1>4 DEF Shown, ShownIn, LayersOf, ArraysIn, PointersIn

\* A pointer is dropped where the elements of an array are pointers to arrays.
LEMMA PointersDropped ==
  ASSUME IsType(type)
  PROVE  ArrayOfPointersToArrays <=> PointersIn(type) \cap Flattened(type) # {}
<1>1. LayersOf("ConstantArray") = ArraysIn(type) /\ LayersOf("Pointer") = PointersIn(type)
  BY ReachedLayers
<1>2. Stop(type) \in Nat
  BY StopFacts
<1>3. ASSUME ArrayOfPointersToArrays PROVE PointersIn(type) \cap Flattened(type) # {}
  <2>1. PICK outer \in ArraysIn(type), inner \in ArraysIn(type), p \in PointersIn(type) :
          /\ outer < p /\ p < inner
          /\ \A i \in (outer + 1)..(inner - 1) : type[i].class \notin Nesting
    BY <1>1, <1>3 DEF ArrayOfPointersToArrays
  <2>2. p \in 1..Stop(type) /\ p <= inner
    BY <1>2, <2>1 DEF PointersIn, ArraysIn
  <2>3. p \in Flattened(type)
    BY <2>1, <2>2 DEF Flattened
  <2>4. QED
    BY <2>3
<1>4. ASSUME NEW p \in PointersIn(type) \cap Flattened(type) PROVE ArrayOfPointersToArrays
  <2>1. PICK a \in ArraysIn(type), b \in ArraysIn(type) :
          a < p /\ p <= b /\ \A i \in (a + 1)..(b - 1) : type[i].class \notin Nesting
    BY <1>4 DEF Flattened
  <2>2. p # b
    BY <1>4 DEF PointersIn, ArraysIn
  <2>3. p < b
    BY <1>2, <2>1, <2>2 DEF PointersIn, ArraysIn
  <2>4. QED
    BY <1>1, <2>1, <2>3 DEF ArrayOfPointersToArrays
<1>5. QED
  BY <1>3, <1>4

\* What Create returns knows every pointer up to the layer at which the visitor stops,
\* every qualifier seen from there and no other, but for those of an array of pointers
\* to arrays (TypeUnwrapper::VisitConstantArrayType).
THEOREM Layers == ClassSpec => []LayersKept
<1>1. MethodInv /\ LayersInv => LayersKept
  <2> SUFFICES ASSUME MethodInv, LayersInv, Done PROVE LayersKept
    BY DEF LayersKept
  <2> DEFINE F     == Flattened(type)
             P     == PointersIn(type)
             N     == Stop(type)
             shown == UNION {type[i].quals : i \in Shown}
  <2>1. IsType(type) /\ Keeps(type, Infos, 1)
    BY DEF MethodInv, TypeInv, LayersInv
  <2>2. N \in Nat /\ P \subseteq 1..N
    BY <2>1, StopFacts DEF PointersIn
  <2>3. /\ QualifiersOf(Infos) = Told(type, (1..N) \ F)
        /\ PointersOf(Infos) = Cardinality((P \ F) \cap (1..N))
    BY <2>1 DEF Keeps
  <2>4. /\ LayersOf("Pointer") = P /\ Shown = ShownIn(type)
        /\ ArrayOfPointersToArrays <=> P \cap F # {}
    BY <2>1, ReachedLayers, PointersDropped
  <2>5. /\ QualifiersOf(Infos) \subseteq shown
        /\ P \cap F = {} => QualifiersOf(Infos) = shown
    BY <2>1, <2>3, <2>4, ToldAll
  <2> HIDE DEF F, P, N, shown
  <2>6. PointersOf(Infos) = Cardinality(P \ F)
    <3>1. (P \ F) \cap (1..N) = P \ F
      BY <2>2
    <3>2. QED
      BY <2>3, <3>1
  <2>7. IsFiniteSet(P)
    <3>1. IsFiniteSet(1..N)
      BY <2>2, FS_Interval
    <3>2. QED
      BY <2>2, <3>1, FS_Subset
  <2>8. Cardinality(P \ F) = Cardinality(P) <=> P \cap F = {}
    <3>1. CASE P \cap F = {}
      <4>1. P \ F = P
        BY <3>1
      <4>2. QED
        BY <3>1, <4>1
    <3>2. CASE P \cap F # {}
      <4>1. P \ F \in SUBSET P /\ P \ F # P
        BY <3>2
      <4>2. Cardinality(P) = Cardinality(P \ F) => P = P \ F
        BY <2>7, <4>1, FS_Subset
      <4>3. QED
        BY <3>2, <4>1, <4>2
    <3>3. QED
      BY <3>1, <3>2
  <2>9. (PointersOf(Infos) = Cardinality(LayersOf("Pointer"))) = ~ArrayOfPointersToArrays
    BY <2>4, <2>6, <2>8 DEF ArrayOfPointersToArrays
  <2>10. QED
    BY <2>4, <2>5, <2>9 DEF LayersKept, shown
<1>2. QED
  BY <1>1, MethodInvariance, LayersInvariance, PTL
===============================================================================
