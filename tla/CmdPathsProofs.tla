----------------------------- MODULE CmdPathsProofs -----------------------------
(***************************************************************************)
(* What holds of vm_ after any calls of init with any command lines, and   *)
(* what a path is worth however often the others change what is there.     *)
(***************************************************************************)
EXTENDS CmdPaths, NaturalLemmas

-------------------------------------------------------------------------------
(* What boost::program_options::store does with a command line.            *)

Values == {<<v>> : v \in Value}

\* The maps that vm_ may be, and what store goes on with.
AnEntry == [value : {None, <<>>} \cup Values, defaulted : BOOLEAN]
Maps   == UNION {[D -> AnEntry] : D \in SUBSET Option}
Stage  == [vm : Maps, threw : BOOLEAN]


\* An entry that has been given, and can be read.
Given(e) == ~e.defaulted /\ e.value # None

EntryOK(o, e) ==
  \/ e \in [value : Values, defaulted : {FALSE}]
  \/ e = Entry(None, FALSE)
  \/ Default[o] # None /\ e = Entry(Default[o], TRUE)

\* One argument is stored, unless that of an option that was given before.
LEMMA StoreArgumentFacts ==
  ASSUME desc_ \subseteq Option, NEW s \in Stage, NEW a \in Argument
  PROVE  LET new    == StoreArgument(s, a)
             passed == s.threw \/ a.key \notin desc_ \/ a.key \in m_final
             given  == a.key \in DOMAIN s.vm /\ Given(s.vm[a.key])
         IN  /\ new \in Stage
             /\ passed => new = s
             /\ ~passed =>
                  /\ DOMAIN new.vm = DOMAIN s.vm \cup {a.key}
                  /\ \A o \in DOMAIN s.vm : o # a.key => new.vm[o] = s.vm[o]
                  /\ given => new.threw /\ new.vm[a.key] = s.vm[a.key]
                  /\ ~given => /\ new.threw <=> ~Convertible(a)
                               /\ new.vm[a.key] = Entry(IF Convertible(a) THEN <<a.value>>
                                                        ELSE None, FALSE)
<1> DEFINE given  == a.key \in DOMAIN s.vm /\ Given(s.vm[a.key])
           stored == IF given THEN s.vm[a.key]
                     ELSE Entry(IF Convertible(a) THEN <<a.value>> ELSE None, FALSE)
           map    == [o \in DOMAIN s.vm \cup {a.key} |-> IF o = a.key THEN stored ELSE s.vm[o]]
<1>1. s.vm \in Maps /\ s.threw \in BOOLEAN /\ a.value \in Value /\ a.key \in Option \cup Unknown
  BY CmdParserAssumption DEF Stage
<1>2. CASE s.threw \/ a.key \notin desc_ \/ a.key \in m_final
  BY <1>2, <1>1 DEF StoreArgument
<1>3. CASE ~(s.threw \/ a.key \notin desc_ \/ a.key \in m_final)
  <2>1. StoreArgument(s, a) = [vm |-> map, threw |-> given \/ ~Convertible(a)]
    BY <1>3 DEF StoreArgument, Given
  <2>2. a.key \in Option
    BY <1>3
  <2>3. PICK D \in SUBSET Option : s.vm \in [D -> AnEntry]
    BY <1>1 DEF Maps
  <2>4. stored \in AnEntry
    BY <1>1, <2>3 DEF Entry, AnEntry, Values
  <2>5. stored = IF given THEN s.vm[a.key]
                 ELSE Entry(IF Convertible(a) THEN <<a.value>> ELSE None, FALSE)
    OBVIOUS
  <2> HIDE DEF stored
  <2>6. map = [o \in D \cup {a.key} |-> IF o = a.key THEN stored ELSE s.vm[o]]
    BY <2>3
  <2> HIDE DEF map
  <2>7. map \in [D \cup {a.key} -> AnEntry] /\ D \cup {a.key} \in SUBSET Option
    BY <2>2, <2>3, <2>4, <2>6
  <2>8. map \in Maps
    BY <2>7 DEF Maps
  <2>9. /\ DOMAIN map = DOMAIN s.vm \cup {a.key} /\ map[a.key] = stored
        /\ \A o \in DOMAIN s.vm : o # a.key => map[o] = s.vm[o]
    BY <2>3, <2>6
  <2>10. /\ StoreArgument(s, a).vm = map
         /\ StoreArgument(s, a).threw = (given \/ ~Convertible(a))
         /\ StoreArgument(s, a) \in Stage
    BY <2>1, <2>8 DEF Stage
  <2> HIDE DEF given
  <2>11. given \in BOOLEAN /\ Convertible(a) \in BOOLEAN
    BY DEF given, Convertible
  <2>12. given => StoreArgument(s, a).threw /\ StoreArgument(s, a).vm[a.key] = s.vm[a.key]
    BY <2>5, <2>9, <2>10
  <2>13. ~given =>
           /\ StoreArgument(s, a).threw <=> ~Convertible(a)
           /\ StoreArgument(s, a).vm[a.key] = Entry(IF Convertible(a) THEN <<a.value>>
                                                    ELSE None, FALSE)
    BY <2>5, <2>9, <2>10, <2>11
  <2>14. QED
    BY <1>3, <2>9, <2>10, <2>12, <2>13 DEF given
<1>4. QED
  BY <1>2, <1>3

-------------------------------------------------------------------------------
(* What is in the map after k arguments, when it was vm before.            *)

OnlyFinal(vm) == \A o \in DOMAIN vm : ~vm[o].defaulted => o \in m_final

MapOK(vm) ==
  /\ vm \in Maps /\ DOMAIN vm \subseteq desc_
  /\ \A o \in DOMAIN vm : EntryOK(o, vm[o])

\* What was given before stays.
ValuesStay(vm, new) ==
  \A o \in DOMAIN vm : o \in DOMAIN new /\ (Given(vm[o]) => new[o] = vm[o])

\* Every value could be read, and every argument for an option has been stored.
AllRead(vm, new) ==
  \A o \in DOMAIN new : new[o].value = None => o \in DOMAIN vm /\ vm[o].value = None

AllEntered(arguments, k, new) ==
  \A i \in 1..k : arguments[i].key \in desc_ => arguments[i].key \in m_final \cup DOMAIN new

\* Nothing else has been given.
OnlyArguments(vm, arguments, k, new) ==
  \A o \in DOMAIN new : ~new[o].defaulted =>
    \/ o \in DOMAIN vm /\ vm[o] = new[o]
    \/ \E i \in 1..k : o = arguments[i].key

\* A value that is in the map already, and not final.
IsLeft(vm, o) == o \in DOMAIN vm /\ Given(vm[o]) /\ o \notin m_final

\* What was left is not given again.
NoneLeft(vm, arguments) == \A i \in 1..Len(arguments) : ~IsLeft(vm, arguments[i].key)

StageOK(vm, arguments, k, s) ==
  /\ s \in Stage /\ MapOK(s.vm)
  /\ ValuesStay(vm, s.vm)
  /\ ~s.threw => AllRead(vm, s.vm) /\ AllEntered(arguments, k, s.vm)
  /\ OnlyArguments(vm, arguments, k, s.vm)
  /\ WellFormed(arguments, desc_) /\ NoneLeft(vm, arguments) => ~s.threw
  /\ \A i \in 1..k : IsLeft(vm, arguments[i].key) => s.threw

\* The next argument keeps all that.
LEMMA StageStep ==
  ASSUME desc_ \subseteq Option, NEW vm \in Maps,
         NEW arguments \in Seq(Argument), NEW k \in 1..Len(arguments),
         DOMAIN vm \subseteq desc_, NEW s, StageOK(vm, arguments, k - 1, s)
  PROVE  StageOK(vm, arguments, k, StoreArgument(s, arguments[k]))
<1> DEFINE a == arguments[k]
           new == StoreArgument(s, a)
           given == a.key \in DOMAIN s.vm /\ Given(s.vm[a.key])
<1>1. a \in Argument /\ s \in Stage
  BY DEF StageOK
<1>2. a.value \in Value /\ a.key \in Option \cup Unknown
  BY <1>1, CmdParserAssumption
<1>3. \A i \in 1..k : i = k \/ i \in 1..(k - 1)
  OBVIOUS
<1>4. \A i \in 1..(k - 1) : i \in 1..k
  OBVIOUS
<1>5. CASE s.threw \/ a.key \notin desc_ \/ a.key \in m_final
  <2>1. new = s
    BY <1>1, <1>5, StoreArgumentFacts
  <2>2. ~s.threw => AllEntered(arguments, k, s.vm)
    BY <1>3, <1>5 DEF StageOK, AllEntered
  <2>3. OnlyArguments(vm, arguments, k, s.vm)
    BY <1>4 DEF StageOK, OnlyArguments
  <2>4. \A i \in 1..k : IsLeft(vm, arguments[i].key) => s.threw
    <3>1. IsLeft(vm, a.key) => s.threw
      BY <1>5 DEF IsLeft
    <3>2. QED
      BY <1>3, <3>1 DEF StageOK
  <2> HIDE DEF new
  <2>5. QED
    BY <2>1, <2>2, <2>3, <2>4 DEF StageOK, new
<1>6. CASE ~(s.threw \/ a.key \notin desc_ \/ a.key \in m_final)
  <2>1. /\ new \in Stage
        /\ DOMAIN new.vm = DOMAIN s.vm \cup {a.key}
        /\ \A o \in DOMAIN s.vm : o # a.key => new.vm[o] = s.vm[o]
        /\ given => new.threw /\ new.vm[a.key] = s.vm[a.key]
        /\ ~given => /\ new.threw <=> ~Convertible(a)
                     /\ new.vm[a.key] = Entry(IF Convertible(a) THEN <<a.value>>
                                              ELSE None, FALSE)
    BY <1>1, <1>6, StoreArgumentFacts
  <2> HIDE DEF new, a
  <2>2. MapOK(new.vm)
    <3>1. EntryOK(a.key, new.vm[a.key])
      <4>1. CASE given
        BY <2>1, <4>1 DEF StageOK, MapOK
      <4>2. CASE ~given
        <5>1. <<a.value>> \in Values
          BY <1>2 DEF Values
        <5>2. new.vm[a.key] \in {Entry(<<a.value>>, FALSE), Entry(None, FALSE)}
          BY <2>1, <4>2
        <5>3. Entry(<<a.value>>, FALSE) \in [value : Values, defaulted : {FALSE}]
          BY <5>1 DEF Entry
        <5> HIDE DEF Entry
        <5>4. QED
          BY <5>2, <5>3 DEF EntryOK
      <4>3. QED
        BY <4>1, <4>2
    <3>2. \A o \in DOMAIN new.vm : EntryOK(o, new.vm[o])
      BY <2>1, <3>1 DEF StageOK, MapOK
    <3>3. new.vm \in Maps
      BY <2>1 DEF Stage
    <3>4. QED
      BY <1>6, <2>1, <3>2, <3>3 DEF StageOK, MapOK
  <2>3. ValuesStay(vm, new.vm)
    <3> SUFFICES ASSUME NEW o \in DOMAIN vm
                 PROVE  o \in DOMAIN new.vm /\ (Given(vm[o]) => new.vm[o] = vm[o])
      BY DEF ValuesStay
    <3>1. o \in DOMAIN s.vm /\ (Given(vm[o]) => s.vm[o] = vm[o])
      BY DEF StageOK, ValuesStay
    <3>2. Given(s.vm[o]) => new.vm[o] = s.vm[o]
      BY <2>1, <3>1
    <3>3. QED
      BY <2>1, <3>1, <3>2
  <2>4. ~new.threw => AllRead(vm, new.vm) /\ AllEntered(arguments, k, new.vm)
    <3> SUFFICES ASSUME ~new.threw
                 PROVE  AllRead(vm, new.vm) /\ AllEntered(arguments, k, new.vm)
      OBVIOUS
    <3>1. new.vm[a.key] = Entry(<<a.value>>, FALSE)
      BY <2>1
    <3>2. new.vm[a.key].value # None
      BY <1>2, <3>1, CmdParserAssumption DEF Entry
    <3>3. AllRead(vm, new.vm)
      BY <1>6, <2>1, <3>2 DEF StageOK, AllRead
    <3>4. AllEntered(arguments, k, new.vm)
      BY <1>3, <1>6, <2>1 DEF StageOK, AllEntered, a
    <3>5. QED
      BY <3>3, <3>4
  <2>5. OnlyArguments(vm, arguments, k, new.vm)
    <3> SUFFICES ASSUME NEW o \in DOMAIN new.vm, ~new.vm[o].defaulted
                 PROVE  \/ o \in DOMAIN vm /\ vm[o] = new.vm[o]
                        \/ \E i \in 1..k : o = arguments[i].key
      BY DEF OnlyArguments
    <3>1. CASE o = a.key
      BY <3>1 DEF a
    <3>2. CASE o # a.key
      BY <1>4, <2>1, <3>2 DEF StageOK, OnlyArguments
    <3>3. QED
      BY <3>1, <3>2
  <2>6. WellFormed(arguments, desc_) /\ NoneLeft(vm, arguments) => ~new.threw
    <3> SUFFICES ASSUME WellFormed(arguments, desc_), NoneLeft(vm, arguments)
                 PROVE  ~new.threw
      OBVIOUS
    <3>1. /\ Convertible(a)
          /\ \A i \in 1..Len(arguments) : a.key = arguments[i].key => k = i
      BY <1>6 DEF WellFormed, a
    <3>2. ~given
      <4> SUFFICES ASSUME a.key \in DOMAIN s.vm, Given(s.vm[a.key])
                   PROVE  FALSE
        OBVIOUS
      <4>1. \/ a.key \in DOMAIN vm /\ vm[a.key] = s.vm[a.key]
            \/ \E i \in 1..(k - 1) : a.key = arguments[i].key
        BY DEF StageOK, OnlyArguments, Given
      <4>2. a.key \notin m_final /\ ~IsLeft(vm, a.key)
        BY <1>6 DEF NoneLeft, a
      <4>3. QED
        BY <3>1, <4>1, <4>2 DEF IsLeft
    <3>3. QED
      BY <2>1, <3>1, <3>2
  <2>7. \A i \in 1..k : IsLeft(vm, arguments[i].key) => new.threw
    <3>1. \A i \in 1..(k - 1) : ~IsLeft(vm, arguments[i].key)
      BY <1>6 DEF StageOK
    <3>2. IsLeft(vm, a.key) => given
      BY DEF IsLeft, StageOK, ValuesStay
    <3>3. QED
      BY <1>3, <2>1, <3>1, <3>2 DEF a
  <2>8. QED
    BY <2>1, <2>2, <2>3, <2>4, <2>5, <2>6, <2>7 DEF StageOK, new, a
<1>7. QED
  BY <1>5, <1>6

\* And so do all the arguments, one after the other.
LEMMA StagesFacts ==
  ASSUME desc_ \subseteq Option, NEW vm, MapOK(vm), NEW arguments \in Seq(Argument)
  PROVE  StageOK(vm, arguments, Len(arguments), Stages(vm, arguments)[Len(arguments)])
<1> DEFINE n == Len(arguments)
           u == [vm |-> vm, threw |-> FALSE]
           g == [p \in (1..n) \X Stage |-> StoreArgument(p[2], arguments[p[1]])]
           Def(f) == f = [k \in 0..n |-> IF k = 0 THEN u
                                         ELSE StoreArgument(f[k - 1], arguments[k])]
           st == Stages(vm, arguments)
           S == {k \in 0..n : ~StageOK(vm, arguments, k, st[k])}
<1>1. n \in Nat /\ \A k \in 1..n : arguments[k] \in Argument
  OBVIOUS
<1>2. vm \in Maps /\ DOMAIN vm \subseteq desc_ /\ u \in Stage
  BY DEF MapOK, Stage
<1>3. g \in [(1..n) \X Stage -> Stage]
  <2> SUFFICES ASSUME NEW p \in (1..n) \X Stage
               PROVE  StoreArgument(p[2], arguments[p[1]]) \in Stage
    OBVIOUS
  <2>1. p[2] \in Stage /\ arguments[p[1]] \in Argument
    BY <1>1
  <2>2. QED
    BY <2>1, StoreArgumentFacts
<1>4. PICK f : IsLoop(f, n, Stage, u, g)
  <2> HIDE DEF g, u, n
  <2>1. n \in Nat /\ u \in Stage
    BY <1>1, <1>2
  <2>2. QED
    BY <1>3, <2>1, RecursionUpTo
<1>5. Def(f)
  <2>1. \A k \in 1..n : k - 1 \in 0..n /\ f[k - 1] \in Stage
    BY <1>4 DEF IsLoop
  <2>2. \A k \in 1..n : f[k] = StoreArgument(f[k - 1], arguments[k])
    BY <1>4, <2>1 DEF IsLoop
  <2> HIDE DEF g, u, n
  <2>3. QED
    BY <1>1, <1>4, <2>2 DEF n, IsLoop
<1>6. Def(st)
  <2>1. st = CHOOSE h : Def(h)
    BY DEF Stages
  <2> HIDE DEF Def, st
  <2>2. QED
    BY <1>5, <2>1
<1>7. /\ st[0] = u
      /\ \A k \in 1..n : st[k] = StoreArgument(st[k - 1], arguments[k])
  <2> HIDE DEF st, u
  <2>1. QED
    BY <1>1, <1>6
<1>8. StageOK(vm, arguments, 0, st[0])
  <2>1. st[0].vm = vm /\ ~st[0].threw /\ st[0] \in Stage
    BY <1>2, <1>7
  <2> HIDE DEF st
  <2>2. QED
    BY <2>1 DEF StageOK, ValuesStay, AllRead, AllEntered, OnlyArguments
<1> HIDE DEF st, u, n, g, Def
<1>9. S = {}
  <2> SUFFICES ASSUME S # {} PROVE FALSE
    OBVIOUS
  <2>1. S \in SUBSET Nat
    OBVIOUS
  <2>2. PICK k \in S : \A j \in S : k <= j
    BY <2>1, SmallestInt
  <2>3. k \in 1..n /\ k - 1 \in 0..n /\ k - 1 \notin S
    BY <1>1, <1>8, <2>2
  <2>4. StageOK(vm, arguments, k - 1, st[k - 1])
    BY <2>3
  <2>5. StageOK(vm, arguments, k, st[k])
    BY <1>2, <1>7, <2>3, <2>4, StageStep DEF n
  <2>6. QED
    BY <2>2, <2>5
<1>10. QED
  BY <1>1, <1>9 DEF n, st

\* With the defaults that is what store leaves.
LEMMA StoreFacts ==
  ASSUME desc_ \subseteq Option, NEW vm, MapOK(vm), NEW arguments \in Seq(Argument)
  PROVE  /\ StageOK(vm, arguments, Len(arguments), Store(vm, arguments))
         /\ ~Store(vm, arguments).threw =>
              \A o \in desc_ : Default[o] # None => o \in DOMAIN Store(vm, arguments).vm
<1> DEFINE n == Len(arguments)
           s == Stages(vm, arguments)[n]
           map == WithDefaults(s.vm)
<1>1. StageOK(vm, arguments, n, s)
  BY StagesFacts
<1>2. s \in Stage /\ Store(vm, arguments) = IF s.threw THEN s ELSE [s EXCEPT !.vm = WithDefaults(@)]
  BY <1>1 DEF Store, StageOK
<1> HIDE DEF s, n
<1>3. CASE s.threw
  BY <1>1, <1>2, <1>3 DEF n
<1>4. CASE ~s.threw
  <2>1. s.vm \in Maps /\ DOMAIN s.vm \subseteq desc_
    BY <1>1, <1>2 DEF Stage, StageOK, MapOK
  <2>2. PICK D \in SUBSET Option : s.vm \in [D -> AnEntry]
    BY <2>1 DEF Maps
  <2> DEFINE E == D \cup {p \in desc_ : Default[p] # None}
  <2>3. map = [o \in E |-> IF o \in D THEN s.vm[o] ELSE Entry(Default[o], TRUE)]
    BY <2>2 DEF WithDefaults
  <2>4. \A o \in E \ D : Default[o] # None /\ Entry(Default[o], TRUE) \in AnEntry
    BY CmdParserAssumption DEF Entry, AnEntry, Values
  <2> HIDE DEF map
  <2>5. /\ DOMAIN map = E /\ map \in [E -> AnEntry]
        /\ \A o \in D : map[o] = s.vm[o]
        /\ \A o \in E \ D : map[o] = Entry(Default[o], TRUE)
    BY <2>2, <2>3, <2>4
  <2>6. /\ E \in SUBSET Option /\ E \subseteq desc_ /\ DOMAIN s.vm = D /\ D \subseteq E
        /\ \A o \in desc_ : Default[o] # None => o \in E
    BY <2>1, <2>2
  <2>7. map \in Maps
    BY <2>5, <2>6 DEF Maps
  <2>8. /\ Store(vm, arguments) \in Stage /\ Store(vm, arguments).vm = map
        /\ Store(vm, arguments).threw = FALSE
    BY <1>2, <1>4, <2>7 DEF Stage, map
  <2> HIDE DEF E
  <2>9. MapOK(map)
    BY <1>1, <2>4, <2>5, <2>6, <2>7 DEF StageOK, MapOK, EntryOK
  <2>10. ValuesStay(vm, map)
    BY <1>1, <2>5, <2>6 DEF StageOK, ValuesStay
  <2>11. AllRead(vm, map)
    BY <1>1, <1>4, <2>4, <2>5, <2>6 DEF StageOK, AllRead, Entry
  <2>12. AllEntered(arguments, n, map)
    BY <1>1, <1>4, <2>5, <2>6 DEF StageOK, AllEntered
  <2>13. OnlyArguments(vm, arguments, n, map)
    BY <1>1, <2>5, <2>6 DEF StageOK, OnlyArguments, Entry
  <2>14. \A o \in desc_ : Default[o] # None => o \in DOMAIN map
    BY <2>2, <2>5, <2>6
  <2>15. QED
    BY <1>1, <1>4, <2>8, <2>9, <2>10, <2>11, <2>12, <2>13, <2>14 DEF StageOK, n
<1>5. QED
  BY <1>3, <1>4

-------------------------------------------------------------------------------
(* What unregisteredOptions returns.                                       *)

\* The same is left out if the same keys are.
LEMMA WithoutFacts ==
  ASSUME NEW arguments \in Seq(Argument), NEW keys, NEW others,
         \A i \in 1..Len(arguments) : arguments[i].key \in keys <=> arguments[i].key \in others
  PROVE  Without(arguments, keys) = Without(arguments, others)
<1> DEFINE Def(f, K) == f = [k \in 0..Len(arguments) |->
                               IF k = 0 THEN <<>>
                               ELSE IF arguments[k].key \in K THEN f[k - 1]
                               ELSE Append(f[k - 1], arguments[k])]
<1>1. \A f : Def(f, keys) <=> Def(f, others)
  OBVIOUS
<1>2. /\ Without(arguments, keys)   = (CHOOSE f : Def(f, keys))[Len(arguments)]
      /\ Without(arguments, others) = (CHOOSE f : Def(f, others))[Len(arguments)]
  BY DEF Without
<1> HIDE DEF Def
<1>3. (CHOOSE f : Def(f, keys)) = (CHOOSE f : Def(f, others))
  BY <1>1
<1>4. QED
  BY <1>2, <1>3

-------------------------------------------------------------------------------
(* The parser.                                                             *)

\* After an init that succeeded just its options are in the map.
JustTheOptions ==
  last # None /\ last.outcome = "accepted" =>
    /\ parsed_options_ = last.arguments /\ last.arguments \in CommandLines
    /\ checkAsserts => DOMAIN vm_ # {}
    /\ \A i \in 1..Len(last.arguments) :
         last.arguments[i].key \in last.known <=> last.arguments[i].key \in DOMAIN vm_

\* As long as none has failed, what was given is passed over from then on, and
\* there is no entry without a value.
NothingLeft ==
  ~Failed => OnlyFinal(vm_) /\ \A o \in DOMAIN vm_ : vm_[o].value # None

ParserInv ==
  ParserTypeOK /\ MapOK(vm_) /\ JustTheOptions /\ NothingLeft /\ WellFormedIsAccepted

\* A command line is a sequence of arguments.
LEMMA CommandLinesAreSeqs == CommandLines \subseteq Seq(Argument)
BY DEF CommandLines, SeqOf

\* What an init finds left is left by one that failed.
LEMMA LeftFacts ==
  ASSUME ParserInv
  PROVE  /\ Failed \in BOOLEAN /\ Left \in SUBSET Option /\ Left \subseteq DOMAIN vm_
         /\ Left # {} => Failed
         /\ \A o : o \in Left <=> IsLeft(vm_, o)
<1>1. DOMAIN vm_ \subseteq desc_ /\ desc_ \subseteq Option
  BY DEF ParserInv, ParserTypeOK
<1>2. Failed \in BOOLEAN
  BY DEF Failed, ParserInv, ParserTypeOK, Inits
<1>3. \A o : o \in Left <=> IsLeft(vm_, o)
  BY DEF Left, IsLeft, Given
<1>4. Left # {} => Failed
  BY DEF Left, ParserInv, NothingLeft, OnlyFinal
<1>5. QED
  BY <1>1, <1>2, <1>3, <1>4 DEF IsLeft

\* What init returns.
LEMMA OutcomeKeeps ==
  ASSUME ParserInv, NEW arguments \in CommandLines, NEW s,
         s = Store(vm_, arguments),
         NEW outcome, outcome = IF s.threw THEN "refused" ELSE "accepted",
         last' # None, Initialized(arguments, outcome), vm_' = s.vm, ~NothingStored(s),
         checkAsserts' = checkAsserts
  PROVE  WellFormedIsAccepted'
<1>1. /\ last'.arguments = arguments /\ last'.known = desc_ /\ last'.outcome = outcome
      /\ last'.failedBefore = Failed /\ last'.left = Left
  BY DEF Initialized
<1>2. arguments \in Seq(Argument) /\ DOMAIN arguments = 1..Len(arguments)
  BY CommandLinesAreSeqs
<1>3. StageOK(vm_, arguments, Len(arguments), s)
  BY <1>2, StoreFacts DEF ParserInv, ParserTypeOK
<1>4. s.threw \in BOOLEAN /\ DOMAIN vm_ \subseteq DOMAIN s.vm
  BY <1>3 DEF StageOK, Stage, ValuesStay
<1>5. WellFormed(arguments, desc_) =>
        (s.threw <=> \E i \in DOMAIN arguments : arguments[i].key \in Left)
  BY <1>2, <1>3, LeftFacts DEF StageOK, NoneLeft
<1>6. WellFormed(arguments, desc_) =>
        ~(checkAsserts /\ DOMAIN s.vm = {} /\ NothingGiven(arguments, desc_))
  <2> SUFFICES ASSUME WellFormed(arguments, desc_), checkAsserts, DOMAIN s.vm = {}
               PROVE  FALSE
    OBVIOUS
  <2>1. Left = {}
    BY <1>4, LeftFacts
  <2>2. QED
    BY <1>5, <2>1 DEF NothingStored
<1>7. /\ outcome = "refused" <=> s.threw
      /\ outcome # "ended"
  BY <1>4
<1>8. QED
  BY <1>1, <1>5, <1>6, <1>7, LeftFacts DEF WellFormedIsAccepted

\* What init has changed.
LEMMA InitStoresKeeps ==
  ASSUME ParserInv, NEW arguments \in CommandLines, InitStores(arguments)
  PROVE  ParserInv'
<1> DEFINE s == Store(vm_, arguments)
           outcome == IF s.threw THEN "refused" ELSE "accepted"
<1>1. /\ vm_' = s.vm /\ ~NothingStored(s)
      /\ m_final' = IF s.threw THEN m_final ELSE m_final \cup Final(arguments)
      /\ Initialized(arguments, outcome)
      /\ parsed_options_' = arguments
      /\ checkAsserts' = checkAsserts /\ desc_' = desc_ /\ dead' = dead
  BY DEF InitStores
<1>2. arguments \in Seq(Argument)
  BY CommandLinesAreSeqs
<1>3. StageOK(vm_, arguments, Len(arguments), s)
  BY <1>2, StoreFacts DEF ParserInv, ParserTypeOK
<1>4. desc_ \subseteq Option /\ m_final \subseteq DOMAIN vm_ /\ DOMAIN vm_ \subseteq desc_
  BY DEF ParserInv, ParserTypeOK
<1>5. s.threw \in BOOLEAN /\ MapOK(s.vm) /\ DOMAIN vm_ \subseteq DOMAIN s.vm
  BY <1>3 DEF StageOK, Stage, ValuesStay
<1>6. outcome \in Outcomes /\ (outcome = "accepted" <=> ~s.threw)
      /\ (outcome = "refused" <=> s.threw)
  BY <1>5 DEF Outcomes
<1>7. last' = [arguments |-> arguments, known |-> desc_, outcome |-> outcome,
               failedBefore |-> Failed, left |-> Left]
  BY <1>1 DEF Initialized
<1>8. s = Store(vm_, arguments) /\ outcome = IF s.threw THEN "refused" ELSE "accepted"
  OBVIOUS
<1> HIDE DEF s, outcome
<1>9. MapOK(vm_)'
  BY <1>1, <1>5 DEF MapOK
<1>10. ~s.threw => Final(arguments) \subseteq DOMAIN s.vm
  BY <1>2, <1>3, <1>4, <1>5 DEF StageOK, AllEntered, Final
<1>11. last' \in Inits /\ last' # None
  <2>1. last' \in Inits
    BY <1>4, <1>6, <1>7, LeftFacts DEF Inits
  <2>2. QED
    BY <2>1, InitsAssumption
<1>12. ParserTypeOK'
  <2>1. m_final' \subseteq DOMAIN vm_'
    BY <1>1, <1>4, <1>5, <1>10
  <2>2. \A o \in DOMAIN vm_' :
          \/ vm_'[o] \in [value : {<<v>> : v \in Value}, defaulted : {FALSE}]
          \/ vm_'[o] = Entry(None, FALSE) \/ vm_'[o] = Entry(Default[o], TRUE)
    BY <1>9 DEF MapOK, EntryOK, Values
  <2>3. QED
    BY <1>1, <1>5, <1>11, <2>1, <2>2 DEF ParserInv, ParserTypeOK, MapOK
<1>13. JustTheOptions'
  <2> SUFFICES ASSUME ~s.threw
               PROVE  /\ checkAsserts => DOMAIN s.vm # {}
                      /\ \A i \in 1..Len(arguments) :
                           arguments[i].key \in desc_ <=> arguments[i].key \in DOMAIN s.vm
    BY <1>1, <1>6, <1>7 DEF JustTheOptions
  <2>1. checkAsserts => DOMAIN s.vm # {}
    BY <1>1 DEF NothingStored
  <2>2. QED
    BY <1>3, <1>4, <1>5, <2>1 DEF StageOK, AllEntered, MapOK
<1>14. NothingLeft'
  <2> SUFFICES ASSUME ~s.threw, ~Failed
               PROVE  \A o \in DOMAIN s.vm :
                        (~s.vm[o].defaulted => o \in m_final') /\ s.vm[o].value # None
    BY <1>1, <1>6, <1>7, <1>11 DEF NothingLeft, Failed, OnlyFinal
  <2>1. OnlyFinal(vm_) /\ \A o \in DOMAIN vm_ : vm_[o].value # None
    BY DEF ParserInv, NothingLeft
  <2>2. \A o \in DOMAIN s.vm : s.vm[o].value # None
    BY <1>3, <2>1 DEF StageOK, AllRead
  <2>3. \A o \in DOMAIN s.vm : ~s.vm[o].defaulted => o \in m_final \cup Final(arguments)
    BY <1>2, <1>3, <1>5, <2>1 DEF StageOK, OnlyArguments, OnlyFinal, Final, MapOK
  <2>4. QED
    BY <1>1, <2>2, <2>3
<1>15. WellFormedIsAccepted'
  BY <1>1, <1>8, <1>11, OutcomeKeeps
<1>16. QED
  BY <1>9, <1>12, <1>13, <1>14, <1>15 DEF ParserInv

\* The process ends only where there is nothing to store.
LEMMA InitAbortsKeeps ==
  ASSUME ParserInv, NEW arguments \in {Unparsable} \cup CommandLines, InitAborts(arguments)
  PROVE  ParserInv'
<1>1. /\ Initialized(arguments, "ended") /\ dead' = TRUE
      /\ UNCHANGED <<checkAsserts, desc_, vm_, m_final>>
      /\ parsed_options_' \in {parsed_options_, arguments}
  BY DEF InitAborts
<1>2. last' = [arguments |-> arguments, known |-> desc_, outcome |-> "ended",
               failedBefore |-> Failed, left |-> Left]
  BY <1>1 DEF Initialized
<1>3. last' \in Inits /\ last' # None
  <2>1. desc_ \in SUBSET Option /\ Failed \in BOOLEAN /\ Left \in SUBSET Option
    BY LeftFacts DEF ParserInv, ParserTypeOK
  <2>2. last' \in Inits
    BY <1>2, <2>1 DEF Inits, Outcomes
  <2>3. QED
    BY <2>2, InitsAssumption
<1>4. ParserTypeOK'
  BY <1>1, <1>3 DEF ParserInv, ParserTypeOK, Unparsable
<1>5. MapOK(vm_)' /\ JustTheOptions'
  BY <1>1, <1>2 DEF ParserInv, MapOK, JustTheOptions
<1>6. NothingLeft'
  <2>1. ~Failed' => ~Failed
    BY <1>2, <1>3, LeftFacts DEF Failed
  <2>2. QED
    BY <1>1, <2>1 DEF ParserInv, NothingLeft, OnlyFinal
<1>7. WellFormed(arguments, desc_) =>
        checkAsserts /\ DOMAIN vm_ = {} /\ NothingGiven(arguments, desc_)
  <2> SUFFICES ASSUME WellFormed(arguments, desc_)
               PROVE  checkAsserts /\ DOMAIN vm_ = {} /\ NothingGiven(arguments, desc_)
    OBVIOUS
  <2>1. arguments \in CommandLines /\ arguments \in Seq(Argument)
    BY CommandLinesAreSeqs DEF WellFormed
  <2>2. CASE NothingRegistered
    BY <2>2 DEF NothingRegistered, NothingGiven, ParserInv, ParserTypeOK
  <2>3. CASE NothingStored(Store(vm_, arguments))
    <3> DEFINE s == Store(vm_, arguments)
    <3>1. checkAsserts /\ ~s.threw /\ DOMAIN s.vm = {}
      BY <2>3 DEF NothingStored
    <3>2. /\ StageOK(vm_, arguments, Len(arguments), s)
          /\ ~s.threw => \A o \in desc_ : Default[o] # None => o \in DOMAIN s.vm
      BY <2>1, StoreFacts DEF ParserInv, ParserTypeOK
    <3> HIDE DEF s
    <3>3. DOMAIN vm_ = {}
      BY <3>1, <3>2 DEF StageOK, ValuesStay
    <3>4. m_final = {}
      BY <3>3 DEF ParserInv, ParserTypeOK
    <3>5. \A i \in 1..Len(arguments) : arguments[i].key \notin desc_
      BY <3>1, <3>2, <3>4 DEF StageOK, AllEntered
    <3>6. QED
      BY <2>1, <3>1, <3>2, <3>3, <3>5 DEF NothingGiven
  <2>4. QED
    BY <2>2, <2>3 DEF InitAborts
<1>8. WellFormedIsAccepted'
  <2>1. WellFormed(arguments, desc_) => ~ \E i \in DOMAIN arguments : arguments[i].key \in Left
    BY <1>7, LeftFacts
  <2>2. QED
    BY <1>1, <1>2, <1>7, <2>1, LeftFacts DEF WellFormedIsAccepted
<1>9. QED
  BY <1>4, <1>5, <1>6, <1>8 DEF ParserInv

\* Nothing but the options, what ended the process or an init that did not parse.
LEMMA OtherParserSteps ==
  ASSUME ParserInv,
         UNCHANGED <<checkAsserts, vm_, m_final, parsed_options_>>,
         desc_' \in SUBSET Option, desc_ \subseteq desc_', dead' \in BOOLEAN,
         last' = last \/ Initialized(Unparsable, "refused")
  PROVE  ParserInv'
<1>1. CASE last' = last
  <2>1. ParserTypeOK'
    BY <1>1 DEF ParserInv, ParserTypeOK
  <2>2. MapOK(vm_)' /\ JustTheOptions' /\ NothingLeft'
    BY <1>1 DEF ParserInv, MapOK, JustTheOptions, NothingLeft, OnlyFinal, Failed
  <2>3. WellFormedIsAccepted'
    BY <1>1 DEF ParserInv, WellFormedIsAccepted
  <2>4. QED
    BY <2>1, <2>2, <2>3 DEF ParserInv
<1>2. CASE Initialized(Unparsable, "refused")
  <2>1. last' = [arguments |-> Unparsable, known |-> desc_, outcome |-> "refused",
                 failedBefore |-> Failed, left |-> Left]
    BY <1>2 DEF Initialized
  <2>2. last' \in Inits /\ last' # None
    <3>1. desc_ \in SUBSET Option /\ Failed \in BOOLEAN /\ Left \in SUBSET Option
      BY LeftFacts DEF ParserInv, ParserTypeOK
    <3>2. last' \in Inits
      BY <2>1, <3>1 DEF Inits, Outcomes
    <3>3. QED
      BY <3>2, InitsAssumption
  <2>3. ParserTypeOK'
    BY <2>2 DEF ParserInv, ParserTypeOK
  <2>4. MapOK(vm_)' /\ JustTheOptions' /\ NothingLeft'
    BY <2>1, <2>2 DEF ParserInv, MapOK, JustTheOptions, NothingLeft, Failed
  <2>5. WellFormedIsAccepted'
    BY <2>1, LeftFacts DEF WellFormedIsAccepted, WellFormed
  <2>6. QED
    BY <2>3, <2>4, <2>5 DEF ParserInv
<1>3. QED
  BY <1>1, <1>2

\* Whatever is done with the parser, or nothing.
LEMMA ParserKeeps == ParserInv /\ (ParserNext \/ UNCHANGED parserVars) => ParserInv'
<1> SUFFICES ASSUME ParserInv, ParserNext \/ UNCHANGED parserVars PROVE ParserInv'
  OBVIOUS
<1>1. desc_ \in SUBSET Option /\ dead \in BOOLEAN
  BY DEF ParserInv, ParserTypeOK
<1>2. CASE \E o \in Option : Register(o)
  BY <1>1, <1>2, OtherParserSteps DEF Register
<1>3. CASE \E arguments \in CommandLines : InitStores(arguments)
  BY <1>3, InitStoresKeeps
<1>4. CASE InitUnparsable
  BY <1>1, <1>4, OtherParserSteps DEF InitUnparsable
<1>5. CASE \E arguments \in {Unparsable} \cup CommandLines : InitAborts(arguments)
  BY <1>5, InitAbortsKeeps
<1>6. CASE UnregisteredOptions \/ UNCHANGED parserVars
  BY <1>1, <1>6, OtherParserSteps DEF UnregisteredOptions, parserVars
<1>7. QED
  BY <1>2, <1>3, <1>4, <1>5, <1>6 DEF ParserNext

\* Nothing is registered and nothing stored.
LEMMA ParserInitially == ParserInit => ParserInv
<1> SUFFICES ASSUME ParserInit PROVE ParserInv
  OBVIOUS
<1>1. /\ checkAsserts \in Builds /\ desc_ = {} /\ m_final = {} /\ vm_ = <<>>
      /\ parsed_options_ = None /\ last = None /\ dead = FALSE
  BY DEF ParserInit
<1>2. DOMAIN vm_ = {} /\ vm_ = [o \in {} |-> None]
  BY <1>1
<1>3. MapOK(vm_)
  <2>1. vm_ \in [{} -> AnEntry]
    BY <1>2
  <2>2. vm_ \in Maps
    BY <2>1 DEF Maps
  <2>3. QED
    BY <1>2, <2>2 DEF MapOK
<1>4. ParserTypeOK
  BY <1>1, <1>2 DEF ParserTypeOK
<1>5. JustTheOptions /\ NothingLeft /\ WellFormedIsAccepted
  BY <1>1, <1>2 DEF JustTheOptions, NothingLeft, OnlyFinal, WellFormedIsAccepted
<1>6. QED
  BY <1>3, <1>4, <1>5 DEF ParserInv

-------------------------------------------------------------------------------
(* The functions.                                                          *)

\* What is at the path, and what a function has made of it.
PathTypeOK ==
  /\ entry \in Entries /\ changes \in 0..MaxChanges /\ seen \subseteq Entries
  /\ function \in Functions \cup {None} /\ key \in Option \cup {None}
  /\ step \in Steps /\ path \in {"empty", "given", "absolute"}
  /\ Looking \/ Answered => entry \in seen
  /\ step \in {"idle", "getAs"} => path = "empty"
  /\ step = "makeAbsolute" => path # "empty"
  /\ step = "getFileInfo" => function # "cmdKeyToDirectory"
  /\ path # "empty" => Count /\ vm_[key].value \notin {None, <<>>, <<"empty">>}

\* There was something at the path, and then no directory: if that was no file,
\* the path has changed meanwhile.
NoFileSoFar ==
  "file" \notin seen =>
    /\ step = "directoryExists" => entry = "directory" \/ changes >= 1
    /\ step = "getFileInfo" => changes >= 1 /\ (entry = "nothing" \/ changes >= 2)

\* What a function knows of the path once it has asked.
LookedOK ==
  /\ step \in {"idle", "getAs"} => seen = {}
  /\ Looking => Looks /\ ~Unread
  /\ step \in {"dcheck", "pathExists", "directoryExists", "getFileInfo"} =>
       \/ path = "empty" /\ "nothing" \in seen
       \/ path = "absolute" /\ seen # {"nothing"}
  /\ step \in {"pathExists", "directoryExists", "getFileInfo"} /\ checkAsserts =>
       path = "absolute"

PathInv ==
  /\ ParserInv /\ PathTypeOK /\ LookedOK /\ NoFileSoFar
  /\ DirectoryWasThere /\ FileWasThere /\ WhenCallsFail

\* A step of a function that asks the file system at most.
LEMMA GoKeeps ==
  ASSUME PathInv,
         NEW s \in Steps \ {"idle", "getAs", "makeAbsolute"}, NEW p \in {"empty", "given", "absolute"}, Go(s, p),
         p # "empty" => Count /\ vm_[key].value \notin {None, <<>>, <<"empty">>},
         s \in {"dcheck", "pathExists", "directoryExists", "getFileInfo"}
           \/ (s = "returned" /\ p = "absolute") => Looking,
         s = "directoryExists" => entry # "nothing",
         s = "getFileInfo" => /\ step = "directoryExists" /\ entry # "directory"
                              /\ function # "cmdKeyToDirectory",
         s = "returned" /\ p = "absolute" /\ function = "cmdKeyToDirectory" =>
           entry = "directory",
         s = "returned" /\ p = "absolute" /\ function = "cmdKeyToFile" =>
           step = "getFileInfo" /\ entry # "nothing",
         s \in {"dcheck", "pathExists", "directoryExists", "getFileInfo"} =>
           \/ p = "empty" /\ "nothing" \in seen
           \/ p = "absolute" /\ seen # {"nothing"},
         s \in {"pathExists", "directoryExists", "getFileInfo"} /\ checkAsserts =>
           p = "absolute",
         s = "threw" => Failed,
         s \in {"returned", "threw"} => (s = "threw" <=> Unread),
         s = "aborted" => checkAsserts /\ Looks /\ "nothing" \in seen,
         s = "returned" /\ checkAsserts => seen # {"nothing"}
  PROVE  PathInv'
<1>1. /\ step' = s /\ path' = p
      /\ UNCHANGED <<checkAsserts, desc_, vm_, m_final, parsed_options_, last, dead,
                     entry, changes, function, key, seen>>
  BY DEF Go, parserVars
<1>2. ParserInv'
  BY <1>1, ParserKeeps DEF PathInv, parserVars
<1>3. changes \in Nat /\ entry \in {"nothing", "file", "directory"}
  BY CmdPathsAssumption DEF PathInv, PathTypeOK, Entries
<1>4. PathTypeOK'
  BY <1>1 DEF PathInv, PathTypeOK, Looking, Answered, Count
<1>5. NoFileSoFar'
  BY <1>1, <1>3 DEF PathInv, PathTypeOK, NoFileSoFar, Looking
<1>6. DirectoryWasThere'
  BY <1>1 DEF PathInv, PathTypeOK, DirectoryWasThere, Answered
<1>7. FileWasThere'
  BY <1>1, <1>3 DEF PathInv, PathTypeOK, NoFileSoFar, FileWasThere, Answered
<1>8. WhenCallsFail'
  BY <1>1 DEF WhenCallsFail, Failed, Unread, Count, Looks
<1>9. LookedOK'
  BY <1>1 DEF PathInv, LookedOK, Looking, Looks, Unread, Count
<1>10. QED
  BY <1>2, <1>4, <1>5, <1>6, <1>7, <1>8, <1>9 DEF PathInv

\* What a function does next.
LEMMA FunctionKeeps == PathInv /\ FunctionStep => PathInv'
<1> SUFFICES ASSUME PathInv, FunctionStep PROVE PathInv'
  OBVIOUS
<1>1. PathTypeOK /\ LookedOK /\ path \in {"empty", "given", "absolute"}
  BY DEF PathInv, PathTypeOK
<1>2. CASE Missing
  BY <1>1, <1>2, GoKeeps DEF Missing, Steps, Unread, LookedOK
<1>3. CASE BadCast
  <2>1. Failed
    BY <1>3 DEF BadCast, Unread, Count, PathInv, ParserInv, NothingLeft
  <2>2. QED
    BY <1>3, <2>1, GoKeeps DEF BadCast, Steps
<1>4. CASE IntGiven
  BY <1>1, <1>4, GoKeeps DEF IntGiven, Stored, Steps, LookedOK
<1>5. CASE PathGiven
  BY <1>1, <1>5, GoKeeps DEF PathGiven, Steps, Stored, Unread, IsPath, LookedOK
<1>6. CASE LookForPath
  <2>1. /\ step' = "makeAbsolute" /\ path' = "given"
        /\ entry' \in Entries /\ seen' = {entry'}
        /\ Count /\ vm_[key].value \notin {None, <<>>, <<"empty">>}
        /\ UNCHANGED <<checkAsserts, desc_, vm_, m_final, parsed_options_, last, dead,
                       changes, function, key>>
    BY <1>6 DEF LookForPath, Stored, Unread, IsPath, parserVars
  <2>2. ParserInv'
    BY <2>1, ParserKeeps DEF PathInv, parserVars
  <2>3. PathTypeOK'
    BY <1>1, <2>1 DEF PathTypeOK, Looking, Steps, Count
  <2>4. NoFileSoFar' /\ DirectoryWasThere' /\ FileWasThere' /\ WhenCallsFail'
    BY <2>1 DEF NoFileSoFar, DirectoryWasThere, FileWasThere, WhenCallsFail, Answered
  <2>5. LookedOK'
    BY <1>6, <2>1 DEF LookForPath, Stored, LookedOK, Looking, Looks, Unread, Count
  <2>6. QED
    BY <2>2, <2>3, <2>4, <2>5 DEF PathInv
<1>7. CASE MakeAbsolute
  BY <1>1, <1>7, GoKeeps DEF MakeAbsolute, Steps, Looking, PathTypeOK, LookedOK
<1>8. CASE Dcheck
  BY <1>1, <1>8, GoKeeps DEF Dcheck, Steps, Looking, PathTypeOK, LookedOK
<1>9. CASE PathExists
  BY <1>1, <1>9, GoKeeps DEF PathExists, ExistsNow, Steps, Looking, PathTypeOK, LookedOK
<1>10. CASE DirectoryExists
  BY <1>1, <1>10, GoKeeps DEF DirectoryExists, Steps, Looking, PathTypeOK, LookedOK
<1>11. CASE GetFileInfo
  BY <1>1, <1>11, GoKeeps DEF GetFileInfo, Steps, Looking, PathTypeOK, LookedOK
<1>12. QED
  BY <1>2, <1>3, <1>4, <1>5, <1>6, <1>7, <1>8, <1>9, <1>10, <1>11 DEF FunctionStep

\* Another process changes what is at the path.
LEMMA ChangeKeeps ==
  ASSUME PathInv, NEW e \in Entries, Change(e)
  PROVE  PathInv'
<1>1. /\ changes < MaxChanges /\ Looking /\ e # entry
      /\ entry' = e /\ changes' = changes + 1 /\ seen' = seen \cup {e}
      /\ UNCHANGED <<checkAsserts, desc_, vm_, m_final, parsed_options_, last, dead,
                     function, key, step, path>>
  BY DEF Change, parserVars
<1>2. ParserInv'
  BY <1>1, ParserKeeps DEF PathInv, parserVars
<1>3. changes \in Nat /\ entry \in {"nothing", "file", "directory"} /\ MaxChanges \in Nat
  BY CmdPathsAssumption DEF PathInv, PathTypeOK, Entries
<1>4. changes' \in 0..MaxChanges /\ changes' >= 1 /\ (changes >= 1 => changes' >= 2)
  BY <1>1, <1>3
<1>5. PathTypeOK'
  BY <1>1, <1>4 DEF PathInv, PathTypeOK, Looking, Answered, Count
<1>6. NoFileSoFar'
  BY <1>1, <1>3, <1>4 DEF PathInv, NoFileSoFar, Entries
<1>7. DirectoryWasThere' /\ FileWasThere'
  BY <1>1 DEF DirectoryWasThere, FileWasThere, Answered, Looking
<1>8. WhenCallsFail'
  BY <1>1 DEF PathInv, WhenCallsFail, Failed, Looking
<1>9. LookedOK'
  BY <1>1 DEF PathInv, PathTypeOK, LookedOK, Looking, Looks, Unread, Count
<1>10. QED
  BY <1>2, <1>5, <1>6, <1>7, <1>8, <1>9 DEF PathInv

\* No function is running, before or after the step.
LEMMA IdleKeeps ==
  ASSUME PathInv, ParserInv', PathTypeOK', step' \in {"idle", "getAs"}, seen' = {}
  PROVE  PathInv'
BY DEF PathInv, LookedOK, Looking, NoFileSoFar, DirectoryWasThere, FileWasThere, Answered,
       WhenCallsFail

\* Whatever comes next.
LEMMA NextKeeps == PathInv /\ [Next]_vars => PathInv'
<1> SUFFICES ASSUME PathInv, [Next]_vars PROVE PathInv'
  OBVIOUS
<1>1. CASE Parser
  <2>1. step = "idle" /\ path = "empty" /\ seen = {} /\ ParserNext /\ UNCHANGED pathVars
    BY <1>1 DEF Parser, Idle, PathInv, PathTypeOK, LookedOK
  <2>2. ParserInv'
    BY <2>1, ParserKeeps DEF PathInv
  <2>3. PathTypeOK'
    BY <2>1 DEF PathInv, PathTypeOK, pathVars, Looking, Answered
  <2>4. QED
    BY <2>1, <2>2, <2>3, IdleKeeps DEF pathVars
<1>2. CASE \E f \in Functions, o \in Option : Call(f, o)
  <2>1. PICK f \in Functions, o \in Option : Call(f, o)
    BY <1>2
  <2>2. /\ step = "idle" /\ step' = "getAs" /\ function' = f /\ key' = o
        /\ seen = {} /\ UNCHANGED <<parserVars, entry, changes, path, seen>>
    BY <2>1 DEF Call, Idle, PathInv, LookedOK
  <2>3. ParserInv'
    BY <2>2, ParserKeeps DEF PathInv
  <2>4. PathTypeOK'
    BY <2>2 DEF PathInv, PathTypeOK, Looking, Answered, Steps
  <2>5. QED
    BY <2>2, <2>3, <2>4, IdleKeeps
<1>3. CASE FunctionStep
  BY <1>3, FunctionKeeps
<1>4. CASE \E e \in Entries : Change(e)
  BY <1>4, ChangeKeeps
<1>5. CASE Return
  <2>1. ParserInv'
    BY <1>5, ParserKeeps DEF Return, PathInv
  <2>2. PathTypeOK'
    BY <1>5, CmdPathsAssumption DEF Return, PathTypeOK, Entries, Steps, Looking, Answered
  <2>3. QED
    BY <1>5, <2>1, <2>2, IdleKeeps DEF Return
<1>6. CASE Finished \/ UNCHANGED vars
  <2>1. UNCHANGED <<checkAsserts, desc_, vm_, m_final, parsed_options_, last, dead,
                    entry, changes, function, key, step, path, seen>>
    BY <1>6 DEF Finished, vars, parserVars, pathVars
  <2>2. ParserInv'
    BY <2>1, ParserKeeps DEF PathInv, parserVars
  <2>3. QED
    BY <2>1, <2>2 DEF PathInv, PathTypeOK, NoFileSoFar, DirectoryWasThere, FileWasThere,
       LookedOK, WhenCallsFail, Looking, Looks, Unread, Answered, Count, Failed
<1>7. QED
  BY <1>1, <1>2, <1>3, <1>4, <1>5, <1>6 DEF Next

\* It holds in the beginning.
LEMMA InitPaths == Init => PathInv
<1> SUFFICES ASSUME Init PROVE PathInv
  OBVIOUS
<1>1. ParserInv
  BY ParserInitially DEF Init
<1>2. PathTypeOK
  BY CmdPathsAssumption DEF Init, PathTypeOK, Entries, Steps, Looking, Answered
<1>3. LookedOK /\ NoFileSoFar /\ DirectoryWasThere /\ FileWasThere /\ WhenCallsFail
  BY DEF Init, LookedOK, Looking, NoFileSoFar, DirectoryWasThere, FileWasThere, WhenCallsFail, Answered
<1>4. QED
  BY <1>1, <1>2, <1>3 DEF PathInv

\* The invariant.
THEOREM PathInvariance == Spec => []PathInv
<1>1. QED
  BY InitPaths, NextKeeps, PTL DEF Spec

-------------------------------------------------------------------------------
(* What the runs check.                                                    *)

\* The types of the variables, and that only a value that is a path becomes one.
THEOREM TypeCorrect == Spec => []TypeOK
<1>1. PathInv => TypeOK
  BY DEF PathInv, ParserInv, PathTypeOK, TypeOK
<1>2. QED
  BY <1>1, PathInvariance, PTL

\* cmdKeyToDirectory: what is returned was a directory while the function looked.
THEOREM Directory == Spec => []DirectoryWasThere
<1>1. PathInv => DirectoryWasThere
  BY DEF PathInv
<1>2. QED
  BY <1>1, PathInvariance, PTL

\* cmdKeyToFile: what is returned was there, and a file if the path changed less
\* than twice, however often others may change it.
THEOREM File == Spec => []FileWasThere
<1>1. PathInv => FileWasThere
  BY DEF PathInv
<1>2. QED
  BY <1>1, PathInvariance, PTL

\* The functions throw exactly for what a failed init could not read, and end the
\* process only with assertions and for a path at which there was nothing.
THEOREM Throws == Spec => []WhenCallsFail
<1>1. PathInv => WhenCallsFail
  BY DEF PathInv
<1>2. QED
  BY <1>1, PathInvariance, PTL

\* init accepts every well-formed command line but those that give again what a
\* failed init has left; with assertions the process ends if nothing is stored.
THEOREM Accepted == Spec => []WellFormedIsAccepted
<1>1. PathInv => WellFormedIsAccepted
  BY DEF PathInv, ParserInv
<1>2. QED
  BY <1>1, PathInvariance, PTL

\* After an init that succeeded unregisteredOptions returns what was no option, if
\* it returns; with assertions just an argument with a comma in its key prevents that.
THEOREM UnregisteredOnes == Spec => []UnregisteredAreUnknown
<1>1. PathInv => UnregisteredAreUnknown
  <2> SUFFICES ASSUME PathInv, last # None, last.outcome = "accepted"
               PROVE  /\ Unregistered = Without(last.arguments, last.known)
                      /\ checkAsserts =>
                           (Reportable <=> \A i \in DOMAIN last.arguments :
                                             last.arguments[i].key \notin WithComma)
    BY DEF UnregisteredAreUnknown
  <2>1. /\ parsed_options_ = last.arguments /\ last.arguments \in Seq(Argument)
        /\ parsed_options_ # None /\ (checkAsserts => DOMAIN vm_ # {})
        /\ \A i \in 1..Len(last.arguments) :
             last.arguments[i].key \in last.known <=> last.arguments[i].key \in DOMAIN vm_
    BY CommandLinesAreSeqs, InitsAssumption DEF PathInv, ParserInv, JustTheOptions
  <2>2. Without(last.arguments, last.known) = Without(last.arguments, DOMAIN vm_)
    BY <2>1, WithoutFacts
  <2>3. QED
    BY <2>1, <2>2 DEF Unregistered, Reportable
<1>2. QED
  BY <1>1, PathInvariance, PTL

\* vm_ keeps the first value given for an option, whatever init is called with later.
THEOREM FirstValue == Spec => FirstValueStays
<1> DEFINE Stays == \A o \in DOMAIN vm_ : ~vm_[o].defaulted /\ vm_[o].value # None =>
                      o \in DOMAIN vm_' /\ vm_'[o] = vm_[o]
<1>1. PathInv /\ [Next]_vars => [Stays]_parserVars
  <2> SUFFICES ASSUME PathInv, Next PROVE Stays \/ UNCHANGED parserVars
    BY DEF vars, parserVars
  <2>1. CASE Parser
    <3>1. CASE \E arguments \in CommandLines : InitStores(arguments)
      <4>1. PICK arguments \in CommandLines : InitStores(arguments)
        BY <3>1
      <4>2. StageOK(vm_, arguments, Len(arguments), Store(vm_, arguments))
        BY CommandLinesAreSeqs, StoreFacts DEF PathInv, ParserInv, ParserTypeOK
      <4>3. vm_' = Store(vm_, arguments).vm
        BY <4>1 DEF InitStores
      <4>4. QED
        BY <4>2, <4>3 DEF StageOK, ValuesStay, Given
    <3>2. CASE ~ \E arguments \in CommandLines : InitStores(arguments)
      <4>1. vm_' = vm_
        BY <2>1, <3>2 DEF Parser, ParserNext, Register, InitUnparsable, InitAborts,
                          UnregisteredOptions, parserVars
      <4>2. QED
        BY <4>1
    <3>3. QED
      BY <3>1, <3>2
  <2>2. CASE ~Parser
    BY <2>2 DEF Next, Call, FunctionStep, Change, Return, Finished, Missing, BadCast, IntGiven,
                PathGiven, LookForPath, MakeAbsolute, Dcheck, PathExists, DirectoryExists,
                GetFileInfo, Go, vars
  <2>3. QED
    BY <2>1, <2>2
<1>2. QED
  BY <1>1, PathInvariance, PTL DEF Spec, FirstValueStays
===============================================================================
