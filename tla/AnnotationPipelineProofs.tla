----------------------- MODULE AnnotationPipelineProofs -----------------------
EXTENDS AnnotationProperties, NaturalLemmas, SequenceTheorems, TLAPS

Buffer == [text : Seq(Int), shift : Seq(Int)]

-------------------------------------------------------------------------------
(* The choice of the method.                                               *)

\* The loop of parseToMethods stops at a name that fits, and at the shortest.
LEMMA FirstMethodProps ==
  ASSUME NEW m, IsMethodMap(m), NEW a, Candidates(m, a) # {}
  PROVE  /\ FirstMethod(m, a) \in Candidates(m, a)
         /\ \A other \in Candidates(m, a) : Len(FirstMethod(m, a)) <= Len(other)
<1> DEFINE C == Candidates(m, a)
           L == {Len(key) : key \in C}
<1>1. C \subseteq Seq(Letter) /\ C # {}
  BY DEF IsMethodMap, Candidates
<1> HIDE DEF C
<1>2. L \in SUBSET Nat /\ L # {}
  <2>1. \A key \in C : Len(key) \in Nat
    BY <1>1, LenProperties
  <2>2. QED
    BY <1>1, <2>1
<1>3. PICK n \in L : \A k \in L : n <= k
  BY <1>2, SmallestInt
<1>4. PICK key \in C : Len(key) = n
  BY <1>3
<1>5. \A other \in C : Len(key) <= Len(other)
  BY <1>3, <1>4
<1>6. QED
  BY <1>4, <1>5 DEF FirstMethod, C

\* What becomes of a match is one of the outcomes; a method that runs is one
\* that is registered.
LEMMA OutcomeType ==
  ASSUME NEW m, IsMethodMap(m), NEW d \in Decl, d.attrs # <<>>
  PROVE  /\ Outcome(m, d) \in Outcomes
         /\ Outcome(m, d).is = "run" => Outcome(m, d).method \in DOMAIN m
<1> DEFINE a == d.attrs[1]
           key == FirstMethod(m, a)
<1>1. d.attrs \in Seq(Annotation)
  BY DEF Decl
<1>2. a \in Annotation
  BY <1>1
<1>3. a.text \in Seq(Letter)
  BY <1>2 DEF Annotation
<1>4. <<>> \in Seq(Letter)
  OBVIOUS
<1>5. CASE d.invalid \/ Candidates(m, a) = {}
  BY <1>4, <1>5 DEF Outcome, Outcomes, Skipped, Unregistered
<1>6. CASE ~d.invalid /\ Candidates(m, a) # {}
  <2>1. key \in Candidates(m, a)
    BY <1>6, FirstMethodProps
  <2>2. key \in DOMAIN m /\ key \in Seq(Letter) /\ Len(key) <= Len(a.text)
    BY <2>1 DEF Candidates, IsMethodMap, StartsWith
  <2>3. Without(a.text, key) \in Seq(Letter)
    BY <1>3, <2>2 DEF Without
  <2>4. Outcome(m, d) = [is |-> "run", method |-> key,
                         argument |-> Without(a.text, key)]
    BY <1>6 DEF Outcome
  <2> HIDE DEF key
  <2>5. QED
    BY <2>2, <2>3, <2>4 DEF Outcomes
<1>7. QED
  BY <1>5, <1>6

\* Of two names that begin one text the shorter begins the longer.
LEMMA PrefixesOfOneText ==
  ASSUME NEW s \in Seq(Letter), NEW k \in Seq(Letter), NEW l \in Seq(Letter),
         StartsWith(s, k), StartsWith(s, l), Len(l) <= Len(k)
  PROVE  StartsWith(k, l)
<1>1. Len(k) <= Len(s) /\ Len(l) <= Len(s)
  BY DEF StartsWith
<1>2. k = SubSeq(s, 1, Len(k)) /\ l = SubSeq(s, 1, Len(l))
  BY DEF StartsWith
<1>3. \A i \in 1..Len(k) : k[i] = s[i]
  BY <1>1, <1>2
<1>4. \A i \in 1..Len(l) : l[i] = s[i]
  BY <1>1, <1>2
<1>5. SubSeq(k, 1, Len(l)) \in Seq(Letter) /\ Len(SubSeq(k, 1, Len(l))) = Len(l)
  OBVIOUS
<1>6. \A i \in 1..Len(l) : SubSeq(k, 1, Len(l))[i] = l[i]
  BY <1>3, <1>4
<1>7. SubSeq(k, 1, Len(l)) = l
  BY <1>5, <1>6, SeqEqual
<1>8. QED
  BY <1>7 DEF StartsWith

\* A text is a prefix of it and what is left without the prefix.
LEMMA PrefixAndRest ==
  ASSUME NEW s \in Seq(Letter), NEW k \in Seq(Letter), StartsWith(s, k)
  PROVE  s = k \o Without(s, k)
<1>1. Len(k) \in 0..Len(s) /\ k = SubSeq(s, 1, Len(k))
  BY DEF StartsWith
<1>2. SubSeq(s, 1, Len(k)) \o SubSeq(s, Len(k) + 1, Len(s)) = SubSeq(s, 1, Len(s))
  <2>1. /\ 1 \in 1..(Len(s) + 1) /\ Len(k) \in (1 - 1)..Len(s)
        /\ Len(s) \in Len(k)..Len(s)
    BY <1>1
  <2>2. QED
    BY <2>1, ConcatAdjacentSubSeq
<1>3. SubSeq(s, 1, Len(s)) = s
  BY SubSeqFull
<1>4. QED
  BY <1>1, <1>2, <1>3 DEF Without

-------------------------------------------------------------------------------
(* The buffers.                                                            *)

\* A replacement that clang lets pass yields a buffer, for the same positions.
LEMMA ReplaceType ==
  ASSUME NEW b \in Buffer, NEW first \in 1..Len(b.shift), NEW size \in Int,
         NEW new \in Seq(Int), CanReplace(b, first, size)
  PROVE  /\ Replace(b, first, size, new) \in Buffer
         /\ Len(Replace(b, first, size, new).shift) = Len(b.shift)
<1> DEFINE at == Mapped(b, first)
           n == Len(b.text)
           text == SubSeq(b.text, 1, at - 1) \o new \o SubSeq(b.text, at + size, n)
           V(p) == IF p > first THEN b.shift[p] + Len(new) - size ELSE b.shift[p]
           shift == [p \in DOMAIN b.shift |-> V(p)]
<1>1. b.text \in Seq(Int) /\ b.shift \in Seq(Int)
  BY DEF Buffer
<1>2. b.shift[first] \in Int
  BY <1>1
<1>3. at \in Int /\ n \in Nat
  BY <1>1, <1>2 DEF Mapped
<1>4. at - 1 \in 0..n /\ at - 1 + size \in 0..n
  BY DEF CanReplace
<1> HIDE DEF at, n
<1>5. SubSeq(b.text, 1, at - 1) \in Seq(Int)
  <2>1. \A i \in 1..(at - 1) : b.text[i] \in Int
    BY <1>1, <1>3, <1>4 DEF n
  <2>2. QED
    BY <1>3, <2>1, SubSeqProperties
<1>6. SubSeq(b.text, at + size, n) \in Seq(Int)
  <2>1. \A i \in (at + size)..n : b.text[i] \in Int
    BY <1>1, <1>3, <1>4 DEF n
  <2>2. QED
    BY <1>3, <2>1, SubSeqProperties
<1>7. text \in Seq(Int)
  BY <1>5, <1>6, ConcatProperties
<1>8. shift \in Seq(Int) /\ Len(shift) = Len(b.shift)
  <2>1. DOMAIN b.shift = 1..Len(b.shift) /\ Len(b.shift) \in Nat
    BY <1>1
  <2>2. Len(new) \in Nat
    OBVIOUS
  <2>3. \A p \in 1..Len(b.shift) : b.shift[p] \in Int
    BY <1>1
  <2>4. \A p \in 1..Len(b.shift) : V(p) \in Int
    BY <2>2, <2>3
  <2>5. shift = [p \in 1..Len(b.shift) |-> V(p)]
    BY <2>1
  <2> HIDE DEF V, shift
  <2>6. shift \in [1..Len(b.shift) -> Int]
    BY <2>4, <2>5
  <2>7. \A k \in Nat : \A g \in [1..k -> Int] : g \in Seq(Int) /\ Len(g) = k
    OBVIOUS
  <2>8. QED
    BY <2>1, <2>6, <2>7
<1>9. Replace(b, first, size, new) = [text |-> text, shift |-> shift]
  BY DEF Replace, at, n
<1> HIDE DEF text, shift
<1>10. QED
  BY <1>7, <1>8, <1>9 DEF Buffer

LEMMA RangeSizeType ==
  ASSUME NEW b \in Buffer, NEW first \in 1..Len(b.shift), NEW last \in 1..Len(b.shift)
  PROVE  RangeSize(b, first, last) \in Int
<1>1. b.shift \in Seq(Int)
  BY DEF Buffer
<1>2. b.shift[first] \in Int /\ b.shift[last] \in Int
  BY <1>1, ElementOfSeq
<1>3. first \in Int /\ last \in Int
  OBVIOUS
<1>4. QED
  BY <1>2, <1>3 DEF RangeSize, Mapped

LEMMA UneditedType ==
  ASSUME NEW n \in Nat
  PROVE  Unedited(n) \in Buffer /\ Len(Unedited(n).shift) = n + 1
<1>1. [p \in 1..n |-> p] \in Seq(Int)
  OBVIOUS
<1>2. [p \in 1..(n + 1) |-> 0] \in [1..(n + 1) -> Int]
  OBVIOUS
<1>3. [p \in 1..(n + 1) |-> 0] \in Seq(Int) /\ Len([p \in 1..(n + 1) |-> 0]) = n + 1
  BY <1>2
<1>4. QED
  BY <1>1, <1>3 DEF Unedited, Buffer

-------------------------------------------------------------------------------
(* What the edits leave in place.                                          *)

\* Of a file of n tokens, those that are in no declaration of R.
Free(R, n) == (1..n) \ UNION {Extent(d) : d \in R}

\* The positions that may lie behind a declaration of R, and before one.
Behind(R, n) == Free(R, n) \cup {d.last + 1 : d \in R}
Before(R, n) == Free(R, n) \cup {d.outer : d \in R}

Apart(R) == \A d, e \in R : d # e => Extent(d) \cap Extent(e) = {}

\* The order of the positions is kept, and every free token is where its position
\* has gone; inside a declaration that was replaced positions may be anywhere.
InPlace(b, R, n) ==
  /\ \A p \in Behind(R, n), q \in Before(R, n) : p < q => Mapped(b, p) < Mapped(b, q)
  /\ \A d \in R : Mapped(b, d.outer) - 1 <= Mapped(b, d.last + 1)
  /\ \A p \in Free(R, n) : Mapped(b, p) \in DOMAIN b.text /\ b.text[Mapped(b, p)] = p

\* The declarations of R are in a file of n tokens.
Inside(R, n) == \A d \in R : d.outer \in 1..n /\ d.last \in d.outer..n

\* A position goes to a position.
LEMMA MappedType ==
  ASSUME NEW n \in Nat, NEW b \in Buffer, Len(b.shift) = n + 1
  PROVE  \A p \in 1..(n + 1) : Mapped(b, p) \in Int
<1>1. b.shift \in Seq(Int)
  BY DEF Buffer
<1>2. \A p \in 1..(n + 1) : b.shift[p] \in Int
  BY <1>1
<1>3. QED
  BY <1>2 DEF Mapped

\* Where the positions go in an edit.
LEMMA MappedAfter ==
  ASSUME NEW n \in Nat, NEW b \in Buffer, Len(b.shift) = n + 1,
         NEW first \in 1..n, NEW size \in Int, NEW new \in Seq(Int)
  PROVE  \A p \in 1..(n + 1) :
           Mapped(Replace(b, first, size, new), p)
             = IF p > first THEN Mapped(b, p) + Len(new) - size ELSE Mapped(b, p)
<1>1. b.shift \in Seq(Int) /\ DOMAIN b.shift = 1..(n + 1)
  BY DEF Buffer
<1>2. \A p \in 1..(n + 1) : b.shift[p] \in Int
  BY <1>1
<1>3. Len(new) \in Nat
  OBVIOUS
<1>4. \A p \in 1..(n + 1) : Replace(b, first, size, new).shift[p]
        = IF p > first THEN b.shift[p] + Len(new) - size ELSE b.shift[p]
  BY <1>1 DEF Replace
<1>5. QED
  BY <1>2, <1>3, <1>4 DEF Mapped

\* What the text is after an edit.
LEMMA TextAfter ==
  ASSUME NEW b \in Buffer, NEW first, NEW size \in Int, NEW new \in Seq(Int),
         Mapped(b, first) \in Int, CanReplace(b, first, size)
  PROVE  /\ DOMAIN Replace(b, first, size, new).text = 1..(Len(b.text) + Len(new) - size)
         /\ \A i \in 1..(Mapped(b, first) - 1) :
              Replace(b, first, size, new).text[i] = b.text[i]
         /\ \A i \in (Mapped(b, first) + size)..Len(b.text) :
              Replace(b, first, size, new).text[i + Len(new) - size] = b.text[i]
<1> DEFINE at    == Mapped(b, first)
           n     == Len(b.text)
           k     == Len(new)
           left  == SubSeq(b.text, 1, at - 1)
           right == SubSeq(b.text, at + size, n)
           text  == left \o new \o right
<1>1. b.text \in Seq(Int) /\ n \in Nat /\ k \in Nat /\ at \in Int
  BY DEF Buffer
<1>2. at - 1 \in 0..n /\ at - 1 + size \in 0..n
  BY DEF CanReplace
<1> HIDE DEF at, n
<1>3. /\ left \in Seq(Int) /\ Len(left) = at - 1
      /\ \A i \in 1..(at - 1) : left[i] = b.text[i]
  <2>1. \A i \in 1..(at - 1) : b.text[i] \in Int
    BY <1>1, <1>2 DEF n
  <2>2. QED
    BY <1>1, <1>2, <2>1, SubSeqProperties
<1>4. /\ right \in Seq(Int) /\ Len(right) = n + 1 - (at + size)
      /\ \A i \in 1..(n + 1 - (at + size)) : right[i] = b.text[at + size - 1 + i]
  <2>1. \A i \in (at + size)..n : b.text[i] \in Int
    BY <1>1, <1>2 DEF n
  <2>2. QED
    BY <1>1, <1>2, <2>1, SubSeqProperties
<1> HIDE DEF left, right
<1> DEFINE front == left \o new
<1>5. /\ front \in Seq(Int) /\ Len(front) = at - 1 + k
      /\ \A i \in 1..(at - 1) : front[i] = left[i]
  <2>1. /\ front \in Seq(Int) /\ Len(front) = Len(left) + Len(new)
        /\ \A i \in 1..(Len(left) + Len(new)) :
             front[i] = IF i <= Len(left) THEN left[i] ELSE new[i - Len(left)]
    BY <1>3, ConcatProperties
  <2> HIDE DEF front
  <2>2. Len(new) = k /\ Len(left) = at - 1
    BY <1>3
  <2> HIDE DEF k
  <2>3. Len(front) = at - 1 + k
    BY <2>1, <2>2
  <2>4. ASSUME NEW i \in 1..(at - 1)
        PROVE  front[i] = left[i]
    <3>1. i \in 1..(Len(left) + Len(new)) /\ i <= Len(left)
      BY <1>1, <1>2, <2>2
    <3>2. QED
      BY <2>1, <3>1
  <2>5. QED
    BY <2>1, <2>3, <2>4
<1> HIDE DEF front
<1>6. /\ front \o right \in Seq(Int)
      /\ Len(front \o right) = Len(front) + Len(right)
      /\ \A i \in 1..(Len(front) + Len(right)) :
           (front \o right)[i] = IF i <= Len(front) THEN front[i] ELSE right[i - Len(front)]
  <2>1. front \in Seq(Int) /\ right \in Seq(Int)
    BY <1>4, <1>5
  <2>2. QED
    BY <2>1, ConcatProperties
<1>7. text = front \o right /\ Len(text) = n + k - size /\ text \in Seq(Int)
  BY <1>1, <1>2, <1>4, <1>5, <1>6 DEF front
<1> HIDE DEF text
<1>8. DOMAIN text = 1..(n + k - size)
  BY <1>7
<1>9. \A i \in 1..(at - 1) : text[i] = b.text[i]
  BY <1>1, <1>2, <1>3, <1>4, <1>5, <1>6, <1>7 DEF front
<1>10. ASSUME NEW i \in (at + size)..n
       PROVE  text[i + k - size] = b.text[i]
  <2> DEFINE j == i + 1 - (at + size)
  <2>1. j \in 1..(n + 1 - (at + size)) /\ i + k - size = Len(front) + j
    BY <1>1, <1>2, <1>5 DEF front
  <2>2. Len(front) \in Nat /\ Len(right) \in Nat
    BY <1>1, <1>2, <1>4, <1>5 DEF front
  <2>3. text[Len(front) + j] = right[j]
    <3> DEFINE x == Len(front) + j
    <3>1. /\ x \in 1..(Len(front) + Len(right))
          /\ ~(x <= Len(front)) /\ x - Len(front) = j
      BY <1>4, <2>1, <2>2
    <3> HIDE DEF x, j
    <3>2. (front \o right)[x] = right[j]
      BY <1>6, <3>1
    <3>3. QED
      BY <1>7, <3>2 DEF x
  <2>4. right[j] = b.text[i]
    <3>1. at + size - 1 + j = i
      BY <1>1, <1>2
    <3>2. right[j] = b.text[at + size - 1 + j]
      BY <1>4, <2>1
    <3>3. QED
      BY <3>1, <3>2
  <2>5. QED
    BY <2>1, <2>3, <2>4
<1>11. text = Replace(b, first, size, new).text
  BY DEF Replace, text, left, right, at, n
<1>12. QED
  BY <1>8, <1>9, <1>10, <1>11 DEF at, n

\* Where the declarations that are replaced lie to each other.
LEMMA ApartFacts ==
  ASSUME NEW n \in Nat, NEW R, Inside(R, n), Apart(R), NEW d \in R
  PROVE  /\ Behind(R, n) \subseteq 1..(n + 1) /\ Before(R, n) \subseteq 1..(n + 1)
         /\ \A p \in Behind(R, n) : p = d.last + 1 \/ p < d.outer \/ p > d.last + 1
         /\ \A p \in Before(R, n) : p = d.outer \/ p < d.outer \/ p > d.last + 1
         /\ \A e \in R : e # d => e.outer > d.last + 1 \/ e.last + 1 < d.outer
<1>1. \A e \in R : /\ e.outer \in 1..n /\ e.last \in 1..n /\ e.outer <= e.last
                   /\ Extent(e) = e.outer..(e.last + 1)
  BY DEF Inside, Extent
<1>2. \A e \in R : e.outer \in Extent(e) /\ e.last + 1 \in Extent(e)
  BY <1>1
<1>3. \A p \in Free(R, n) : p \in 1..n /\ p \notin Extent(d)
  BY DEF Free
<1>4. \A e \in R : e # d => e.outer \notin Extent(d) /\ e.last + 1 \notin Extent(d)
                            /\ d.outer \notin Extent(e)
  BY <1>2 DEF Apart
<1>5. Behind(R, n) \subseteq 1..(n + 1) /\ Before(R, n) \subseteq 1..(n + 1)
  BY <1>1, <1>3 DEF Behind, Before
<1>6. \A p \in Behind(R, n) : p = d.last + 1 \/ p \notin Extent(d)
  BY <1>3, <1>4 DEF Behind
<1>7. \A p \in Before(R, n) : p = d.outer \/ p \notin Extent(d)
  BY <1>3, <1>4 DEF Before
<1>8. \A p \in 1..(n + 1) : p \notin Extent(d) => p < d.outer \/ p > d.last + 1
  BY <1>1
<1>9. \A e \in R : e # d => e.outer > d.last + 1 \/ e.last + 1 < d.outer
  <2> SUFFICES ASSUME NEW e \in R, e # d PROVE e.outer > d.last + 1 \/ e.last + 1 < d.outer
    OBVIOUS
  <2>1. d.outer \notin e.outer..(e.last + 1) /\ e.outer \notin d.outer..(d.last + 1)
    BY <1>1, <1>4
  <2>2. QED
    BY <1>1, <2>1
<1>10. QED
  BY <1>5, <1>6, <1>7, <1>8, <1>9

\* An edit keeps everything outside the declarations in place, also if its end is
\* invalid: then the size is -1, and a token is doubled.
LEMMA EditKeeps ==
  ASSUME NEW n \in Nat, NEW R, Inside(R, n), Apart(R), NEW d \in R,
         NEW b \in Buffer, Len(b.shift) = n + 1, InPlace(b, R, n),
         NEW size \in {-1, RangeSize(b, d.outer, d.last + 1)},
         NEW new \in Seq(Int), CanReplace(b, d.outer, size)
  PROVE  InPlace(Replace(b, d.outer, size, new), R, n)
<1> DEFINE c    == Replace(b, d.outer, size, new)
           M(p) == Mapped(b, p)
           N(p) == Mapped(c, p)
           k    == Len(new)
           at   == M(d.outer)
           end  == M(d.last + 1)
<1>1. /\ d.outer \in 1..n /\ d.last + 1 \in 1..(n + 1) /\ d.outer \in 1..(n + 1)
      /\ d.last + 1 > d.outer
  BY DEF Inside
<1>2. k \in Nat
  OBVIOUS
<1>3. \A p \in 1..(n + 1) : M(p) \in Int
  BY MappedType
<1>4. size \in Int /\ (size = -1 \/ size = end - at + 1)
  BY <1>1, <1>3 DEF RangeSize
<1>5. \A p \in 1..(n + 1) : N(p) = IF p > d.outer THEN M(p) + k - size ELSE M(p)
  BY <1>1, <1>4, MappedAfter
<1>6. /\ Behind(R, n) \subseteq 1..(n + 1) /\ Before(R, n) \subseteq 1..(n + 1)
      /\ \A p \in Behind(R, n) : p = d.last + 1 \/ p < d.outer \/ p > d.last + 1
      /\ \A p \in Before(R, n) : p = d.outer \/ p < d.outer \/ p > d.last + 1
      /\ \A e \in R : e # d => e.outer > d.last + 1 \/ e.last + 1 < d.outer
  BY ApartFacts
<1>7. d.outer \in Before(R, n) /\ d.last + 1 \in Behind(R, n)
  BY DEF Before, Behind
<1>8. at \in Int /\ end \in Int /\ at - 1 <= end
  BY <1>1, <1>3 DEF InPlace
<1>9. \A p \in Behind(R, n), q \in Before(R, n) : p < q => M(p) < M(q)
  BY DEF InPlace
<1>10. \A p \in Behind(R, n) : p < d.outer => M(p) < at
  BY <1>7, <1>9
<1>11. \A q \in Before(R, n) : q > d.last + 1 => M(q) > end
  <2>1. \A q \in Before(R, n) : q > d.last + 1 => d.last + 1 < q
    BY <1>1, <1>6
  <2>2. QED
    BY <1>7, <1>9, <2>1
<1>12. \A p \in Free(R, n) :
         /\ p \in Behind(R, n) /\ p \in Before(R, n)
         /\ M(p) \in DOMAIN b.text /\ b.text[M(p)] = p
  BY DEF InPlace, Behind, Before
<1>13. /\ DOMAIN c.text = 1..(Len(b.text) + k - size)
       /\ \A i \in 1..(at - 1) : c.text[i] = b.text[i]
       /\ \A i \in (at + size)..Len(b.text) : c.text[i + k - size] = b.text[i]
  <2>1. Mapped(b, d.outer) \in Int /\ CanReplace(b, d.outer, size)
    BY <1>8
  <2>2. size \in Int /\ b \in Buffer /\ new \in Seq(Int)
    BY <1>4
  <2>3. /\ DOMAIN Replace(b, d.outer, size, new).text = 1..(Len(b.text) + Len(new) - size)
        /\ \A i \in 1..(Mapped(b, d.outer) - 1) :
             Replace(b, d.outer, size, new).text[i] = b.text[i]
        /\ \A i \in (Mapped(b, d.outer) + size)..Len(b.text) :
             Replace(b, d.outer, size, new).text[i + Len(new) - size] = b.text[i]
    BY <2>1, <2>2, TextAfter
  <2>4. QED
    BY <2>3
<1>14. /\ DOMAIN b.text = 1..Len(b.text) /\ Len(b.text) \in Nat
       /\ at - 1 \in 0..Len(b.text) /\ at - 1 + size \in 0..Len(b.text)
  BY DEF Buffer, CanReplace
<1>15. \A e \in R : M(e.outer) - 1 <= M(e.last + 1)
  BY DEF InPlace
<1>16. \A e \in R : e.outer \in 1..(n + 1) /\ e.last + 1 \in 1..(n + 1) /\ e.outer < e.last + 1
  BY DEF Inside
<1> HIDE DEF c, M, N, k, at, end
<1>17. ASSUME NEW p \in Behind(R, n), NEW q \in Before(R, n), p < q
       PROVE  N(p) < N(q)
  <2>1. p \in 1..(n + 1) /\ q \in 1..(n + 1) /\ M(p) \in Int /\ M(q) \in Int
    BY <1>3, <1>6
  <2>2. M(p) < M(q)
    BY <1>9, <1>17
  <2>3. CASE p <= d.outer /\ d.outer < q
    <3>1. p < d.outer /\ q > d.last + 1
      BY <1>1, <1>6, <2>1, <2>3
    <3>2. M(p) < at /\ M(q) > end
      BY <1>10, <1>11, <3>1
    <3>3. N(p) = M(p) /\ N(q) = M(q) + k - size
      BY <1>1, <1>5, <2>1, <2>3
    <3>4. QED
      BY <1>2, <1>4, <1>8, <2>1, <3>2, <3>3
  <2>4. CASE ~(p <= d.outer /\ d.outer < q)
    BY <1>1, <1>2, <1>4, <1>5, <1>17, <2>1, <2>2, <2>4
  <2>5. QED
    BY <2>3, <2>4
<1>18. ASSUME NEW e \in R
       PROVE  N(e.outer) - 1 <= N(e.last + 1)
  <2>1. /\ M(e.outer) \in Int /\ M(e.last + 1) \in Int
        /\ M(e.outer) - 1 <= M(e.last + 1)
    BY <1>3, <1>15, <1>16
  <2>2. CASE e = d
    <3>1. N(e.outer) = at /\ N(e.last + 1) = end + k - size
      BY <1>1, <1>5, <2>2 DEF at, end
    <3>2. QED
      BY <1>2, <1>4, <1>8, <3>1
  <2>3. CASE e # d
    <3>1. e.outer > d.outer <=> e.last + 1 > d.outer
      BY <1>1, <1>6, <1>16, <2>3
    <3>2. CASE e.outer > d.outer
      <4>1. N(e.outer) = M(e.outer) + k - size /\ N(e.last + 1) = M(e.last + 1) + k - size
        BY <1>5, <1>16, <3>1, <3>2
      <4>2. QED
        BY <1>2, <1>4, <2>1, <4>1
    <3>3. CASE ~(e.outer > d.outer)
      <4>1. N(e.outer) = M(e.outer) /\ N(e.last + 1) = M(e.last + 1)
        BY <1>5, <1>16, <3>1, <3>3
      <4>2. QED
        BY <2>1, <4>1
    <3>4. QED
      BY <3>2, <3>3
  <2>4. QED
    BY <2>2, <2>3
<1>19. ASSUME NEW p \in Free(R, n)
       PROVE  N(p) \in DOMAIN c.text /\ c.text[N(p)] = p
  <2>1. /\ p \in 1..(n + 1) /\ M(p) \in 1..Len(b.text) /\ b.text[M(p)] = p
        /\ p \in Behind(R, n) /\ p \in Before(R, n)
    BY <1>6, <1>12, <1>14
  <2>2. CASE p < d.outer
    <3>1. M(p) < at /\ N(p) = M(p)
      BY <1>1, <1>5, <1>10, <2>1, <2>2
    <3>2. M(p) \in 1..(at - 1)
      BY <1>8, <2>1, <3>1
    <3>3. M(p) \in DOMAIN c.text
      BY <1>2, <1>4, <1>8, <1>13, <1>14, <3>2
    <3>4. QED
      BY <1>13, <2>1, <3>1, <3>2, <3>3
  <2>3. CASE p > d.last + 1
    <3>1. M(p) > end /\ N(p) = M(p) + k - size
      BY <1>1, <1>5, <1>11, <2>1, <2>3
    <3>2. M(p) \in (at + size)..Len(b.text)
      BY <1>4, <1>8, <1>14, <2>1, <3>1
    <3>3. N(p) \in DOMAIN c.text
      <4>1. M(p) + k - size \in 1..(Len(b.text) + k - size)
        <5>1. M(p) \in Int /\ M(p) <= Len(b.text) /\ at + size <= M(p) /\ 1 <= at
          BY <1>4, <1>8, <1>14, <2>1, <3>2
        <5>2. size \in Int /\ k \in Nat /\ at \in Int /\ Len(b.text) \in Nat
          BY <1>2, <1>4, <1>8, <1>14
        <5>3. M(p) + k - size \in Int /\ 1 <= M(p) + k - size
          BY <5>1, <5>2
        <5>4. M(p) + k - size <= Len(b.text) + k - size
          BY <5>1, <5>2
        <5>5. QED
          BY <5>2, <5>3, <5>4
      <4>2. QED
        BY <1>13, <3>1, <4>1
    <3>4. QED
      BY <1>13, <2>1, <3>1, <3>2, <3>3
  <2>4. QED
    BY <1>1, <1>6, <2>1, <2>2, <2>3
<1>20. QED
  BY <1>17, <1>18, <1>19 DEF InPlace, c, N

\* Nothing has moved in a new buffer.
LEMMA UneditedInPlace ==
  ASSUME NEW n \in Nat, NEW R, Inside(R, n)
  PROVE  InPlace(Unedited(n), R, n)
<1>1. \A p \in 1..(n + 1) : Mapped(Unedited(n), p) = p
  BY DEF Mapped, Unedited
<1>2. \A d \in R : /\ d.outer \in 1..(n + 1) /\ d.last \in 1..n
                   /\ d.last + 1 \in 1..(n + 1) /\ d.outer <= d.last
  BY DEF Inside
<1>3. Free(R, n) \subseteq 1..n
  BY DEF Free
<1>4. Behind(R, n) \subseteq 1..(n + 1) /\ Before(R, n) \subseteq 1..(n + 1)
  BY <1>2, <1>3 DEF Behind, Before
<1>5. \A p \in Behind(R, n), q \in Before(R, n) :
        p < q => Mapped(Unedited(n), p) < Mapped(Unedited(n), q)
  BY <1>1, <1>4
<1>6. \A d \in R : Mapped(Unedited(n), d.outer) - 1 <= Mapped(Unedited(n), d.last + 1)
  BY <1>1, <1>2
<1>7. ASSUME NEW p \in Free(R, n)
      PROVE  /\ Mapped(Unedited(n), p) \in DOMAIN Unedited(n).text
             /\ Unedited(n).text[Mapped(Unedited(n), p)] = p
  <2>1. p \in 1..n /\ Mapped(Unedited(n), p) = p
    BY <1>1, <1>3
  <2>2. DOMAIN Unedited(n).text = 1..n /\ Unedited(n).text[p] = p
    BY <2>1 DEF Unedited
  <2>3. QED
    BY <2>1, <2>2
<1>8. QED
  BY <1>5, <1>6, <1>7 DEF InPlace

-------------------------------------------------------------------------------
(* Texts put together piece by piece.                                      *)

\* F[p] is the text of the first p pieces.
Joins(F, pieces, n) ==
  /\ F \in [0..n -> Seq(Int)] /\ F[0] = <<>>
  /\ \A p \in 1..n : F[p] = F[p - 1] \o pieces[p]

\* Texts can be put together in any grouping.
LEMMA Associative ==
  \A s, t, u \in Seq(Int) : (s \o t) \o u = s \o (t \o u)
<1> TAKE s, t, u \in Seq(Int)
<1>1. QED
  BY ConcatAssociative

\* The two halves of a text.
LEMMA Halves ==
  ASSUME NEW s \in Seq(Int), NEW t \in Seq(Int)
  PROVE  /\ SubSeq(s \o t, 1, Len(s)) = s
         /\ SubSeq(s \o t, Len(s) + 1, Len(s \o t)) = t
<1> DEFINE st    == s \o t
           left  == SubSeq(st, 1, Len(s))
           right == SubSeq(st, Len(s) + 1, Len(st))
<1>1. Len(s) \in Nat /\ Len(t) \in Nat
  OBVIOUS
<1>2. /\ st \in Seq(Int) /\ Len(st) = Len(s) + Len(t)
      /\ \A i \in 1..(Len(s) + Len(t)) : st[i] = IF i <= Len(s) THEN s[i] ELSE t[i - Len(s)]
  BY ConcatProperties
<1> HIDE DEF st
<1>3. \A i \in 1..Len(st) : st[i] \in Int
  BY <1>2
<1>4. left = s
  <2>1. \A i \in 1..Len(s) : st[i] \in Int /\ st[i] = s[i]
    BY <1>1, <1>2, <1>3
  <2>2. /\ left \in Seq(Int) /\ Len(left) = Len(s)
        /\ \A i \in 1..Len(s) : left[i] = s[i]
    BY <1>1, <2>1, SubSeqProperties
  <2> HIDE DEF left
  <2>3. QED
    BY <2>2, SeqEqual
<1>5. right = t
  <2>1. \A i \in (Len(s) + 1)..Len(st) : st[i] \in Int /\ st[i] = t[i - Len(s)]
    BY <1>1, <1>2, <1>3
  <2>2. /\ right \in Seq(Int) /\ Len(right) = Len(t)
        /\ \A i \in 1..Len(t) : right[i] = st[Len(s) + i]
    <3>1. /\ Len(s) + 1 \in Int /\ Len(st) \in Int
          /\ Len(t) = IF Len(s) + 1 <= Len(st) THEN Len(st) - (Len(s) + 1) + 1 ELSE 0
          /\ Len(st) - (Len(s) + 1) + 1 = Len(t)
      BY <1>1, <1>2
    <3>2. /\ right \in Seq(Int) /\ Len(right) = Len(t)
          /\ \A i \in 1..(Len(st) - (Len(s) + 1) + 1) : right[i] = st[Len(s) + 1 + i - 1]
      BY <2>1, <3>1, SubSeqProperties
    <3> HIDE DEF right
    <3>3. ASSUME NEW i \in 1..Len(t)
          PROVE  right[i] = st[Len(s) + i]
      <4>1. Len(s) + 1 + i - 1 = Len(s) + i /\ i \in 1..(Len(st) - (Len(s) + 1) + 1)
        BY <1>1, <3>1
      <4>2. right[i] = st[Len(s) + 1 + i - 1]
        BY <3>2, <4>1
      <4>3. QED
        BY <4>1, <4>2
    <3>4. QED
      BY <3>2, <3>3
  <2> HIDE DEF right
  <2>3. ASSUME NEW i \in 1..Len(t)
        PROVE  right[i] = t[i]
    <3>1. Len(s) + i \in (Len(s) + 1)..Len(st) /\ Len(s) + i - Len(s) = i
      BY <1>1, <1>2
    <3>2. st[Len(s) + i] = t[Len(s) + i - Len(s)]
      BY <2>1, <3>1
    <3>3. QED
      BY <2>2, <3>1, <3>2
  <2>4. QED
    BY <2>2, <2>3, SeqEqual
<1>6. QED
  BY <1>4, <1>5 DEF left, right, st

\* There is such an F, and FlattenSeq returns its end.
LEMMA Flattened ==
  ASSUME NEW n \in Nat, NEW pieces \in [1..n -> Seq(Int)]
  PROVE  \E F : Joins(F, pieces, n) /\ FlattenSeq(pieces) = F[n]
<1> DEFINE g == [kv \in (1..n) \X Seq(Int) |-> kv[2] \o pieces[kv[1]]]
<1>1. <<>> \in Seq(Int)
  OBVIOUS
<1>2. \A k \in 1..n, v \in Seq(Int) : g[<<k, v>>] = v \o pieces[k] /\ g[<<k, v>>] \in Seq(Int)
  <2>1. \A k \in 1..n, v \in Seq(Int) : v \o pieces[k] \in Seq(Int)
    BY ConcatProperties
  <2>2. QED
    BY <2>1
<1>3. g \in [(1..n) \X Seq(Int) -> Seq(Int)]
  BY <1>2
<1> HIDE DEF g
<1>4. PICK F : IsLoop(F, n, Seq(Int), <<>>, g)
  BY <1>1, <1>3, RecursionUpTo
<1>5. F \in [0..n -> Seq(Int)] /\ F[0] = <<>>
  BY <1>4 DEF IsLoop
<1>6. ASSUME NEW k \in 1..n
      PROVE  F[k] = F[k - 1] \o pieces[k]
  <2>1. k - 1 \in 0..n /\ F[k - 1] \in Seq(Int)
    BY <1>5
  <2>2. F[k] = g[<<k, F[k - 1]>>]
    BY <1>4 DEF IsLoop
  <2>3. QED
    BY <1>2, <2>1, <2>2
<1>7. Joins(F, pieces, n)
  BY <1>5, <1>6 DEF Joins
<1>8. DOMAIN pieces = 1..n /\ pieces \in Seq(Seq(Int)) /\ Len(pieces) = n
  OBVIOUS
<1>9. CASE n = 0
  <2>1. FlattenSeq(pieces) = pieces
    BY <1>8, <1>9 DEF FlattenSeq
  <2>2. pieces = <<>>
    BY <1>8, <1>9
  <2>3. QED
    BY <1>5, <1>7, <1>9, <2>1, <2>2
<1>10. CASE n # 0
  <2> DEFINE Body(f) == [i \in 1..n |-> IF i = 1 THEN pieces[i] ELSE f[i - 1] \o pieces[i]]
             h == [i \in 1..n |-> F[i]]
             flatten == CHOOSE f : f = Body(f)
  <2>1. \A i \in 1..n : h[i] = IF i = 1 THEN pieces[i] ELSE h[i - 1] \o pieces[i]
    <3>1. ASSUME NEW i \in 1..n, i = 1
          PROVE  h[i] = pieces[i]
      <4>1. F[i] = <<>> \o pieces[i] /\ pieces[i] \in Seq(Int)
        <5>1. F[i] = F[i - 1] \o pieces[i] /\ i - 1 = 0
          BY <1>6, <3>1
        <5>2. QED
          BY <1>5, <5>1
      <4>2. QED
        BY <4>1, ConcatEmptySeq
    <3>2. ASSUME NEW i \in 1..n, i # 1
          PROVE  h[i] = h[i - 1] \o pieces[i]
      <4>1. i - 1 \in 1..n
        BY <3>2
      <4>2. QED
        BY <1>6, <4>1
    <3> HIDE DEF h
    <3>3. QED
      BY <3>1, <3>2
  <2>2. h = Body(h)
    BY <2>1
  <2>3. flatten = Body(flatten)
    <3>1. \E f : f = Body(f)
      BY <2>2
    <3> HIDE DEF Body
    <3>2. QED
      BY <3>1
  <2>4. FlattenSeq(pieces) = flatten[n]
    BY <1>8, <1>10 DEF FlattenSeq
  <2>5. \A i \in 1..n : flatten[i] = IF i = 1 THEN pieces[i] ELSE flatten[i - 1] \o pieces[i]
    <3> HIDE DEF flatten
    <3>1. QED
      BY <2>3
  <2> HIDE DEF flatten
  <2> DEFINE H == [i \in 0..n |-> IF i = 0 THEN <<>> ELSE flatten[i]]
             S == {i \in 1..n : flatten[i] # F[i]}
  <2>6. S = {}
    <3>1. SUFFICES ASSUME S # {} PROVE FALSE
      OBVIOUS
    <3>2. PICK i \in S : \A j \in S : i <= j
      <4>1. S \in SUBSET Nat
        OBVIOUS
      <4>2. QED
        BY <3>1, <4>1, SmallestInt
    <3>3. i \in 1..n /\ flatten[i] # F[i] /\ i \in Nat
      OBVIOUS
    <3>4. CASE i = 1
      <4>1. F[i] = <<>> \o pieces[i] /\ pieces[i] \in Seq(Int)
        <5>1. F[i] = F[i - 1] \o pieces[i] /\ i - 1 = 0
          BY <1>6, <3>3, <3>4
        <5>2. QED
          BY <1>5, <3>3, <5>1
      <4>2. QED
        BY <2>5, <3>3, <3>4, <4>1, ConcatEmptySeq
    <3>5. CASE i # 1
      <4>1. i - 1 \in 1..n /\ i - 1 \notin S
        BY <3>2, <3>3, <3>5
      <4>2. flatten[i - 1] = F[i - 1]
        BY <4>1
      <4>3. F[i] = F[i - 1] \o pieces[i]
        BY <1>6, <3>3
      <4>4. flatten[i] = flatten[i - 1] \o pieces[i]
        BY <2>5, <3>3, <3>5
      <4>5. QED
        BY <3>3, <4>2, <4>3, <4>4
    <3>6. QED
      BY <3>4, <3>5
  <2>7. n \in 1..n
    BY <1>10
  <2>8. QED
    BY <1>7, <2>4, <2>6, <2>7
<1>11. QED
  BY <1>9, <1>10

\* F and G are put together of n pieces, and those behind i up to j are the same.
Alike(F, s, G, t, n, i, j) ==
  /\ n \in Nat /\ Joins(F, s, n) /\ Joins(G, t, n)
  /\ i \in 0..n /\ j \in 0..n
  /\ \A k \in (i + 1)..j : s[k] = t[k] /\ s[k] \in Seq(Int)

\* Texts of the same pieces are the same.
LEMMA SameBefore ==
  ASSUME NEW n, NEW F, NEW s, NEW G, NEW t, NEW m, Alike(F, s, G, t, n, 0, m)
  PROVE  \A p \in 0..m : F[p] = G[p]
<1> USE DEF Alike
<1> DEFINE S == {p \in 0..m : F[p] # G[p]}
<1>1. SUFFICES ASSUME S # {} PROVE FALSE
  OBVIOUS
<1>2. PICK p \in S : \A j \in S : p <= j
  <2>1. S \in SUBSET Nat
    OBVIOUS
  <2>2. QED
    BY <1>1, <2>1, SmallestInt
<1>3. p # 0
  BY DEF Joins
<1>4. p \in 1..m /\ p \in 1..n /\ p - 1 \in 0..m /\ p - 1 \notin S
  BY <1>2, <1>3
<1>5. F[p - 1] = G[p - 1]
  BY <1>4
<1>6. F[p] = F[p - 1] \o s[p] /\ G[p] = G[p - 1] \o t[p]
  BY <1>4 DEF Joins
<1>7. s[p] = t[p]
  BY <1>4
<1>8. QED
  BY <1>5, <1>6, <1>7

\* F and G go on from m to p in the same way.
SameEnds(F, G, m, p) == \E x \in Seq(Int) : F[p] = F[m] \o x /\ G[p] = G[m] \o x

\* What comes behind m is the same if the pieces behind m are.
LEMMA SameBehind ==
  ASSUME NEW n, NEW F, NEW s, NEW G, NEW t, NEW m, NEW j, Alike(F, s, G, t, n, m, j)
  PROVE  \A p \in m..j : SameEnds(F, G, m, p)
<1> USE DEF Alike
<1> DEFINE S == {p \in m..j : ~SameEnds(F, G, m, p)}
<1>1. SUFFICES ASSUME S # {} PROVE FALSE
  OBVIOUS
<1>2. PICK p \in S : \A q \in S : p <= q
  <2>1. S \in SUBSET Nat
    OBVIOUS
  <2>2. QED
    BY <1>1, <2>1, SmallestInt
<1>3. \A i \in 0..n : F[i] \in Seq(Int) /\ G[i] \in Seq(Int)
  BY DEF Joins
<1>4. SameEnds(F, G, m, m)
  <2>1. <<>> \in Seq(Int) /\ F[m] = F[m] \o <<>> /\ G[m] = G[m] \o <<>>
    BY <1>3, ConcatEmptySeq
  <2>2. QED
    BY <2>1 DEF SameEnds
<1>5. p # m
  BY <1>4
<1>6. p \in (m + 1)..j /\ p \in 1..n /\ p - 1 \in m..j /\ p - 1 \notin S
  <2>1. p \in m..j /\ m \in Nat /\ p \in Nat
    OBVIOUS
  <2>2. p \in (m + 1)..j /\ p \in 1..n /\ p - 1 \in m..j /\ p - 1 \in Nat /\ ~(p <= p - 1)
    BY <1>5, <2>1
  <2>3. QED
    BY <1>2, <2>2
<1>7. PICK x \in Seq(Int) : F[p - 1] = F[m] \o x /\ G[p - 1] = G[m] \o x
  BY <1>6 DEF SameEnds
<1>8. /\ F[p] = F[p - 1] \o s[p] /\ G[p] = G[p - 1] \o t[p]
      /\ s[p] = t[p] /\ s[p] \in Seq(Int)
  BY <1>6 DEF Joins
<1>9. x \o s[p] \in Seq(Int)
  BY <1>8, ConcatProperties
<1>10. F[m] \in Seq(Int) /\ G[m] \in Seq(Int) /\ s[p] \in Seq(Int)
  BY <1>3, <1>8
<1>11. (F[m] \o x) \o s[p] = F[m] \o (x \o s[p])
  BY <1>10, Associative
<1>12. (G[m] \o x) \o s[p] = G[m] \o (x \o s[p])
  BY <1>10, Associative
<1>13. SameEnds(F, G, m, p)
  BY <1>7, <1>8, <1>9, <1>11, <1>12 DEF SameEnds
<1>14. QED
  BY <1>13


\* Empty pieces add nothing.
LEMMA NothingAdded ==
  ASSUME NEW n \in Nat, NEW G, NEW t, Joins(G, t, n), NEW a \in 0..n, NEW z \in a..n,
         \A k \in (a + 1)..z : t[k] = <<>>
  PROVE  G[z] = G[a]
<1> DEFINE S == {p \in a..z : G[p] # G[a]}
<1>1. SUFFICES ASSUME S # {} PROVE FALSE
  <2>1. z \in a..z
    OBVIOUS
  <2>2. QED
    BY <2>1
<1>2. PICK p \in S : \A j \in S : p <= j
  <2>1. S \in SUBSET Nat
    OBVIOUS
  <2>2. QED
    BY <1>1, <2>1, SmallestInt
<1>3. p \in (a + 1)..z /\ p \in 1..n /\ p - 1 \in a..z /\ p - 1 \in 0..n /\ p - 1 \notin S
  <2>1. p \in a..z /\ p # a /\ p \in Nat /\ a \in Nat
    OBVIOUS
  <2>2. /\ p \in (a + 1)..z /\ p \in 1..n /\ p - 1 \in a..z /\ p - 1 \in 0..n
        /\ ~(p <= p - 1)
    BY <2>1
  <2>3. QED
    BY <1>2, <2>2
<1>4. G[p - 1] = G[a] /\ G[p - 1] \in Seq(Int)
  BY <1>3 DEF Joins
<1>5. G[p] = G[p - 1] \o <<>>
  BY <1>3 DEF Joins
<1>6. QED
  BY <1>4, <1>5, ConcatEmptySeq

\* From a to z the pieces of F have given way to one in G; the others are the same.
Exchanged(F, s, G, t, n, a, z) ==
  /\ n \in Nat /\ Joins(F, s, n) /\ Joins(G, t, n)
  /\ a \in 1..n /\ z \in a..n
  /\ \A k \in 1..n : s[k] \in Seq(Int) /\ t[k] \in Seq(Int)
  /\ \A k \in 1..(a - 1) : s[k] = t[k]
  /\ \A k \in (a + 1)..z : t[k] = <<>>
  /\ \A k \in (z + 1)..n : s[k] = t[k]

\* What is before a stays, at z the new piece ends, and what is behind z follows.
LEMMA ExchangedParts ==
  ASSUME NEW n, NEW F, NEW s, NEW G, NEW t, NEW a, NEW z,
         Exchanged(F, s, G, t, n, a, z)
  PROVE  /\ \A p \in 0..(a - 1) : F[p] = G[p]
         /\ G[z] = F[a - 1] \o t[a]
         /\ \A p \in z..n : SameEnds(F, G, z, p)
         /\ SameEnds(F, F, a - 1, z)
<1>1. \A p \in 0..(a - 1) : F[p] = G[p]
  <2> DEFINE m == a - 1
  <2>1. Alike(F, s, G, t, n, 0, m)
    BY DEF Exchanged, Alike
  <2> HIDE DEF m
  <2>2. \A p \in 0..m : F[p] = G[p]
    BY <2>1, SameBefore
  <2>3. QED
    BY <2>2 DEF m
<1>2. G[z] = F[a - 1] \o t[a]
  <2>1. /\ n \in Nat /\ Joins(G, t, n) /\ a \in 1..n /\ z \in a..n
        /\ \A k \in (a + 1)..z : t[k] = <<>>
    BY DEF Exchanged
  <2>2. a \in 0..n /\ a - 1 \in 0..(a - 1)
    BY <2>1
  <2>3. G[z] = G[a]
    BY <2>1, <2>2, NothingAdded
  <2>4. G[a] = G[a - 1] \o t[a]
    BY <2>1 DEF Joins
  <2>5. F[a - 1] = G[a - 1]
    BY <1>1, <2>2
  <2>6. QED
    BY <2>3, <2>4, <2>5
<1>3. \A p \in z..n : SameEnds(F, G, z, p)
  <2>1. Alike(F, s, G, t, n, z, n)
    BY DEF Exchanged, Alike
  <2>2. QED
    BY <2>1, SameBehind
<1>4. SameEnds(F, F, a - 1, z)
  <2> DEFINE m == a - 1
  <2>1. Alike(F, s, F, s, n, m, z) /\ z \in m..z
    BY DEF Exchanged, Alike
  <2> HIDE DEF m
  <2>2. \A p \in m..z : SameEnds(F, F, m, p)
    BY <2>1, SameBehind
  <2>3. QED
    BY <2>1, <2>2 DEF m
<1>5. QED
  BY <1>1, <1>2, <1>3, <1>4

\* A text between two others.
LEMMA Middle ==
  ASSUME NEW s \in Seq(Int), NEW y \in Seq(Int), NEW x \in Seq(Int), NEW f, NEW g,
         g = s \o y, f = g \o x
  PROVE  /\ SubSeq(f, 1, Len(s)) = s
         /\ SubSeq(f, Len(g) + 1, Len(f)) = x
<1>1. y \o x \in Seq(Int) /\ g \in Seq(Int)
  BY ConcatProperties
<1>2. f = s \o (y \o x)
  BY Associative
<1>3. SubSeq(f, 1, Len(s)) = s
  BY <1>1, <1>2, Halves
<1>4. SubSeq(f, Len(g) + 1, Len(f)) = x
  BY <1>1, Halves
<1>5. QED
  BY <1>3, <1>4

\* The new text is the old one with the new piece in the place of those from a to
\* z, and every piece behind z ends as much later as the new piece is longer.
Moved(F, G, n, a, z, new) ==
  /\ \A p \in 0..(a - 1) : F[p] = G[p]
  /\ Len(F[a - 1]) \in Nat /\ Len(F[z]) \in Nat
  /\ Len(F[a - 1]) <= Len(F[z])
  /\ \A p \in z..n :
       Len(F[p]) \in Nat
       /\ Len(G[p]) = Len(F[p]) + Len(new) - (Len(F[z]) - Len(F[a - 1]))
  /\ G[n] = SubSeq(F[n], 1, Len(F[a - 1])) \o new
              \o SubSeq(F[n], Len(F[z]) + 1, Len(F[n]))

LEMMA ExchangedText ==
  ASSUME NEW n, NEW F, NEW s, NEW G, NEW t, NEW a, NEW z,
         Exchanged(F, s, G, t, n, a, z)
  PROVE  Moved(F, G, n, a, z, t[a])
<1>1. /\ \A p \in 0..(a - 1) : F[p] = G[p]
      /\ G[z] = F[a - 1] \o t[a]
      /\ \A p \in z..n : SameEnds(F, G, z, p)
      /\ SameEnds(F, F, a - 1, z)
  BY ExchangedParts
<1>2. PICK y \in Seq(Int) : F[z] = F[a - 1] \o y
  BY <1>1 DEF SameEnds
<1>3. n \in z..n /\ a - 1 \in 0..n /\ z \in 0..n
  BY DEF Exchanged
<1>4. F[a - 1] \in Seq(Int) /\ F[z] \in Seq(Int) /\ t[a] \in Seq(Int)
  BY <1>3 DEF Joins, Exchanged
<1> DEFINE u == F[a - 1]
           v == F[z]
           new == t[a]
<1>5. u \in Seq(Int) /\ v = u \o y /\ G[z] = u \o new /\ v \in Seq(Int) /\ new \in Seq(Int)
  BY <1>1, <1>2, <1>4
<1> HIDE DEF u, v, new
<1>6. /\ Len(u) \in Nat /\ Len(v) \in Nat /\ Len(y) \in Nat /\ Len(new) \in Nat
      /\ Len(v) = Len(u) + Len(y) /\ u \o new \in Seq(Int)
      /\ Len(u \o new) = Len(u) + Len(new)
  BY <1>5, ConcatProperties, LenProperties
<1>7. ASSUME NEW p \in z..n
      PROVE  Len(F[p]) \in Nat /\ Len(G[p]) = Len(F[p]) + Len(new) - (Len(v) - Len(u))
  <2>1. PICK x \in Seq(Int) : F[p] = v \o x /\ G[p] = (u \o new) \o x
    BY <1>1, <1>5 DEF v, SameEnds
  <2>2. Len(v \o x) = Len(v) + Len(x) /\ Len(x) \in Nat
    BY <1>5, ConcatProperties, LenProperties
  <2>3. Len((u \o new) \o x) = Len(u) + Len(new) + Len(x)
    BY <1>6, ConcatProperties, LenProperties
  <2>4. QED
    BY <1>6, <2>1, <2>2, <2>3
<1>8. G[n] = SubSeq(F[n], 1, Len(u)) \o new \o SubSeq(F[n], Len(v) + 1, Len(F[n]))
  <2>1. PICK x \in Seq(Int) : F[n] = v \o x /\ G[n] = (u \o new) \o x
    BY <1>1, <1>3, <1>5 DEF v, SameEnds
  <2>2. SubSeq(F[n], 1, Len(u)) = u /\ SubSeq(F[n], Len(v) + 1, Len(F[n])) = x
    BY <1>5, <2>1, Middle
  <2>3. QED
    BY <2>1, <2>2
<1>9. Len(u) <= Len(v)
  BY <1>6
<1>10. QED
  BY <1>1, <1>6, <1>7, <1>8, <1>9 DEF u, v, new, Moved

-------------------------------------------------------------------------------
(* Where the pieces are in a buffer.                                        *)

\* The text of b is the pieces put together, and the positions before and behind
\* the declarations of R are where their pieces begin and end.
Holds(b, R, n, pieces) ==
  \E F : /\ Joins(F, pieces, n)
         /\ b.text = F[n]
         /\ \A p \in Behind(R, n) : Mapped(b, p) = Len(F[p])
         /\ \A p \in Before(R, n) : Mapped(b, p) = Len(F[p - 1]) + 1

\* The declarations of R end at a token of the file.
Ended(R, n) == \A d \in R : d.last + 1 \in 1..n

\* A new buffer holds the tokens of the file.
LEMMA UneditedHolds ==
  ASSUME NEW n \in Nat, NEW R, Inside(R, n), Ended(R, n),
         NEW pieces, pieces = [p \in 1..n |-> <<p>>]
  PROVE  Holds(Unedited(n), R, n, pieces)
<1> DEFINE G(p) == [i \in 1..p |-> i]
           F == [p \in 0..n |-> G(p)]
<1>1. ASSUME NEW p \in Nat
      PROVE  G(p) \in Seq(Int) /\ Len(G(p)) = p /\ \A i \in 1..p : G(p)[i] = i
  OBVIOUS
<1> HIDE DEF G
<1>2. \A p \in 0..n : F[p] = G(p) /\ F[p] \in Seq(Int) /\ Len(F[p]) = p
  BY <1>1
<1>3. F \in [0..n -> Seq(Int)]
  BY <1>1
<1>4. F[0] = <<>>
  <2>1. F[0] \in Seq(Int) /\ Len(F[0]) = 0
    BY <1>2
  <2> HIDE DEF F
  <2>2. QED
    BY <2>1
<1>5. ASSUME NEW p \in 1..n
      PROVE  F[p] = F[p - 1] \o pieces[p]
  <2>1. p \in Nat /\ p - 1 \in Nat /\ p \in 0..n /\ p - 1 \in 0..n
    OBVIOUS
  <2>2. /\ G(p) \in Seq(Int) /\ Len(G(p)) = p /\ \A i \in 1..p : G(p)[i] = i
        /\ G(p - 1) \in Seq(Int) /\ Len(G(p - 1)) = p - 1
        /\ \A i \in 1..(p - 1) : G(p - 1)[i] = i
    BY <1>1, <2>1
  <2>3. /\ <<p>> \in Seq(Int) /\ Len(<<p>>) = 1 /\ <<p>>[1] = p
    OBVIOUS
  <2> DEFINE both == G(p - 1) \o <<p>>
  <2>4. /\ both \in Seq(Int) /\ Len(both) = p - 1 + 1
        /\ \A i \in 1..(p - 1 + 1) :
             both[i] = IF i <= p - 1 THEN G(p - 1)[i] ELSE <<p>>[i - (p - 1)]
    <3>1. /\ both \in Seq(Int) /\ Len(both) = Len(G(p - 1)) + Len(<<p>>)
          /\ \A i \in 1..(Len(G(p - 1)) + Len(<<p>>)) :
               both[i] = IF i <= Len(G(p - 1)) THEN G(p - 1)[i]
                         ELSE <<p>>[i - Len(G(p - 1))]
      BY <2>2, <2>3, ConcatProperties
    <3> HIDE DEF both
    <3>2. QED
      BY <2>2, <2>3, <3>1
  <2> HIDE DEF both
  <2>5. \A i \in 1..p : both[i] = i
    <3> SUFFICES ASSUME NEW i \in 1..p PROVE both[i] = i
      OBVIOUS
    <3>1. CASE i <= p - 1
      <4>1. i \in 1..(p - 1) /\ i \in 1..(p - 1 + 1)
        BY <2>1, <3>1
      <4>2. QED
        BY <2>2, <2>4, <3>1, <4>1
    <3>2. CASE ~(i <= p - 1)
      <4>1. i = p /\ i - (p - 1) = 1 /\ i \in 1..(p - 1 + 1)
        BY <2>1, <3>2
      <4>2. both[i] = <<p>>[i - (p - 1)]
        BY <2>4, <3>2, <4>1
      <4>3. QED
        BY <2>3, <4>1, <4>2
    <3>3. QED
      BY <3>1, <3>2
  <2>6. Len(both) = p
    BY <2>1, <2>4
  <2>7. G(p) = both
    BY <2>2, <2>4, <2>5, <2>6, SeqEqual
  <2>8. QED
    BY <1>2, <2>1, <2>7 DEF both
<1>6. Joins(F, pieces, n)
  BY <1>3, <1>4, <1>5 DEF Joins
<1>7. \A p \in 1..(n + 1) : Mapped(Unedited(n), p) = p
  BY DEF Mapped, Unedited
<1>8. Unedited(n).text = F[n]
  BY DEF Unedited, G
<1>9. Behind(R, n) \subseteq 1..n /\ Before(R, n) \subseteq 1..n
  BY DEF Behind, Before, Free, Inside, Ended
<1> HIDE DEF F
<1>10. \A p \in 1..n : /\ Mapped(Unedited(n), p) = Len(F[p])
                       /\ Mapped(Unedited(n), p) = Len(F[p - 1]) + 1
  <2> SUFFICES ASSUME NEW p \in 1..n
               PROVE  /\ Mapped(Unedited(n), p) = Len(F[p])
                      /\ Mapped(Unedited(n), p) = Len(F[p - 1]) + 1
    OBVIOUS
  <2>1. p \in 0..n /\ p - 1 \in 0..n /\ p \in 1..(n + 1) /\ p - 1 + 1 = p
    OBVIOUS
  <2>2. Len(F[p]) = p /\ Len(F[p - 1]) = p - 1
    BY <1>2, <2>1
  <2>3. QED
    BY <1>7, <2>1, <2>2
<1>11. QED
  BY <1>6, <1>8, <1>9, <1>10 DEF Holds

\* An edit puts new in the place of a declaration's pieces, whether it has been
\* replaced before or not.
LEMMA TextEdit ==
  ASSUME NEW n \in Nat, NEW R, Inside(R, n), Apart(R), Ended(R, n), NEW d \in R,
         NEW b \in Buffer, Len(b.shift) = n + 1, NEW new \in Seq(Int),
         NEW pieces \in [1..n -> Seq(Int)], NEW pieces2 \in [1..n -> Seq(Int)],
         Holds(b, R, n, pieces), pieces2[d.outer] = new,
         \A p \in Extent(d) \ {d.outer} : pieces2[p] = <<>>,
         \A p \in (1..n) \ Extent(d) : pieces2[p] = pieces[p]
  PROVE  Holds(Replace(b, d.outer, RangeSize(b, d.outer, d.last + 1), new), R, n, pieces2)
<1> DEFINE a    == d.outer
           z    == d.last + 1
           size == RangeSize(b, a, z)
           c    == Replace(b, a, size, new)
<1>1. a \in 1..n /\ z \in (a + 1)..n /\ Extent(d) = a..z /\ n \in Nat
  <2>1. d.outer \in 1..n /\ d.last \in d.outer..n /\ d.last + 1 \in 1..n
    BY DEF Inside, Ended
  <2>2. QED
    BY <2>1 DEF Extent
<1>2. PICK F : /\ Joins(F, pieces, n) /\ b.text = F[n]
               /\ \A p \in Behind(R, n) : Mapped(b, p) = Len(F[p])
               /\ \A p \in Before(R, n) : Mapped(b, p) = Len(F[p - 1]) + 1
  BY DEF Holds
<1>3. PICK G : Joins(G, pieces2, n)
  BY Flattened
<1>4. /\ \A p \in Behind(R, n) : p = z \/ p < a \/ p > z
      /\ \A p \in Before(R, n) : p = a \/ p < a \/ p > z
      /\ Behind(R, n) \subseteq 1..(n + 1) /\ Before(R, n) \subseteq 1..(n + 1)
  BY ApartFacts
<1>5. Behind(R, n) \subseteq 1..n /\ Before(R, n) \subseteq 1..n
  BY DEF Behind, Before, Free, Inside, Ended
<1>6. a \in Before(R, n) /\ z \in Behind(R, n)
  BY DEF Behind, Before
<1> HIDE DEF a, z
<1>7. Exchanged(F, pieces, G, pieces2, n, a, z)
  <2>1. /\ \A k \in 1..(a - 1) : k \in (1..n) \ Extent(d)
        /\ \A k \in (a + 1)..z : k \in Extent(d) \ {d.outer}
        /\ \A k \in (z + 1)..n : k \in (1..n) \ Extent(d)
    BY <1>1 DEF a
  <2>2. z \in a..n
    BY <1>1
  <2>3. \A k \in 1..n : pieces[k] \in Seq(Int) /\ pieces2[k] \in Seq(Int)
    OBVIOUS
  <2>4. QED
    BY <1>1, <1>2, <1>3, <2>1, <2>2, <2>3 DEF Exchanged
<1>8. /\ \A p \in 0..(a - 1) : F[p] = G[p]
      /\ Len(F[a - 1]) \in Nat /\ Len(F[z]) \in Nat
      /\ Len(F[a - 1]) <= Len(F[z])
      /\ \A p \in z..n :
           Len(F[p]) \in Nat
           /\ Len(G[p]) = Len(F[p]) + Len(pieces2[a]) - (Len(F[z]) - Len(F[a - 1]))
      /\ G[n] = SubSeq(F[n], 1, Len(F[a - 1])) \o pieces2[a]
                  \o SubSeq(F[n], Len(F[z]) + 1, Len(F[n]))
  <2>1. Moved(F, G, n, a, z, pieces2[a])
    BY <1>7, ExchangedText
  <2>2. QED
    BY <2>1 DEF Moved
<1>9. Mapped(b, a) = Len(F[a - 1]) + 1 /\ Mapped(b, z) = Len(F[z])
  BY <1>2, <1>6
<1>10. pieces2[a] = new /\ Len(new) \in Nat
  BY LenProperties DEF a
<1>11. size = Len(F[z]) - Len(F[a - 1]) /\ size \in Int
  BY <1>8, <1>9 DEF RangeSize
<1>12. c.text = G[n]
  <2>1. /\ Mapped(b, a) - 1 = Len(F[a - 1])
        /\ Mapped(b, a) + size = Len(F[z]) + 1
    <3> DEFINE u == Len(F[a - 1])
               v == Len(F[z])
               m == Mapped(b, a)
    <3>1. u \in Nat /\ v \in Nat /\ m = u + 1 /\ size = v - u
      BY <1>8, <1>9, <1>11
    <3> HIDE DEF u, v, m, size, c
    <3>2. m - 1 = u /\ m + size = v + 1
      BY <3>1
    <3>3. QED
      BY <3>2 DEF u, v, m
  <2>2. c.text = SubSeq(b.text, 1, Mapped(b, a) - 1) \o new
                   \o SubSeq(b.text, Mapped(b, a) + size, Len(b.text))
    BY DEF Replace
  <2>3. QED
    BY <1>2, <1>8, <1>10, <2>1, <2>2
<1>13. \A p \in 1..(n + 1) :
         Mapped(c, p) = IF p > a THEN Mapped(b, p) + Len(new) - size ELSE Mapped(b, p)
  BY <1>1, <1>11, MappedAfter
<1> HIDE DEF c, size
<1>14. \A p \in z..n : Len(F[p]) \in Nat /\ Len(G[p]) = Len(F[p]) + Len(new) - size
  BY <1>8, <1>10, <1>11
<1>15. \A p \in 0..(a - 1) : F[p] = G[p]
  BY <1>8
<1>16. ASSUME NEW p \in Behind(R, n)
       PROVE  Mapped(c, p) = Len(G[p])
  <2>1. p \in 1..n /\ p \in 1..(n + 1) /\ Mapped(b, p) = Len(F[p])
    BY <1>1, <1>2, <1>5
  <2>2. CASE p < a
    <3>1. p \in 0..(a - 1) /\ ~(p > a)
      BY <1>1, <2>1, <2>2
    <3>2. F[p] = G[p] /\ Mapped(c, p) = Mapped(b, p)
      BY <1>13, <1>15, <2>1, <3>1
    <3>3. QED
      BY <2>1, <3>2
  <2>3. CASE p = z \/ p > z
    <3>1. p \in z..n /\ p > a
      BY <1>1, <2>1, <2>3
    <3>2. /\ Len(G[p]) = Len(F[p]) + Len(new) - size
          /\ Mapped(c, p) = Mapped(b, p) + Len(new) - size
      BY <1>13, <1>14, <2>1, <3>1
    <3>3. QED
      BY <2>1, <3>2
  <2>4. QED
    BY <1>4, <2>2, <2>3
<1>17. ASSUME NEW p \in Before(R, n)
       PROVE  Mapped(c, p) = Len(G[p - 1]) + 1
  <2>1. p \in 1..n /\ p \in 1..(n + 1) /\ Mapped(b, p) = Len(F[p - 1]) + 1
    BY <1>1, <1>2, <1>5
  <2>2. CASE p = a \/ p < a
    <3>1. p - 1 \in 0..(a - 1) /\ ~(p > a)
      BY <1>1, <2>1, <2>2
    <3>2. F[p - 1] = G[p - 1] /\ Mapped(c, p) = Mapped(b, p)
      BY <1>13, <1>15, <2>1, <3>1
    <3>3. QED
      BY <2>1, <3>2
  <2>3. CASE p > z
    <3>1. p - 1 \in z..n /\ p > a
      BY <1>1, <2>1, <2>3
    <3>2. Len(F[p - 1]) \in Nat /\ Len(G[p - 1]) = Len(F[p - 1]) + Len(new) - size
      BY <1>14, <3>1
    <3>3. Mapped(c, p) = Mapped(b, p) + Len(new) - size
      BY <1>13, <2>1, <3>1
    <3>4. /\ Mapped(c, p) = Len(F[p - 1]) + 1 + Len(new) - size
          /\ Len(new) \in Nat /\ size \in Int
      BY <1>10, <1>11, <2>1, <3>3
    <3>5. QED
      BY <3>2, <3>4
  <2>4. QED
    BY <1>4, <2>2, <2>3
<1>18. Holds(c, R, n, pieces2)
  BY <1>3, <1>12, <1>16, <1>17 DEF Holds
<1>19. QED
  BY <1>18 DEF c, size, a, z

-------------------------------------------------------------------------------
(* The invariant.                                                          *)

\* The matches handled so far had the outcomes asked for, and a file that is
\* finished had them all.
TraceOK ==
  /\ \A f \in Files : \A i \in 1..Len(trace[f]) :
       trace[f][i] = Outcome(annotationMethods, units[f][i])
  /\ \A f \in finished : Len(trace[f]) = Len(units[f])

Inv == TypeOK /\ TraceOK

\* What the matcher yields: a declaration of the file or of a header, with an
\* annotation, that lies in the file.
LEMMA UnitFacts ==
  ASSUME TypeOK, NEW f \in Files, NEW i \in 1..Len(units[f])
  PROVE  LET d == units[f][i]
         IN  /\ d \in Decl /\ d.attrs # <<>>
             /\ d.file \in Anywhere /\ Length[d.file] \in Nat
             /\ RangeStart(d) \in 1..Length[d.file]
             /\ SemiAfter(d) \in 0..(Length[d.file] + 1)
<1> DEFINE d == units[f][i]
<1>1. units \in UnitMaps /\ units[f] \in Seq(Decl)
  BY InputAssumption DEF TypeOK
<1>2. i \in DOMAIN units[f] /\ d \in Decl
  BY <1>1
<1>3. /\ d.file \in Headers \cup {f} /\ d.attrs # <<>>
      /\ 1 <= d.outer /\ d.outer <= d.first
      /\ d.first <= d.last /\ d.last <= Length[d.file]
  BY <1>1, <1>2, InputAssumption
<1>4. d.file \in Anywhere /\ Length[d.file] \in Nat
  BY <1>3, FilesAssumption DEF Anywhere
<1>5. d.outer \in Nat /\ d.first \in Nat /\ d.last \in Nat
  BY <1>2 DEF Decl
<1>6. RangeStart(d) \in 1..Length[d.file]
  BY <1>3, <1>4, <1>5 DEF RangeStart
<1>7. SemiAfter(d) \in 0..(Length[d.file] + 1)
  <2>1. SemiAfter(d) = 0 \/ SemiAfter(d) = d.last + 1
    BY DEF SemiAfter, Invalid
  <2>2. d.last + 1 \in 0..(Length[d.file] + 1)
    BY <1>3, <1>4, <1>5
  <2>3. 0 \in 0..(Length[d.file] + 1)
    BY <1>4
  <2>4. QED
    BY <2>1, <2>2, <2>3
<1>8. QED
  BY <1>2, <1>3, <1>4, <1>6, <1>7

\* The method that runs for a match is one of the methods.
LEMMA MethodForType ==
  ASSUME TypeOK, NEW d \in Decl, d.attrs # <<>>
  PROVE  MethodFor(d) \in Method /\ Outcome(annotationMethods, d) \in Outcomes
<1>1. IsMethodMap(annotationMethods)
  BY InputAssumption DEF TypeOK
<1>2. /\ Outcome(annotationMethods, d) \in Outcomes
      /\ Outcome(annotationMethods, d).is = "run" =>
           Outcome(annotationMethods, d).method \in DOMAIN annotationMethods
  BY <1>1, OutcomeType
<1>3. [effect |-> "report", replacement |-> <<>>] \in Method
  BY DEF Method, Effects
<1>4. annotationMethods \in [DOMAIN annotationMethods -> Method]
  BY <1>1 DEF IsMethodMap
<1>5. QED
  BY <1>2, <1>3, <1>4 DEF MethodFor

\* The buffers of a rewriter are typed, each for the positions of its file.
Rewriter(r) ==
  /\ r \in [sourceMgr : Files \cup {NoFile}, buffers : [Anywhere -> Buffer]]
  /\ \A f \in Anywhere : Len(r.buffers[f].shift) = Length[f] + 1

LEMMA RewriterType == TypeOK => Rewriter(rewriter_)
  BY DEF TypeOK, Rewriter, Buffer

LEMMA NoBuffersType == Rewriter(NoBuffers)
<1>1. \A f \in Anywhere : /\ Unedited(Length[f]) \in Buffer
                          /\ Len(Unedited(Length[f]).shift) = Length[f] + 1
  BY FilesAssumption, UneditedType
<1>2. QED
  BY <1>1 DEF Rewriter, NoBuffers

\* replaceWith leaves a rewriter of the same file behind.
LEMMA ReplaceWithType ==
  ASSUME TypeOK, NEW f \in Files, NEW i \in 1..Len(units[f]),
         NEW skip \in BOOLEAN, NEW new \in Seq(Int),
         ~ReplaceCrashes(units[f][i], skip), ~ReplaceAsserts(units[f][i], skip),
         ReplaceWith(units[f][i], skip, new)
  PROVE  Rewriter(rewriter_') /\ rewriter_'.sourceMgr = rewriter_.sourceMgr
<1> DEFINE d == units[f][i]
           b == rewriter_.buffers[d.file]
           r == Replace(b, RangeStart(d), SizeToReplace(d), new)
<1>1. Rewriter(rewriter_)
  BY RewriterType
<1>2. CASE SkipsRewrite(d, skip) \/ ~StartIsRewritable(d)
  BY <1>1, <1>2 DEF ReplaceWith
<1>3. CASE ~SkipsRewrite(d, skip) /\ StartIsRewritable(d)
  <2>1. /\ d.file \in Anywhere /\ Length[d.file] \in Nat
        /\ RangeStart(d) \in 1..Length[d.file]
        /\ SemiAfter(d) \in 0..(Length[d.file] + 1)
    BY UnitFacts
  <2>2. b \in Buffer /\ Len(b.shift) = Length[d.file] + 1
    BY <1>1, <2>1 DEF Rewriter
  <2>3. SizeToReplace(d) \in Int
    <3>1. SemiAfter(d) # Invalid =>
            /\ RangeStart(d) \in 1..Len(b.shift) /\ SemiAfter(d) \in 1..Len(b.shift)
      BY <2>1, <2>2 DEF Invalid
    <3>2. SemiAfter(d) # Invalid => RangeSize(b, RangeStart(d), SemiAfter(d)) \in Int
      BY <2>2, <3>1, RangeSizeType
    <3>3. QED
      BY <3>2 DEF SizeToReplace
  <2>4. CanReplace(b, RangeStart(d), SizeToReplace(d))
    BY <1>3 DEF ReplaceAsserts, ReplaceCrashes
  <2>5. RangeStart(d) \in 1..Len(b.shift)
    BY <2>1, <2>2
  <2>6. r \in Buffer /\ Len(r.shift) = Length[d.file] + 1
    BY <2>2, <2>3, <2>4, <2>5, ReplaceType
  <2>7. rewriter_' = [rewriter_ EXCEPT !.buffers =
                       [rewriter_.buffers EXCEPT ![d.file] = r]]
    BY <1>1, <1>3, <2>1 DEF ReplaceWith, Rewriter
  <2> HIDE DEF r
  <2>8. QED
    BY <1>1, <2>1, <2>6, <2>7 DEF Rewriter
<1>4. QED
  BY <1>2, <1>3

-------------------------------------------------------------------------------
(* Every step keeps the invariant.                                         *)

LEMMA InitInv == Init => Inv
<1> SUFFICES ASSUME Init PROVE Inv
  OBVIOUS
<1>1. Rewriter(rewriter_)
  BY NoBuffersType DEF Init
<1>2. \A f \in Files : trace[f] = <<>> /\ saved[f] = <<>>
  BY DEF Init
<1>3. \A f \in Files : Len(units[f]) \in Nat
  <2>1. units \in [Files -> Seq(Decl)]
    BY InputAssumption DEF Init
  <2>2. QED
    BY <2>1
<1>4. trace \in [Files -> Seq(Outcomes)] /\ saved \in [Files -> Seq(Int)]
  BY DEF Init
<1>5. TypeOK
  BY <1>1, <1>2, <1>3, <1>4 DEF Init, TypeOK, Phases, Rewriter, Buffer
<1>6. TraceOK
  BY <1>2 DEF Init, TraceOK
<1>7. QED
  BY <1>5, <1>6 DEF Inv

LEMMA CreateInv ==
  ASSUME Inv, NEW f \in Files, Create(f)
  PROVE  Inv'
<1>1. Rewriter(rewriter_')
  BY NoBuffersType DEF Create, FreshRewriter
<1>2. TypeOK'
  BY <1>1 DEF Inv, TypeOK, Create, Phases, Rewriter, Buffer
<1>3. TraceOK'
  BY DEF Inv, TraceOK, Create
<1>4. QED
  BY <1>2, <1>3 DEF Inv

LEMMA CannotOpenInv == Inv /\ CannotOpen => Inv'
  BY DEF Inv, TypeOK, TraceOK, CannotOpen, Phases

LEMMA BeginSourceFileActionInv == Inv /\ BeginSourceFileAction => Inv'
  BY DEF Inv, TypeOK, TraceOK, BeginSourceFileAction, Phases

LEMMA CreateASTConsumerInv == Inv /\ CreateASTConsumer => Inv'
<1> SUFFICES ASSUME Inv, CreateASTConsumer PROVE Inv'
  OBVIOUS
<1>1. Rewriter(rewriter_') /\ rewriter_'.sourceMgr = current
  BY RewriterType DEF Inv, TypeOK, CreateASTConsumer, Rewriter
<1>2. TypeOK'
  BY <1>1 DEF Inv, TypeOK, CreateASTConsumer, Phases, Rewriter, Buffer
<1>3. TraceOK'
  BY DEF Inv, TraceOK, CreateASTConsumer
<1>4. QED
  BY <1>2, <1>3 DEF Inv

LEMMA HandleTranslationUnitInv == Inv /\ HandleTranslationUnit => Inv'
  BY DEF Inv, TypeOK, TraceOK, HandleTranslationUnit, Phases

LEMMA MatchInv == Inv /\ Match => Inv'
<1> SUFFICES ASSUME Inv, Match PROVE Inv'
  OBVIOUS
<1> DEFINE i == Len(trace[current]) + 1
           outcome == Outcome(annotationMethods, NextDecl)
<1>1. /\ current \in Files /\ current \notin finished /\ current \notin pending
      /\ phase = "matching" /\ trace[current] \in Seq(Outcomes)
  BY DEF Inv, TypeOK, Match
<1>2. Len(trace[current]) \in Nat /\ Len(units[current]) \in Nat
  <2>1. units[current] \in Seq(Decl)
    BY <1>1, InputAssumption DEF Inv, TypeOK
  <2>2. QED
    BY <1>1, <2>1
<1>3. i \in 1..Len(units[current])
  BY <1>2 DEF Match
<1>4. NextDecl \in Decl /\ NextDecl.attrs # <<>>
  BY <1>1, <1>3, UnitFacts DEF NextDecl, Inv
<1>5. MethodFor(NextDecl) \in Method /\ outcome \in Outcomes
  BY <1>4, MethodForType DEF Inv
<1>6. trace' = [trace EXCEPT ![current] = Append(@, outcome)]
  BY DEF Match
<1> HIDE DEF outcome
<1>7. /\ trace'[current] \in Seq(Outcomes)
      /\ Len(trace'[current]) = i
      /\ \A k \in 1..Len(trace[current]) : trace'[current][k] = trace[current][k]
      /\ trace'[current][i] = outcome
  <2>1. trace'[current] = Append(trace[current], outcome)
    BY <1>1, <1>6 DEF Inv, TypeOK
  <2>2. QED
    BY <1>1, <1>5, <2>1, AppendProperties
<1>8. \A f \in Files \ {current} : trace'[f] = trace[f]
  BY <1>6 DEF Inv, TypeOK
<1>9. trace' \in [Files -> Seq(Outcomes)]
  BY <1>1, <1>6, <1>7, <1>8 DEF Inv, TypeOK
<1>10. /\ Rewriter(rewriter_') /\ rewriter_'.sourceMgr = rewriter_.sourceMgr
       /\ phase' \in {"matching", "aborted"}
  <2> DEFINE method == MethodFor(NextDecl)
             skip   == method.effect = "replaceInMain"
  <2>1. CASE UNCHANGED rewriter_ /\ phase' \in {"matching", "aborted"}
    BY <2>1, RewriterType DEF Inv
  <2>2. CASE /\ ~ReplaceCrashes(NextDecl, skip) /\ ~ReplaceAsserts(NextDecl, skip)
             /\ ReplaceWith(NextDecl, skip, method.replacement) /\ UNCHANGED phase
    <3>1. method.replacement \in Seq(Int) /\ skip \in BOOLEAN
      BY <1>5 DEF Method
    <3> HIDE DEF method, skip
    <3>2. QED
      BY <1>1, <1>3, <2>2, <3>1, ReplaceWithType DEF Inv, NextDecl
  <2>3. QED
    BY <1>1, <2>1, <2>2 DEF Match
<1>11. UNCHANGED <<annotationMethods, units, pending, current, saved, finished>>
  BY DEF Match
<1>12. TypeOK'
  <2>1. \A f \in Files : Len(trace'[f]) <= Len(units[f])
    <3>1. Len(trace'[current]) <= Len(units[current])
      BY <1>2, <1>3, <1>7
    <3>2. \A f \in Files : Len(trace[f]) <= Len(units[f])
      BY DEF Inv, TypeOK
    <3> HIDE DEF i
    <3>3. QED
      BY <1>8, <3>1, <3>2
  <2>2. \A f \in pending : trace'[f] = <<>>
    BY <1>1, <1>8 DEF Inv, TypeOK
  <2> HIDE DEF i
  <2>3. QED
    BY <1>1, <1>9, <1>10, <1>11, <2>1, <2>2
       DEF Inv, TypeOK, Phases, Rewriter, Buffer
<1>13. TraceOK'
  <2>1. \A k \in 1..Len(trace'[current]) :
          trace'[current][k] = Outcome(annotationMethods, units[current][k])
    <3>1. ASSUME NEW k \in 1..i, k # i
          PROVE  trace'[current][k] = Outcome(annotationMethods, units[current][k])
      <4>1. k \in 1..Len(trace[current])
        BY <1>2, <3>1
      <4>2. QED
        BY <1>1, <1>7, <4>1 DEF Inv, TraceOK
    <3>2. trace'[current][i] = Outcome(annotationMethods, units[current][i])
      BY <1>7 DEF outcome, NextDecl
    <3>3. QED
      BY <1>7, <3>1, <3>2
  <2> HIDE DEF i
  <2>2. \A f \in Files : \A k \in 1..Len(trace'[f]) :
          trace'[f][k] = Outcome(annotationMethods, units[f][k])
    <3>1. \A f \in Files \ {current} : \A k \in 1..Len(trace'[f]) :
            trace'[f][k] = Outcome(annotationMethods, units[f][k])
      BY <1>8 DEF Inv, TraceOK
    <3>2. QED
      BY <2>1, <3>1
  <2>3. \A f \in finished : Len(trace'[f]) = Len(units[f])
    BY <1>1, <1>8 DEF Inv, TypeOK, TraceOK
  <2>4. QED
    BY <1>11, <2>2, <2>3 DEF TraceOK
<1>14. QED
  BY <1>12, <1>13 DEF Inv

LEMMA EndSourceFileActionInv == Inv /\ EndSourceFileAction => Inv'
<1> SUFFICES ASSUME Inv, EndSourceFileAction PROVE Inv'
  OBVIOUS
<1>1. current \in Files /\ current \notin pending
  BY DEF Inv, TypeOK, EndSourceFileAction
<1>2. rewriter_.buffers[current].text \in Seq(Int)
  BY <1>1, RewriterType DEF Inv, Rewriter, Buffer, Anywhere
<1>3. saved' \in [Files -> Seq(Int)]
  BY <1>2 DEF Inv, TypeOK, EndSourceFileAction
<1>4. TypeOK'
  BY <1>1, <1>3 DEF Inv, TypeOK, EndSourceFileAction, Phases
<1>5. TraceOK'
  BY DEF Inv, TraceOK, EndSourceFileAction, MatchesDone
<1>6. QED
  BY <1>4, <1>5 DEF Inv

LEMMA NoFileEntryInv == Inv /\ NoFileEntry => Inv'
  BY DEF Inv, TypeOK, TraceOK, NoFileEntry, Phases

LEMMA SaveWithoutEntryInv == Inv /\ SaveWithoutEntry => Inv'
<1> SUFFICES ASSUME Inv, SaveWithoutEntry PROVE Inv'
  OBVIOUS
<1>1. TypeOK'
  BY DEF Inv, TypeOK, SaveWithoutEntry, Phases
<1>2. TraceOK'
  BY DEF Inv, TraceOK, SaveWithoutEntry, MatchesDone
<1>3. QED
  BY <1>1, <1>2 DEF Inv

LEMMA StepInv == Inv /\ [Next]_vars => Inv'
<1> SUFFICES ASSUME Inv, [Next]_vars PROVE Inv'
  OBVIOUS
<1>1. CASE \E f \in Files : Create(f)
  BY <1>1, CreateInv
<1>2. CASE CannotOpen \/ BeginSourceFileAction
  BY <1>2, CannotOpenInv, BeginSourceFileActionInv
<1>3. CASE CreateASTConsumer \/ HandleTranslationUnit
  BY <1>3, CreateASTConsumerInv, HandleTranslationUnitInv
<1>4. CASE Match
  BY <1>4, MatchInv
<1>5. CASE EndSourceFileAction \/ NoFileEntry \/ SaveWithoutEntry
  BY <1>5, EndSourceFileActionInv, NoFileEntryInv, SaveWithoutEntryInv
<1>6. CASE UNCHANGED vars
  BY <1>6 DEF Inv, TypeOK, TraceOK, vars
<1>7. QED
  BY <1>1, <1>2, <1>3, <1>4, <1>5, <1>6 DEF Next, Step, Done

LEMMA Invariance == Spec => []Inv
<1>1. Init => Inv
  BY InitInv
<1>2. Inv /\ [Next]_vars => Inv'
  BY StepInv
<1>3. QED
  BY <1>1, <1>2, PTL DEF Spec

-------------------------------------------------------------------------------
(* The theorems.                                                           *)

\* Type correctness, for any files, declarations and methods: the rewriter is
\* that of the current file, its buffers stay typed through every replacement
\* clang lets pass, and what is saved is a text.
THEOREM TypeCorrect == Spec => []TypeOK
<1>1. Inv => TypeOK
  BY DEF Inv
<1>2. QED
  BY <1>1, Invariance, PTL

\* The outcome of a match is that of the one method that fits.
LEMMA RunIsTheCandidate ==
  ASSUME NEW m, IsMethodMap(m), NEW d \in Decl, d.attrs # <<>>,
         Outcome(m, d).is = "run"
  PROVE  /\ PrefixFree(m) => Candidates(m, d.attrs[1]) = {Outcome(m, d).method}
         /\ d.attrs[1].text = Outcome(m, d).method \o Outcome(m, d).argument
<1> DEFINE a == d.attrs[1]
           key == FirstMethod(m, a)
<1>1. a.text \in Seq(Letter)
  <2>1. d.attrs \in Seq(Annotation)
    BY DEF Decl
  <2>2. a \in Annotation
    BY <2>1
  <2>3. QED
    BY <2>2 DEF Annotation
<1>2. ~d.invalid /\ Candidates(m, a) # {}
  BY DEF Outcome, Skipped, Unregistered
<1>3. /\ Outcome(m, d).method = key
      /\ Outcome(m, d).argument = Without(a.text, key)
  BY <1>2 DEF Outcome
<1>4. /\ key \in Candidates(m, a)
      /\ \A other \in Candidates(m, a) : Len(key) <= Len(other)
  BY <1>2, FirstMethodProps
<1>5. \A other \in Candidates(m, a) :
        other \in DOMAIN m /\ other \in Seq(Letter) /\ StartsWith(a.text, other)
  BY DEF Candidates, IsMethodMap
<1> HIDE DEF key, a
<1>6. ASSUME PrefixFree(m), NEW other \in Candidates(m, a)
      PROVE  other = key
  <2>1. StartsWith(other, key)
    BY <1>1, <1>4, <1>5, PrefixesOfOneText
  <2>2. QED
    BY <1>4, <1>5, <1>6, <2>1 DEF PrefixFree
<1>7. a.text = key \o Without(a.text, key)
  BY <1>1, <1>4, <1>5, PrefixAndRest
<1>8. QED
  BY <1>3, <1>4, <1>6, <1>7 DEF a

\* parseToMethods stops at the first name that begins the annotation.  Whatever
\* methods are registered: if no name begins another one, no other name would
\* have fitted, so the order of the map does not matter; and nothing of the
\* annotation is lost between the name and what the method is given.
THEOREM OneMethodPicked == Spec => []AnnotationPicksOneMethod
<1>1. ASSUME Inv PROVE AnnotationPicksOneMethod
  <2>1. ASSUME NEW f \in Files, NEW i \in DOMAIN trace[f], trace[f][i].is = "run"
        PROVE  /\ PrefixFree(annotationMethods) =>
                    Candidates(annotationMethods, units[f][i].attrs[1])
                      = {trace[f][i].method}
               /\ units[f][i].attrs[1].text = trace[f][i].method \o trace[f][i].argument
    <3>1. trace[f] \in Seq(Outcomes) /\ Len(trace[f]) <= Len(units[f])
      BY <1>1 DEF Inv, TypeOK
    <3>2. Len(units[f]) \in Nat
      <4>1. units[f] \in Seq(Decl)
        BY <1>1, InputAssumption DEF Inv, TypeOK
      <4>2. QED
        BY <4>1
    <3>3. i \in 1..Len(trace[f]) /\ i \in 1..Len(units[f])
      BY <3>1, <3>2
    <3>4. units[f][i] \in Decl /\ units[f][i].attrs # <<>>
      BY <1>1, <3>3, UnitFacts DEF Inv
    <3>5. trace[f][i] = Outcome(annotationMethods, units[f][i])
      BY <1>1, <3>3 DEF Inv, TraceOK
    <3>6. IsMethodMap(annotationMethods)
      BY <1>1, InputAssumption DEF Inv, TypeOK
    <3> DEFINE d == units[f][i]
    <3>7. Outcome(annotationMethods, d).is = "run"
      BY <2>1, <3>5
    <3> HIDE DEF d
    <3>8. /\ PrefixFree(annotationMethods) =>
               Candidates(annotationMethods, d.attrs[1])
                 = {Outcome(annotationMethods, d).method}
          /\ d.attrs[1].text = Outcome(annotationMethods, d).method
                                 \o Outcome(annotationMethods, d).argument
      BY <3>4, <3>6, <3>7, RunIsTheCandidate DEF d
    <3>9. QED
      BY <3>5, <3>8 DEF d
  <2>2. QED
    BY <2>1 DEF AnnotationPicksOneMethod
<1>2. QED
  BY <1>1, Invariance, PTL

-------------------------------------------------------------------------------
(* The edits of one file.                                                  *)

\* As long as a file is handled, what is in no declaration that is replaced
\* in it, before or later, is in place.
EditsInv ==
  phase \in {"created", "begun", "consumer", "matching"} =>
    \A file \in Anywhere :
      Apart(Replaced(current, file)) =>
        InPlace(rewriter_.buffers[file], Replaced(current, file), Length[file])

\* The declarations found in a file are inside it.
LEMMA FoundInside ==
  ASSUME NEW u \in UnitMaps, NEW f \in Files, NEW file \in Anywhere,
         NEW R, \A d \in R : d \in Range(u[f]) /\ d.file = file
  PROVE  Length[file] \in Nat /\ Inside(R, Length[file])
<1>1. u[f] \in Seq(Decl)
  BY InputAssumption
<1>2. ASSUME NEW d \in R
      PROVE  d.outer \in 1..Length[file] /\ d.last \in d.outer..Length[file]
  <2>1. PICK i \in DOMAIN u[f] : u[f][i] = d
    BY DEF Range
  <2>2. /\ d \in Decl /\ d.file = file
        /\ 1 <= d.outer /\ d.outer <= d.first
        /\ d.first <= d.last /\ d.last <= Length[d.file]
    BY <1>1, <2>1, InputAssumption
  <2>3. d.outer \in Nat /\ d.first \in Nat /\ d.last \in Nat
    BY <2>2 DEF Decl
  <2>4. Length[file] \in Nat
    BY FilesAssumption
  <2>5. QED
    BY <2>2, <2>3, <2>4
<1>3. QED
  BY <1>2, FilesAssumption DEF Inside

\* The edits that a match makes.
LEMMA MatchEdits ==
  ASSUME Inv, Match
  PROVE  \/ rewriter_' = rewriter_
         \/ \E d \in Replaced(current, NextDecl.file), new \in Seq(Int), size \in Int :
              /\ size \in {-1, RangeSize(rewriter_.buffers[NextDecl.file], d.outer, d.last + 1)}
              /\ CanReplace(rewriter_.buffers[NextDecl.file], d.outer, size)
              /\ rewriter_' = [rewriter_ EXCEPT !.buffers[NextDecl.file] =
                                 Replace(@, d.outer, size, new)]
<1> DEFINE d      == NextDecl
           method == MethodFor(d)
           skip   == method.effect = "replaceInMain"
           i      == Len(trace[current]) + 1
<1>1. current \in Files /\ rewriter_.sourceMgr = current
  BY DEF Inv, TypeOK, Match
<1>2. units \in UnitMaps /\ units[current] \in Seq(Decl)
  BY <1>1, InputAssumption DEF Inv, TypeOK
<1>3. i \in 1..Len(units[current])
  <2>1. trace[current] \in Seq(Outcomes) /\ Len(trace[current]) < Len(units[current])
    BY <1>1 DEF Inv, TypeOK, Match
  <2>2. Len(trace[current]) \in Nat /\ Len(units[current]) \in Nat
    BY <1>2, <2>1
  <2>3. QED
    BY <2>1, <2>2
<1>4. d \in Range(units[current]) /\ d = units[current][i] /\ i \in DOMAIN units[current]
  BY <1>2, <1>3 DEF NextDecl, Range
<1>5. d \in Decl /\ d.attrs # <<>> /\ method \in Method
  BY <1>1, <1>3, <1>4, UnitFacts, MethodForType DEF Inv
<1>6. method.effect \in Effects /\ method.replacement \in Seq(Int)
  BY <1>5 DEF Method
<1>7. CASE rewriter_' = rewriter_
  BY <1>7
<1>8. CASE rewriter_' # rewriter_
  <2>1. /\ method.effect # "report"
        /\ ~ReplaceCrashes(d, skip) /\ ~ReplaceAsserts(d, skip)
        /\ ReplaceWith(d, skip, method.replacement)
    BY <1>8 DEF Match
  <2>2. /\ ~SkipsRewrite(d, skip) /\ StartIsRewritable(d)
        /\ rewriter_' = [rewriter_ EXCEPT !.buffers[d.file] =
                           Replace(@, RangeStart(d), SizeToReplace(d), method.replacement)]
    BY <1>8, <2>1 DEF ReplaceWith
  <2>3. CanReplace(rewriter_.buffers[d.file], RangeStart(d), SizeToReplace(d))
    BY <2>1, <2>2 DEF ReplaceAsserts, ReplaceCrashes
  <2>4. RangeStart(d) = d.outer
    BY <1>1, <1>2, <1>4, InputAssumption DEF RangeStart
  <2>5. SizeToReplace(d) \in {-1, RangeSize(rewriter_.buffers[d.file], d.outer, d.last + 1)}
    BY <2>4 DEF SizeToReplace, SemiAfter
  <2>6. d \in Replaced(current, d.file)
    BY <1>1, <1>4, <1>6, <2>1, <2>2 DEF Replaced, SkipsRewrite, Effects
  <2>7. SizeToReplace(d) \in Int
    <3>1. /\ d.file \in Anywhere /\ Length[d.file] \in Nat
          /\ d.outer \in 1..Length[d.file] /\ d.last \in 1..Length[d.file]
      <4>1. d.file \in Anywhere
        BY <1>1, <1>3, <1>4, UnitFacts DEF Inv
      <4>2. Length[d.file] \in Nat /\ Inside({d}, Length[d.file])
        <5>1. units \in UnitMaps /\ current \in Files
          BY <1>1, <1>2
        <5>2. \A e \in {d} : e \in Range(units[current]) /\ e.file = d.file
          BY <1>4
        <5> HIDE DEF d
        <5>3. QED
          BY <4>1, <5>1, <5>2, FoundInside
      <4>3. QED
        BY <4>1, <4>2 DEF Inside
    <3>2. /\ rewriter_.buffers[d.file] \in Buffer
          /\ Len(rewriter_.buffers[d.file].shift) = Length[d.file] + 1
      BY <3>1, RewriterType DEF Inv, Rewriter
    <3>3. /\ d.outer \in 1..(Length[d.file] + 1)
          /\ d.last + 1 \in 1..(Length[d.file] + 1)
      BY <3>1
    <3>4. RangeSize(rewriter_.buffers[d.file], d.outer, d.last + 1) \in Int
      BY <3>2, <3>3, RangeSizeType
    <3>5. QED
      BY <2>5, <3>4
  <2>8. QED
    BY <1>6, <2>2, <2>3, <2>4, <2>5, <2>6, <2>7
<1>9. QED
  BY <1>7, <1>8

\* Every step of the tool keeps them in place.
LEMMA EditsKept == Inv /\ EditsInv /\ [Next]_vars => EditsInv'
<1> SUFFICES ASSUME Inv, EditsInv, [Next]_vars,
                    phase' \in {"created", "begun", "consumer", "matching"},
                    NEW file \in Anywhere, Apart(Replaced(current, file)')
             PROVE  InPlace(rewriter_'.buffers[file], Replaced(current, file)', Length[file])
  BY DEF EditsInv
<1>1. Inv'
  BY StepInv
<1>2. current' \in Files /\ Length[file] \in Nat
      /\ Inside(Replaced(current, file)', Length[file])
  <2>1. current' \in Files /\ units' \in UnitMaps
    BY <1>1 DEF Inv, TypeOK
  <2>2. \A d \in Replaced(current, file)' : d \in Range(units'[current']) /\ d.file = file
    BY DEF Replaced
  <2>3. QED
    BY <2>1, <2>2, FoundInside
<1>3. CASE \E f \in Files : Create(f)
  <2>1. rewriter_'.buffers[file] = Unedited(Length[file])
    BY <1>3 DEF Create, FreshRewriter, NoBuffers
  <2>2. QED
    BY <1>2, <2>1, UneditedInPlace
<1> DEFINE Same == /\ phase \in {"created", "begun", "consumer", "matching"}
                   /\ UNCHANGED <<annotationMethods, units, current>>
<1>4. ASSUME Same PROVE /\ Replaced(current, file)' = Replaced(current, file)
                        /\ InPlace(rewriter_.buffers[file], Replaced(current, file), Length[file])
  <2>1. Replaced(current, file)' = Replaced(current, file)
    BY <1>4 DEF Replaced, MethodFor
  <2>2. QED
    BY <1>4, <2>1 DEF EditsInv
<1>5. CASE Same /\ rewriter_'.buffers = rewriter_.buffers
  BY <1>4, <1>5
<1>6. CASE Match
  <2>1. Same
    BY <1>6 DEF Match
  <2>2. CASE rewriter_' = rewriter_
    BY <1>5, <2>1, <2>2
  <2>3. CASE rewriter_' # rewriter_
    <3>1. PICK d \in Replaced(current, NextDecl.file), new \in Seq(Int), size \in Int :
            /\ size \in {-1, RangeSize(rewriter_.buffers[NextDecl.file], d.outer, d.last + 1)}
            /\ CanReplace(rewriter_.buffers[NextDecl.file], d.outer, size)
            /\ rewriter_' = [rewriter_ EXCEPT !.buffers[NextDecl.file] =
                               Replace(@, d.outer, size, new)]
      BY <1>6, <2>3, MatchEdits
    <3>2. Rewriter(rewriter_)
      BY RewriterType DEF Inv
    <3>3. CASE file = NextDecl.file
      <4>1. rewriter_'.buffers[file] = Replace(rewriter_.buffers[file], d.outer, size, new)
        BY <3>1, <3>2, <3>3 DEF Rewriter
      <4>2. rewriter_.buffers[file] \in Buffer /\ Len(rewriter_.buffers[file].shift) = Length[file] + 1
        BY <3>2 DEF Rewriter
      <4>3. QED
        BY <1>2, <1>4, <2>1, <3>1, <3>3, <4>1, <4>2, EditKeeps
    <3>4. CASE file # NextDecl.file
      <4>1. rewriter_'.buffers[file] = rewriter_.buffers[file]
        BY <3>1, <3>2, <3>4 DEF Rewriter
      <4>2. QED
        BY <1>4, <2>1, <4>1
    <3>5. QED
      BY <3>3, <3>4
  <2>4. QED
    BY <2>2, <2>3
<1>7. CASE BeginSourceFileAction \/ HandleTranslationUnit
  BY <1>5, <1>7 DEF BeginSourceFileAction, HandleTranslationUnit
<1>8. CASE CreateASTConsumer
  <2>1. Same /\ rewriter_'.buffers = rewriter_.buffers
    BY <1>8 DEF CreateASTConsumer
  <2>2. QED
    BY <1>5, <2>1
<1>9. CASE UNCHANGED vars
  BY <1>5, <1>9 DEF vars
<1>10. ~(CannotOpen \/ EndSourceFileAction \/ NoFileEntry \/ SaveWithoutEntry)
  BY DEF CannotOpen, EndSourceFileAction, NoFileEntry, SaveWithoutEntry
<1>11. QED
  BY <1>3, <1>6, <1>7, <1>8, <1>9, <1>10 DEF Next, Step, Done

\* replaceWith: however many declarations of a file are replaced, in whichever order
\* and by whatever text, if they lie apart nothing else is lost, and an end that is
\* not found takes nothing along.
THEOREM EditsStay == Spec => []EditsStayInside
<1>1. Init => EditsInv
  BY DEF Init, EditsInv
<1>2. Spec => []EditsInv
  <2>1. QED
    BY <1>1, EditsKept, Invariance, PTL DEF Spec
<1>3. Inv /\ EditsInv => EditsStayInside
  <2> SUFFICES ASSUME Inv, EditsInv, phase = "matching", NEW file \in Anywhere,
                      Apart(Replaced(current, file)),
                      NEW p \in (1..Length[file])
                                  \ UNION {Extent(d) : d \in Replaced(current, file)}
               PROVE  p \in Range(rewriter_.buffers[file].text)
    BY DEF EditsStayInside, Apart
  <2> DEFINE b == rewriter_.buffers[file]
  <2>1. InPlace(b, Replaced(current, file), Length[file])
    BY DEF EditsInv
  <2>2. Mapped(b, p) \in DOMAIN b.text /\ b.text[Mapped(b, p)] = p
    BY <2>1 DEF InPlace, Free
  <2>3. QED
    BY <2>2 DEF Range
<1>4. QED
  BY <1>2, <1>3, Invariance, PTL

-------------------------------------------------------------------------------
(* What the buffers hold.                                                  *)

\* The pieces of a file of n tokens in which the declarations of P are replaced.
Pieces(P, n) ==
  [p \in 1..n |->
    IF \E d \in P : p = d.outer
    THEN MethodFor(CHOOSE d \in P : p = d.outer).replacement
    ELSE IF \E d \in P : p \in Extent(d) THEN <<>>
    ELSE <<p>>]

\* The declarations of file that are replaced, as far as the matches have come.
Handled(file) ==
  Replaced(current, file) \cap {units[current][i] : i \in 1..Len(trace[current])}

\* While a file is handled, every buffer whose replacements are tidy holds those
\* made so far, and knows where every other token and declaration has gone.
TextInv ==
  phase \in {"created", "begun", "consumer", "matching"} =>
    \A file \in Anywhere :
      Tidy(current, file) =>
        Holds(rewriter_.buffers[file], Replaced(current, file), Length[file],
              Pieces(Handled(file), Length[file]))

\* Of the declarations that lie apart, one begins at d.outer.
LEMMA PiecesOfOne ==
  ASSUME NEW P, NEW n \in Nat, Apart(P), Inside(P, n), NEW p \in 1..n
  PROVE  /\ \A d \in P : p = d.outer => Pieces(P, n)[p] = MethodFor(d).replacement
         /\ \A d \in P : p \in Extent(d) \ {d.outer} => Pieces(P, n)[p] = <<>>
         /\ (\A d \in P : p \notin Extent(d)) => Pieces(P, n)[p] = <<p>>
<1>1. \A d \in P : d.outer \in Extent(d)
  <2>1. \A d \in P : d.outer \in 1..n /\ d.last \in 1..n /\ d.outer <= d.last
    BY DEF Inside
  <2>2. QED
    BY <2>1 DEF Extent
<1>2. \A d, e \in P : p \in Extent(d) /\ p \in Extent(e) => d = e
  BY DEF Apart
<1>3. ASSUME NEW d \in P, p = d.outer
      PROVE  Pieces(P, n)[p] = MethodFor(d).replacement
  <2> DEFINE found == CHOOSE e \in P : p = e.outer
  <2>1. found \in P /\ p = found.outer
    BY <1>3
  <2>2. found = d
    BY <1>1, <1>2, <1>3, <2>1
  <2>3. Pieces(P, n)[p] = MethodFor(found).replacement
    BY <1>3 DEF Pieces
  <2>4. QED
    BY <2>2, <2>3
<1>4. ASSUME NEW d \in P, p \in Extent(d) \ {d.outer}
      PROVE  Pieces(P, n)[p] = <<>>
  <2>1. \A e \in P : p # e.outer
    BY <1>1, <1>2, <1>4
  <2>2. QED
    BY <1>4, <2>1 DEF Pieces
<1>5. ASSUME \A d \in P : p \notin Extent(d)
      PROVE  Pieces(P, n)[p] = <<p>>
  BY <1>1, <1>5 DEF Pieces
<1>6. QED
  BY <1>3, <1>4, <1>5

LEMMA PiecesType ==
  ASSUME NEW P, NEW n \in Nat, Apart(P), Inside(P, n),
         \A d \in P : MethodFor(d).replacement \in Seq(Int)
  PROVE  Pieces(P, n) \in [1..n -> Seq(Int)]
<1>1. ASSUME NEW p \in 1..n
      PROVE  Pieces(P, n)[p] \in Seq(Int)
  <2>1. CASE \E d \in P : p = d.outer
    BY <2>1, PiecesOfOne
  <2>2. CASE \E d \in P : p \in Extent(d) \ {d.outer}
    <3>1. Pieces(P, n)[p] = <<>>
      BY <2>2, PiecesOfOne
    <3>2. QED
      BY <3>1
  <2>3. CASE \A d \in P : p \notin Extent(d)
    <3>1. Pieces(P, n)[p] = <<p>>
      BY <2>3, PiecesOfOne
    <3>2. QED
      BY <3>1
  <2>4. QED
    BY <2>1, <2>2, <2>3
<1>2. Pieces(P, n) = [p \in 1..n |-> Pieces(P, n)[p]]
  BY DEF Pieces
<1>3. QED
  BY <1>1, <1>2

\* t are the pieces of s with new in the place of those of d.
Swapped(s, t, n, d, new) ==
  /\ t[d.outer] = new
  /\ \A p \in Extent(d) \ {d.outer} : p \in 1..n => t[p] = <<>>
  /\ \A p \in (1..n) \ Extent(d) : t[p] = s[p]

\* One more declaration is replaced.
LEMMA PiecesOfMore ==
  ASSUME NEW R, NEW n \in Nat, Apart(R), Inside(R, n), NEW P \in SUBSET R, NEW d \in R
  PROVE  Swapped(Pieces(P, n), Pieces(P \cup {d}, n), n, d, MethodFor(d).replacement)
<1> DEFINE Q == P \cup {d}
<1>1. Apart(P) /\ Apart(Q) /\ Inside(P, n) /\ Inside(Q, n)
  BY DEF Apart, Inside
<1>2. d.outer \in 1..n /\ d \in Q
  BY DEF Inside
<1>3. Pieces(Q, n)[d.outer] = MethodFor(d).replacement
  <2> HIDE DEF Q
  <2>1. QED
    BY <1>1, <1>2, PiecesOfOne
<1>4. ASSUME NEW p \in Extent(d) \ {d.outer}, p \in 1..n
      PROVE  Pieces(Q, n)[p] = <<>>
  <2> HIDE DEF Q
  <2>1. QED
    BY <1>1, <1>2, <1>4, PiecesOfOne
<1>5. ASSUME NEW p \in (1..n) \ Extent(d)
      PROVE  Pieces(Q, n)[p] = Pieces(P, n)[p]
  <2>1. CASE \E e \in P : p = e.outer
    <3>1. PICK e \in P : p = e.outer
      BY <2>1
    <3>2. e \in Q
      OBVIOUS
    <3> HIDE DEF Q
    <3>3. QED
      BY <1>1, <3>1, <3>2, PiecesOfOne
  <2>2. CASE \E e \in P : p \in Extent(e) \ {e.outer}
    <3>1. PICK e \in P : p \in Extent(e) \ {e.outer}
      BY <2>2
    <3>2. e \in Q
      OBVIOUS
    <3> HIDE DEF Q
    <3>3. QED
      BY <1>1, <3>1, <3>2, PiecesOfOne
  <2>3. CASE \A e \in P : p \notin Extent(e)
    <3>1. \A e \in Q : p \notin Extent(e)
      BY <2>3
    <3> HIDE DEF Q
    <3>2. QED
      BY <1>1, <2>3, <3>1, PiecesOfOne
  <2>4. QED
    BY <2>1, <2>2, <2>3
<1> HIDE DEF Q
<1>6. Swapped(Pieces(P, n), Pieces(Q, n), n, d, MethodFor(d).replacement)
  BY <1>3, <1>4, <1>5 DEF Swapped
<1>7. QED
  BY <1>6 DEF Q

\* What a tidy file offers.
LEMMA TidyFacts ==
  ASSUME TypeOK, current \in Files, NEW file \in Anywhere, Tidy(current, file)
  PROVE  LET R == Replaced(current, file)
             n == Length[file]
         IN  /\ n \in Nat /\ Inside(R, n) /\ Apart(R) /\ Ended(R, n)
             /\ \A d \in R : MethodFor(d).replacement \in Seq(Int)
<1> DEFINE R == Replaced(current, file)
           n == Length[file]
<1>1. units \in UnitMaps
  BY DEF TypeOK
<1>2. \A d \in R : d \in Range(units[current]) /\ d.file = file
  BY DEF Replaced
<1>3. n \in Nat /\ Inside(R, n)
  <2> HIDE DEF R
  <2>1. QED
    BY <1>1, <1>2, FoundInside
<1>4. Apart(R) /\ \A d \in R : d.last + 1 \in Semicolons[file]
  BY DEF Tidy, Apart
<1>5. Ended(R, n)
  BY <1>4, FilesAssumption DEF Ended
<1>6. ASSUME NEW d \in R
      PROVE  MethodFor(d).replacement \in Seq(Int)
  <2>1. units[current] \in Seq(Decl)
    BY <1>1, InputAssumption
  <2>2. PICK i \in DOMAIN units[current] : units[current][i] = d
    BY <1>2 DEF Range
  <2>3. d \in Decl /\ d.attrs # <<>>
    BY <1>1, <2>1, <2>2, InputAssumption
  <2>4. MethodFor(d) \in Method
    BY <2>3, MethodForType
  <2>5. QED
    BY <2>4 DEF Method
<1>7. QED
  BY <1>3, <1>4, <1>5, <1>6

\* A match in a file that is not the one looked at leaves its buffer alone; in a
\* tidy file it makes the replacement that is asked for.
LEMMA MatchReplaces ==
  ASSUME Inv, Match, phase' = "matching", NEW file \in Anywhere, Tidy(current, file)
  PROVE  rewriter_'.buffers[file] =
           IF NextDecl \in Replaced(current, file)
           THEN Replace(rewriter_.buffers[file], NextDecl.outer,
                        RangeSize(rewriter_.buffers[file], NextDecl.outer, NextDecl.last + 1),
                        MethodFor(NextDecl).replacement)
           ELSE rewriter_.buffers[file]
<1> DEFINE d      == NextDecl
           method == MethodFor(d)
           skip   == method.effect = "replaceInMain"
           i      == Len(trace[current]) + 1
<1>1. current \in Files /\ rewriter_.sourceMgr = current /\ Rewriter(rewriter_)
  BY RewriterType DEF Inv, TypeOK, Match
<1>2. units \in UnitMaps /\ units[current] \in Seq(Decl)
  BY <1>1, InputAssumption DEF Inv, TypeOK
<1>3. i \in 1..Len(units[current])
  <2>1. trace[current] \in Seq(Outcomes) /\ Len(trace[current]) < Len(units[current])
    BY <1>1 DEF Inv, TypeOK, Match
  <2>2. Len(trace[current]) \in Nat /\ Len(units[current]) \in Nat
    BY <1>2, <2>1
  <2>3. QED
    BY <2>1, <2>2
<1>4. d \in Range(units[current]) /\ d = units[current][i] /\ i \in DOMAIN units[current]
  BY <1>2, <1>3 DEF NextDecl, Range
<1>5. d \in Decl /\ d.attrs # <<>> /\ method \in Method /\ d.file \in Anywhere
  BY <1>1, <1>3, <1>4, UnitFacts, MethodForType DEF Inv
<1>6. method.effect \in Effects
  BY <1>5 DEF Method
<1>7. \/ rewriter_' = rewriter_
      \/ rewriter_' = [rewriter_ EXCEPT !.buffers[d.file] =
                         Replace(@, RangeStart(d), SizeToReplace(d), method.replacement)]
  BY DEF Match, ReplaceWith
<1>8. CASE d.file # file
  <2>1. d \notin Replaced(current, file)
    BY <1>8 DEF Replaced
  <2>2. rewriter_'.buffers[file] = rewriter_.buffers[file]
    BY <1>1, <1>7, <1>8 DEF Rewriter
  <2>3. QED
    BY <2>1, <2>2
<1>9. CASE d.file = file /\ d \notin Replaced(current, file)
  <2>1. \/ method.effect = "report"
        \/ method.effect = "replaceInMain" /\ file # current
    BY <1>4, <1>6, <1>9 DEF Replaced, Effects
  <2>2. rewriter_' = rewriter_
    <3>1. CASE method.effect = "report"
      BY <3>1 DEF Match
    <3>2. CASE method.effect = "replaceInMain" /\ file # current
      <4>1. SkipsRewrite(d, skip)
        BY <1>1, <1>9, <3>2 DEF SkipsRewrite
      <4>2. QED
        BY <4>1 DEF Match, ReplaceWith
    <3>3. QED
      BY <2>1, <3>1, <3>2
  <2>3. QED
    BY <1>9, <2>2
<1>10. CASE d.file = file /\ d \in Replaced(current, file)
  <2>1. /\ method.effect # "report"
        /\ method.effect = "replaceInMain" => file = current
    BY <1>10 DEF Replaced
  <2>2. ~SkipsRewrite(d, skip)
    BY <1>1, <1>10, <2>1 DEF SkipsRewrite
  <2>3. d.last + 1 \in Semicolons[file] /\ ~d.macroFirst /\ d.macroLast # "inside"
    BY <1>10 DEF Tidy
  <2>4. StartIsRewritable(d)
    BY <2>3 DEF StartIsRewritable
  <2>5. SemiAfter(d) = d.last + 1 /\ d.last + 1 # Invalid
    <3>1. d.last \in Nat
      BY <1>5 DEF Decl
    <3>2. QED
      BY <1>10, <2>3, <3>1 DEF SemiAfter, Invalid
  <2>6. RangeStart(d) = d.outer
    BY <1>1, <1>2, <1>4, InputAssumption DEF RangeStart
  <2>7. SizeToReplace(d) = RangeSize(rewriter_.buffers[file], d.outer, d.last + 1)
    BY <1>10, <2>5, <2>6 DEF SizeToReplace
  <2>8. ReplaceWith(d, skip, method.replacement)
    BY <2>1 DEF Match
  <2>9. rewriter_' = [rewriter_ EXCEPT !.buffers[d.file] =
                        Replace(@, RangeStart(d), SizeToReplace(d), method.replacement)]
    BY <2>2, <2>4, <2>8 DEF ReplaceWith
  <2>10. rewriter_'.buffers[file] = Replace(rewriter_.buffers[file], d.outer,
                                      RangeSize(rewriter_.buffers[file], d.outer, d.last + 1),
                                      method.replacement)
    BY <1>1, <1>10, <2>6, <2>7, <2>9 DEF Rewriter
  <2>11. QED
    BY <1>10, <2>10
<1>11. QED
  BY <1>8, <1>9, <1>10

\* One more match is handled.
LEMMA HandledAfterMatch ==
  ASSUME Inv, Match, NEW file
  PROVE  Handled(file)' = Handled(file) \cup ({NextDecl} \cap Replaced(current, file))
<1> DEFINE k == Len(trace[current])
<1>1. current \in Files /\ trace[current] \in Seq(Outcomes) /\ k \in Nat
  BY DEF Inv, TypeOK, Match
<1>2. UNCHANGED <<annotationMethods, units, current>>
  BY DEF Match
<1>3. Len(trace'[current]) = k + 1
  <2>1. trace' = [trace EXCEPT ![current] =
                    Append(@, Outcome(annotationMethods, NextDecl))]
    BY DEF Match
  <2>2. trace'[current] = Append(trace[current], Outcome(annotationMethods, NextDecl))
    BY <1>1, <2>1 DEF Inv, TypeOK
  <2>3. QED
    BY <1>1, <2>2
<1>4. Replaced(current, file)' = Replaced(current, file)
  BY <1>2 DEF Replaced, MethodFor
<1> HIDE DEF k
<1>5. {units[current][i] : i \in 1..(k + 1)}
        = {units[current][i] : i \in 1..k} \cup {units[current][k + 1]}
  <2>1. 1..(k + 1) = (1..k) \cup {k + 1}
    BY <1>1
  <2>2. QED
    BY <2>1
<1>6. NextDecl = units[current][k + 1]
  BY DEF NextDecl, k
<1>7. Handled(file)' = Replaced(current, file) \cap {units[current][i] : i \in 1..(k + 1)}
  BY <1>2, <1>3, <1>4 DEF Handled
<1>8. Handled(file) = Replaced(current, file) \cap {units[current][i] : i \in 1..k}
  BY DEF Handled, k
<1>9. QED
  BY <1>5, <1>6, <1>7, <1>8

\* Every step of the tool keeps it so.
LEMMA TextKept == Inv /\ TextInv /\ [Next]_vars => TextInv'
<1> SUFFICES ASSUME Inv, TextInv, [Next]_vars,
                    phase' \in {"created", "begun", "consumer", "matching"},
                    NEW file \in Anywhere, Tidy(current, file)'
             PROVE  Holds(rewriter_'.buffers[file], Replaced(current, file)', Length[file],
                          Pieces(Handled(file), Length[file])')
  BY DEF TextInv
<1>1. Inv'
  BY StepInv
<1> DEFINE n == Length[file]
<1>2. CASE \E f \in Files : Create(f)
  <2>1. PICK f \in Files : Create(f)
    BY <1>2
  <2>2. /\ rewriter_'.buffers[file] = Unedited(n) /\ current' = f
        /\ trace' = trace /\ f \in pending
    BY <2>1 DEF Create, FreshRewriter, NoBuffers
  <2>3. trace[f] = <<>>
    BY <2>2 DEF Inv, TypeOK
  <2>4. Handled(file)' = {}
    BY <2>2, <2>3 DEF Handled
  <2>5. Pieces(Handled(file), Length[file])' = [p \in 1..n |-> <<p>>]
    BY <2>4 DEF Pieces
  <2>6. n \in Nat /\ Inside(Replaced(current, file)', n) /\ Ended(Replaced(current, file)', n)
    <3>1. current' \in Files /\ units' \in UnitMaps
      BY <1>1, <2>2 DEF Inv, TypeOK
    <3>2. \A d \in Replaced(current, file)' : d \in Range(units'[current']) /\ d.file = file
      BY DEF Replaced
    <3>3. n \in Nat /\ Inside(Replaced(current, file)', n)
      BY <3>1, <3>2, FoundInside
    <3>4. \A d \in Replaced(current, file)' : d.last + 1 \in Semicolons[file]
      BY DEF Tidy
    <3>5. QED
      BY <3>3, <3>4, FilesAssumption DEF Ended
  <2>7. QED
    BY <2>2, <2>5, <2>6, UneditedHolds
<1> DEFINE Same == /\ phase \in {"created", "begun", "consumer", "matching"}
                   /\ UNCHANGED <<annotationMethods, units, current>>
<1>3. ASSUME Same
      PROVE  /\ Replaced(current, file)' = Replaced(current, file)
             /\ Tidy(current, file)
             /\ \A P : Pieces(P, n)' = Pieces(P, n)
             /\ Holds(rewriter_.buffers[file], Replaced(current, file), n,
                      Pieces(Handled(file), n))
  <2>1. Replaced(current, file)' = Replaced(current, file)
    BY <1>3 DEF Replaced, MethodFor
  <2>2. Tidy(current, file)
    BY <1>3, <2>1 DEF Tidy
  <2>3. QED
    BY <1>3, <2>1, <2>2 DEF TextInv, Pieces, MethodFor
<1>4. CASE Same /\ rewriter_'.buffers = rewriter_.buffers /\ trace' = trace
  <2>1. Pieces(Handled(file), n)' = Pieces(Handled(file), n)
    BY <1>3, <1>4 DEF Pieces, MethodFor, Handled
  <2>2. QED
    BY <1>3, <1>4, <2>1
<1>5. CASE Match
  <2>1. Same /\ phase = "matching"
    BY <1>5 DEF Match
  <2>2. phase' = "matching"
    BY <1>5, <2>1 DEF Match, ReplaceWith
  <2> DEFINE R == Replaced(current, file)
             P == Handled(file)
             b == rewriter_.buffers[file]
  <2>3. /\ Holds(b, R, n, Pieces(P, n)) /\ Replaced(current, file)' = R
        /\ Tidy(current, file)
    BY <1>3, <2>1
  <2>4. current \in Files /\ TypeOK
    BY <2>1 DEF Inv, TypeOK
  <2>5. /\ n \in Nat /\ Inside(R, n) /\ Apart(R) /\ Ended(R, n)
        /\ \A d \in R : MethodFor(d).replacement \in Seq(Int)
    BY <2>3, <2>4, TidyFacts
  <2>6. b \in Buffer /\ Len(b.shift) = n + 1
    BY RewriterType DEF Inv, Rewriter
  <2>7. P \in SUBSET R
    BY DEF Handled
  <2>8. Handled(file)' = P \cup ({NextDecl} \cap R)
    BY <1>5, HandledAfterMatch
  <2>9. Pieces(Handled(file), n)' = Pieces(P \cup ({NextDecl} \cap R), n)
    BY <2>1, <2>8 DEF Pieces, MethodFor
  <2>10. CASE NextDecl \in R
    <3> DEFINE d   == NextDecl
               Q   == P \cup {d}
               new == MethodFor(d).replacement
    <3>1. rewriter_'.buffers[file]
            = Replace(b, d.outer, RangeSize(b, d.outer, d.last + 1), new)
      BY <1>5, <2>2, <2>3, <2>10, MatchReplaces
    <3>2. Q \in SUBSET R /\ P \cup ({NextDecl} \cap R) = Q /\ d \in R
      BY <2>7, <2>10
    <3>3. /\ Apart(P) /\ Inside(P, n) /\ Apart(Q) /\ Inside(Q, n)
          /\ \A e \in Q : MethodFor(e).replacement \in Seq(Int)
          /\ \A e \in P : MethodFor(e).replacement \in Seq(Int)
      BY <2>5, <2>7, <3>2 DEF Apart, Inside
    <3>4. Pieces(P, n) \in [1..n -> Seq(Int)] /\ Pieces(Q, n) \in [1..n -> Seq(Int)]
      <4> HIDE DEF P, Q, n
      <4>1. QED
        BY <2>5, <3>3, PiecesType
    <3>5. /\ Pieces(Q, n)[d.outer] = new
          /\ \A p \in Extent(d) \ {d.outer} : p \in 1..n => Pieces(Q, n)[p] = <<>>
          /\ \A p \in (1..n) \ Extent(d) : Pieces(Q, n)[p] = Pieces(P, n)[p]
      <4> HIDE DEF P, R, d, n, new
      <4>1. n \in Nat /\ Apart(R) /\ Inside(R, n) /\ P \in SUBSET R /\ d \in R
        BY <2>5, <2>7, <3>2
      <4>2. Swapped(Pieces(P, n), Pieces(P \cup {d}, n), n, d, new)
        BY <4>1, PiecesOfMore DEF new
      <4>3. QED
        BY <4>2 DEF Swapped
    <3>6. Extent(d) \subseteq 1..n
      <4> HIDE DEF R, n, d
      <4>1. d.outer \in 1..n /\ d.last + 1 \in 1..n
        BY <2>5, <3>2 DEF Inside, Ended
      <4>2. QED
        BY <4>1, <2>5 DEF Extent
    <3>7. \A p \in Extent(d) \ {d.outer} : Pieces(Q, n)[p] = <<>>
      BY <3>5, <3>6
    <3>8. new \in Seq(Int)
      BY <2>5, <3>2
    <3>9. Holds(Replace(b, d.outer, RangeSize(b, d.outer, d.last + 1), new), R, n, Pieces(Q, n))
      <4> HIDE DEF P, Q, R, b, d, n, new
      <4>1. QED
        BY <2>3, <2>5, <2>6, <3>2, <3>4, <3>5, <3>7, <3>8, TextEdit
    <3>10. QED
      BY <2>3, <2>9, <3>1, <3>2, <3>9
  <2>11. CASE NextDecl \notin R
    <3>1. rewriter_'.buffers[file] = b
      BY <1>5, <2>2, <2>3, <2>11, MatchReplaces
    <3>2. P \cup ({NextDecl} \cap R) = P
      BY <2>11
    <3>3. QED
      BY <2>3, <2>9, <3>1, <3>2
  <2>12. QED
    BY <2>10, <2>11
<1>6. CASE BeginSourceFileAction \/ HandleTranslationUnit
  BY <1>4, <1>6 DEF BeginSourceFileAction, HandleTranslationUnit
<1>7. CASE CreateASTConsumer
  <2>1. Same /\ rewriter_'.buffers = rewriter_.buffers /\ trace' = trace
    BY <1>7 DEF CreateASTConsumer
  <2>2. QED
    BY <1>4, <2>1
<1>8. CASE UNCHANGED vars
  BY <1>4, <1>8 DEF vars
<1>9. ~(CannotOpen \/ EndSourceFileAction \/ NoFileEntry \/ SaveWithoutEntry)
  BY DEF CannotOpen, EndSourceFileAction, NoFileEntry, SaveWithoutEntry
<1>10. QED
  BY <1>2, <1>5, <1>6, <1>7, <1>8, <1>9 DEF Next, Step, Done

\* However many declarations of a file are replaced, in whichever order, by texts of
\* any length: if they are tidy the buffer holds the file with exactly these
\* replacements when the last match is handled.
THEOREM BuffersHold == Spec => []BuffersHoldTheReplacements
<1>1. Init => TextInv
  BY DEF Init, TextInv
<1>2. Spec => []TextInv
  BY <1>1, TextKept, Invariance, PTL DEF Spec
<1>3. Inv /\ TextInv => BuffersHoldTheReplacements
  <2> SUFFICES ASSUME Inv, TextInv, phase = "matching", MatchesDone,
                      NEW file \in Anywhere, Tidy(current, file)
               PROVE  rewriter_.buffers[file].text = ReplacedText(current, file)
    BY DEF BuffersHoldTheReplacements
  <2> DEFINE R == Replaced(current, file)
             n == Length[file]
             s == Pieces(R, n)
  <2>1. current \in Files /\ units[current] \in Seq(Decl)
    BY InputAssumption DEF Inv, TypeOK
  <2>2. Handled(file) = R
    <3>1. Len(trace[current]) = Len(units[current])
      BY DEF MatchesDone
    <3>2. DOMAIN units[current] = 1..Len(trace[current])
      BY <2>1, <3>1
    <3>3. \A d \in R : d \in Range(units[current])
      BY DEF Replaced
    <3>4. \A d \in R : \E i \in 1..Len(trace[current]) : d = units[current][i]
      BY <3>2, <3>3 DEF Range
    <3>5. QED
      BY <3>4 DEF Handled
  <2>3. Holds(rewriter_.buffers[file], R, n, s)
    BY <2>2 DEF TextInv
  <2>4. PICK F : Joins(F, s, n) /\ rewriter_.buffers[file].text = F[n]
    BY <2>3 DEF Holds
  <2>5. /\ n \in Nat /\ Inside(R, n) /\ Apart(R)
        /\ \A d \in R : MethodFor(d).replacement \in Seq(Int)
    BY <2>1, TidyFacts DEF Inv
  <2>6. s \in [1..n -> Seq(Int)]
    <3> HIDE DEF R, n
    <3>1. QED
      BY <2>5, PiecesType
  <2>7. ReplacedText(current, file) = FlattenSeq(s)
    BY DEF ReplacedText, Pieces
  <2> HIDE DEF s, n, R
  <2>8. PICK G : Joins(G, s, n) /\ FlattenSeq(s) = G[n]
    BY <2>5, <2>6, Flattened
  <2>9. Alike(F, s, G, s, n, 0, n) /\ n \in 0..n
    BY <2>4, <2>5, <2>6, <2>8 DEF Alike
  <2>10. F[n] = G[n]
    BY <2>9, SameBefore
  <2>11. QED
    BY <2>4, <2>7, <2>8, <2>10
<1>4. QED
  BY <1>2, <1>3, Invariance, PTL

-------------------------------------------------------------------------------
(* The refinement.                                                         *)

\* The mapping of AnnotationDispatch: the outcomes asked for, and those of the
\* files that are finished.
Expected == [f \in Files |-> [i \in DOMAIN units[f] |->
                                Outcome(annotationMethods, units[f][i])]]
Reported == [f \in Files |-> IF f \in finished THEN trace[f] ELSE <<>>]

\* A file whose matches are done has the outcomes asked for.
LEMMA DoneIsExpected ==
  ASSUME Inv, phase = "matching", MatchesDone
  PROVE  trace[current] = Expected[current]
<1>1. current \in Files /\ trace[current] \in Seq(Outcomes)
  BY DEF Inv, TypeOK
<1>2. units[current] \in Seq(Decl)
  BY <1>1, InputAssumption DEF Inv, TypeOK
<1>3. DOMAIN units[current] = 1..Len(units[current])
  BY <1>2
<1>4. trace[current] = [i \in 1..Len(trace[current]) |-> trace[current][i]]
  BY <1>1
<1>5. \A i \in 1..Len(trace[current]) :
        trace[current][i] = Outcome(annotationMethods, units[current][i])
  BY <1>1 DEF Inv, TraceOK
<1>6. QED
  BY <1>1, <1>3, <1>4, <1>5 DEF MatchesDone, Expected

\* The end of a file is the one step in which the abstract specification
\* processes it.
LEMMA EndProcesses ==
  ASSUME Inv, phase = "matching", MatchesDone, NEW f \in Files, f = current,
         finished' = finished \cup {f}, phase' = "idle",
         UNCHANGED <<annotationMethods, units, trace>>
  PROVE  Dispatch!Process(f)
<1>1. f \notin finished /\ finished \subseteq Files
  BY DEF Inv, TypeOK
<1>2. trace[f] = Expected[f]
  BY DoneIsExpected
<1>3. Reported' = [Reported EXCEPT ![f] = Expected[f]]
  <2>1. \A g \in Files : Reported'[g] = IF g = f THEN Expected[f] ELSE Reported[g]
    BY <1>1, <1>2 DEF Reported
  <2>2. Reported' = [g \in Files |-> Reported'[g]]
    BY DEF Reported
  <2>3. Reported = [g \in Files |-> Reported[g]]
    BY DEF Reported
  <2>4. QED
    BY <2>1, <2>2, <2>3
<1>4. Expected' = Expected
  BY DEF Expected
<1>5. QED
  BY <1>1, <1>3, <1>4 DEF Dispatch!Process, Expected, Reported

\* A step that finishes no file and ends no process is one the abstract
\* specification does not see.
LEMMA Unseen ==
  ASSUME UNCHANGED <<annotationMethods, units, finished>>,
         \A f \in finished : trace'[f] = trace[f],
         (phase = "aborted") <=> (phase' = "aborted")
  PROVE  UNCHANGED Dispatch!dispatchVars
<1>1. Reported' = Reported
  BY DEF Reported
<1>2. QED
  BY <1>1 DEF Dispatch!dispatchVars, Reported

\* Matches in between files are out of the abstract specification's sight, or
\* they end the process.
LEMMA AbortOrUnseen ==
  ASSUME Inv, phase = "matching",
         UNCHANGED <<annotationMethods, units, finished>>,
         \A f \in finished : trace'[f] = trace[f]
  PROVE  [Dispatch!Next]_Dispatch!dispatchVars
<1>1. CASE phase' # "aborted"
  BY <1>1, Unseen
<1>2. CASE phase' = "aborted"
  <2>1. current \in Files /\ current \notin finished
    BY DEF Inv, TypeOK
  <2>2. finished # Files
    BY <2>1
  <2>3. Reported' = Reported
    BY DEF Reported
  <2>4. Dispatch!Abort
    BY <1>2, <2>2, <2>3 DEF Dispatch!Abort, Reported
  <2>5. QED
    BY <2>4 DEF Dispatch!Next
<1>3. QED
  BY <1>1, <1>2

LEMMA StepImplements == Inv /\ [Next]_vars => [Dispatch!Next]_Dispatch!dispatchVars
<1> SUFFICES ASSUME Inv, [Next]_vars
             PROVE  [Dispatch!Next]_Dispatch!dispatchVars
  OBVIOUS
<1>1. CASE \E f \in Files : Create(f)
  BY <1>1, Unseen DEF Create
<1>2. CASE CannotOpen
  BY <1>2, Unseen DEF CannotOpen
<1>3. CASE BeginSourceFileAction
  BY <1>3, Unseen DEF BeginSourceFileAction
<1>4. CASE CreateASTConsumer
  BY <1>4, Unseen DEF CreateASTConsumer
<1>5. CASE HandleTranslationUnit
  BY <1>5, Unseen DEF HandleTranslationUnit
<1>6. CASE Match
  <2>1. current \notin finished /\ finished \subseteq Files
    BY <1>6 DEF Inv, TypeOK, Match
  <2>2. \A f \in finished : trace'[f] = trace[f]
    BY <1>6, <2>1 DEF Inv, TypeOK, Match
  <2>3. QED
    BY <1>6, <2>2, AbortOrUnseen DEF Match
<1>7. CASE EndSourceFileAction \/ SaveWithoutEntry
  <2>1. current \in Files
    BY <1>7 DEF Inv, TypeOK, EndSourceFileAction, SaveWithoutEntry
  <2>2. PICK f \in Files : f = current
    BY <2>1
  <2>3. Dispatch!Process(f)
    BY <1>7, <2>2, EndProcesses DEF EndSourceFileAction, SaveWithoutEntry
  <2>4. QED
    BY <2>3 DEF Dispatch!Next
<1>8. CASE NoFileEntry
  BY <1>8, AbortOrUnseen DEF NoFileEntry
<1>9. CASE UNCHANGED vars
  BY <1>9, Unseen DEF vars
<1>10. QED
  BY <1>1, <1>2, <1>3, <1>4, <1>5, <1>6, <1>7, <1>8, <1>9 DEF Next, Step, Done

\* For any files, declarations and methods the pipeline keeps what
\* AnnotationDispatch promises: every declaration has the outcome its annotation
\* asks for, once and in its place, before its file is saved, once.
THEOREM PipelineImplementsDispatch == Spec => ImplementsDispatch
<1>1. Init => Dispatch!Init
  BY DEF Init, Dispatch!Init
<1>2. Inv /\ [Next]_vars => [Dispatch!Next]_Dispatch!dispatchVars
  BY StepImplements
<1>3. QED
  BY <1>1, <1>2, Invariance, PTL DEF Spec, ImplementsDispatch, Dispatch!Spec
===============================================================================
