--------------------------- MODULE FuncParserProofs ---------------------------
EXTENDS FuncReference, NaturalLemmas, SequenceTheorems, TLAPS

LEMMA FirstAssignProps ==
  ASSUME NEW s \in Text, Assigns(s) # {}
  PROVE  /\ FirstAssign(s) \in Assigns(s)
         /\ FirstAssign(s) \in 1..Len(s)
         /\ \A j \in Assigns(s) : FirstAssign(s) <= j
<1>1. Assigns(s) \in SUBSET Nat /\ Assigns(s) \subseteq 1..Len(s)
  BY DEF Assigns
<1>2. \E i \in Assigns(s) : \A j \in Assigns(s) : i <= j
  BY <1>1, SmallestInt
<1>3. FirstAssign(s) \in Assigns(s) /\ \A j \in Assigns(s) : FirstAssign(s) <= j
  BY <1>2 DEF FirstAssign
<1>4. QED
  BY <1>1, <1>3

LEMMA ExtractType ==
  ASSUME NEW s \in Text
  PROVE  ExtractFuncArg(s) \in Argument
<1> DEFINE n == FirstAssign(s)
<1>1. CASE Assigns(s) = {} \/ n = 1
  <2>1. <<>> \in Name
    BY DEF Name, Assigns, Text
  <2>2. QED
    BY <1>1, <2>1 DEF ExtractFuncArg, Argument
<1>2. CASE Assigns(s) # {} /\ n # 1
  <2>1. n \in 2..Len(s) /\ \A j \in Assigns(s) : n <= j
    BY <1>2, FirstAssignProps
  <2> DEFINE name == SubSeq(s, 1, n - 1)
             value == SubSeq(s, n + 1, Len(s))
  <2>2. name \in Text /\ value \in Text
    BY <2>1 DEF Text
  <2>3. Len(name) = n - 1 /\ \A i \in 1..(n - 1) : name[i] = s[i]
    BY <2>1 DEF Text
  <2> HIDE DEF name
  <2>4. Assigns(name) = {}
    <3>1. SUFFICES ASSUME NEW i \in 1..Len(name), name[i] = "=" PROVE FALSE
      BY DEF Assigns
    <3>2. i \in 1..(n - 1) /\ s[i] = "="
      BY <2>3, <3>1
    <3>3. Len(s) \in Nat
      BY DEF Text
    <3>4. i \in Assigns(s)
      BY <2>1, <3>2, <3>3 DEF Assigns
    <3>5. QED
      BY <2>1, <3>2, <3>4
  <2>5. ExtractFuncArg(s) = [name_ |-> name, value_ |-> value]
    BY <1>2 DEF ExtractFuncArg, name
  <2> HIDE DEF name, value, n
  <2>6. QED
    BY <2>2, <2>4, <2>5 DEF Argument, Name
<1>3. QED
  BY <1>1, <1>2

LEMMA IndexArgType ==
  ASSUME NEW index, IsIndex(index), NEW arg \in Argument
  PROVE  IsIndex(IndexArg(index, arg))
<1>1. CASE arg.name_ = <<>>
  BY <1>1 DEF IndexArg
<1>2. CASE arg.name_ # <<>>
  <2> DEFINE D  == DOMAIN index \cup {arg.name_}
             V(n) == IF n # arg.name_ THEN index[n]
                     ELSE IF n \in DOMAIN index THEN Append(index[n], arg.value_)
                     ELSE <<arg.value_>>
  <2>1. IndexArg(index, arg) = [n \in D |-> V(n)]
    BY <1>2 DEF IndexArg
  <2>2. D \subseteq Name \ {<<>>}
    BY <1>2 DEF IsIndex, Argument
  <2>3. ASSUME NEW n \in D PROVE V(n) \in Seq(Text)
    <3>1. arg.value_ \in Text
      BY DEF Argument
    <3>2. n \in DOMAIN index => index[n] \in Seq(Text)
      BY DEF IsIndex
    <3>3. QED
      BY <3>1, <3>2
  <2> HIDE DEF V
  <2>4. [n \in D |-> V(n)] \in [D -> Seq(Text)]
    BY <2>3
  <2>5. QED
    BY <2>1, <2>2, <2>4 DEF IsIndex
<1>3. QED
  BY <1>1, <1>2

LEMMA AppendResult ==
  ASSUME NEW r, IsList(r), NEW f
  PROVE  /\ IsList(Append(r, f))
         /\ DOMAIN Append(r, f) = 1..(Len(r) + 1)
         /\ DOMAIN r = 1..Len(r) /\ Len(r) \in Nat
         /\ \A i \in 1..Len(r) : Append(r, f)[i] = r[i]
         /\ Append(r, f)[Len(r) + 1] = f
<1> DEFINE S == {r[i] : i \in DOMAIN r} \cup {f}
           a == Append(r, f)
<1>1. r \in Seq(S)
  BY SeqMonotonic DEF IsList
<1>2. a \in Seq(S) /\ Len(a) = Len(r) + 1
  BY <1>1, AppendProperties
<1>3. a \in Seq(Range(a))
  BY <1>2, SeqOfRange
<1>4. DOMAIN a = 1..Len(a) /\ DOMAIN r = 1..Len(r) /\ Len(r) \in Nat
  BY <1>1, <1>2, LenProperties
<1>5. /\ \A i \in 1..Len(r) : a[i] = r[i]
      /\ a[Len(r) + 1] = f
  BY <1>1, AppendProperties
<1>6. QED
  BY <1>2, <1>3, <1>4, <1>5 DEF Range, IsList

LEMMA SpecialAreChars == Special \subseteq Char /\ Char \subseteq Char \cup {Garbage}
BY DEF Char, Special

LEMMA RequotedType ==
  ASSUME quoted \in Seq(Char)
  PROVE  Requoted \in Text /\ Requoted \in Seq(Char)
<1>1. <<"quote">> \in Seq(Char)
  <2>1. "quote" \in Char
    BY SpecialAreChars DEF Special
  <2>2. QED
    BY <2>1
<1>2. Requoted \in Seq(Char)
  BY <1>1 DEF Requoted
<1>3. QED
  BY <1>2 DEF Text

LEMMA ConsumeType ==
  ASSUME TypeOK, stream # <<>>, Consume
  PROVE  inStr' \in Inputs /\ stream' \in Seq(Char) /\ Head(stream) \in Char
BY DEF TypeOK, Consume

LEMMA AppendTextType ==
  ASSUME TypeOK, NEW t \in Text, AppendText(t)
  PROVE  /\ func_with_args_' \in Text
         /\ func_name_unprocessed_' \in Text
         /\ func_arg_as_str' \in Text
         /\ is_in_args' \in BOOLEAN
         /\ func_args_vec_' \in Seq(Argument)
         /\ IsIndex(func_args_as_name_to_value_)'
<1>1. /\ func_with_args_ \o t \in Text
      /\ func_arg_as_str \o t \in Text
  BY DEF TypeOK, Text
<1>2. QED
  BY <1>1 DEF TypeOK, AppendText, IsIndex

LEMMA PushArgType ==
  ASSUME TypeOK, stream # <<>>, NEW c \in Special, PushArg(c),
         is_in_args' \in BOOLEAN
  PROVE  TypeOK'
<1> DEFINE arg == ExtractFuncArg(func_arg_as_str)
<1>1. arg \in Argument
  BY ExtractType DEF TypeOK
<1>2. IsIndex(IndexArg(func_args_as_name_to_value_, arg))
  BY <1>1, IndexArgType DEF TypeOK
<1>3. func_args_vec_' \in Seq(Argument)
  BY <1>1 DEF PushArg, TypeOK
<1>4. IsIndex(func_args_as_name_to_value_)'
  BY <1>2 DEF PushArg, IsIndex
<1>5. func_with_args_' \in Text /\ func_arg_as_str' \in Text
  BY SpecialAreChars DEF PushArg, TypeOK, Text
<1>6. inStr' \in Inputs /\ stream' \in Seq(Char)
  BY ConsumeType DEF PushArg
<1>7. UNCHANGED <<mode, quoted, func_name_unprocessed_, result>>
  BY DEF PushArg
<1>8. QED
  BY <1>3, <1>4, <1>5, <1>6, <1>7 DEF TypeOK, IsParsedFunc, IsIndex

-------------------------------------------------------------------------------
(* Type correctness.                                                       *)

LEMMA InitTypeOK == Init => TypeOK
<1> SUFFICES ASSUME Init PROVE TypeOK
  OBVIOUS
<1>1. stream \in Seq(Char)
  <2>1. inStr \in Seq(Char) /\ ";" \in Char
    BY CharAssumption, SpecialAreChars DEF Init, Special
  <2>2. Append(inStr, ";") \in Seq(Char)
    BY <2>1, AppendProperties
  <2>3. QED
    BY <2>2 DEF Init, Closed
<1>2. <<>> \in Text /\ <<>> \in Seq(Char) /\ <<>> \in Seq(Argument)
  BY DEF Text
<1>3. IsIndex(func_args_as_name_to_value_)
  BY DEF Init, IsIndex, NoNames
<1>4. IsList(result) /\ DOMAIN result = {}
  BY DEF Init, IsList
<1>5. QED
  BY <1>1, <1>2, <1>3, <1>4 DEF Init, TypeOK, Modes

LEMMA AppendTextTypeOK ==
  ASSUME TypeOK, NEW t \in Text, AppendText(t), UNCHANGED result,
         inStr' \in Inputs, stream' \in Seq(Char), mode' \in Modes,
         quoted' \in Seq(Char)
  PROVE  TypeOK'
<1>1. /\ func_with_args_' \in Text
      /\ func_name_unprocessed_' \in Text
      /\ func_arg_as_str' \in Text
      /\ is_in_args' \in BOOLEAN
      /\ func_args_vec_' \in Seq(Argument)
      /\ IsIndex(func_args_as_name_to_value_)'
  BY AppendTextType
<1>2. QED
  BY <1>1 DEF TypeOK, IsParsedFunc, IsIndex

LEMMA SemicolonTypeOK == TypeOK /\ Semicolon => TypeOK'
<1> SUFFICES ASSUME TypeOK, Semicolon PROVE TypeOK'
  OBVIOUS
<1>1. /\ inStr' \in Inputs /\ stream' \in Seq(Char)
      /\ mode' \in Modes /\ quoted' \in Seq(Char)
  BY ConsumeType DEF Semicolon, Peek, TypeOK
<1>2. CASE func_with_args_ = <<>>
  BY <1>1, <1>2 DEF Semicolon, TypeOK, accumulators, IsParsedFunc, IsIndex
<1>3. CASE func_with_args_ # <<>>
  <2>1. result' = Append(result, ParsedFunc) /\ ResetFunc
    BY <1>3 DEF Semicolon
  <2>2. IsParsedFunc(ParsedFunc)
    BY DEF TypeOK, IsParsedFunc, ParsedFunc
  <2>3. \A i \in DOMAIN result' : IsParsedFunc(result'[i])
    <3>1. \A i \in 1..Len(result) : IsParsedFunc(result[i])
      BY AppendResult DEF TypeOK
    <3>2. /\ DOMAIN result' = 1..(Len(result) + 1) /\ Len(result) \in Nat
          /\ \A i \in 1..Len(result) : result'[i] = result[i]
          /\ result'[Len(result) + 1] = ParsedFunc
      BY <2>1, AppendResult DEF TypeOK
    <3>3. TAKE i \in DOMAIN result'
    <3>4. i \in 1..Len(result) \/ i = Len(result) + 1
      BY <3>2, <3>3
    <3>5. QED
      BY <2>2, <3>1, <3>2, <3>4
  <2>4. IsList(result)'
    BY <2>1, AppendResult DEF TypeOK
  <2>5. IsIndex(func_args_as_name_to_value_)'
    BY <2>1 DEF ResetFunc, IsIndex, NoNames
  <2>6. <<>> \in Text /\ <<>> \in Seq(Argument)
    BY DEF Text
  <2>7. (\A i \in DOMAIN result : IsParsedFunc(result[i]))'
    BY <2>3 DEF IsParsedFunc, IsIndex
  <2>8. QED
    BY <1>1, <2>1, <2>4, <2>5, <2>6, <2>7 DEF TypeOK, ResetFunc
<1>4. QED
  BY <1>2, <1>3

LEMMA NextTypeOK == TypeOK /\ [Next]_vars => TypeOK'
<1> SUFFICES ASSUME TypeOK, [Next]_vars PROVE TypeOK'
  OBVIOUS
<1>0. ASSUME UNCHANGED vars PROVE TypeOK'
  BY <1>0 DEF TypeOK, vars, IsParsedFunc, IsIndex
<1>1. ASSUME SkipSpace PROVE TypeOK'
  <2>1. inStr' \in Inputs /\ stream' \in Seq(Char)
    BY <1>1, ConsumeType DEF SkipSpace, Peek
  <2>2. QED
    BY <1>1, <2>1 DEF SkipSpace, TypeOK, accumulators, IsParsedFunc, IsIndex
<1>2. ASSUME BeginQuoted PROVE TypeOK'
  <2>1. inStr' \in Inputs /\ stream' \in Seq(Char)
    BY <1>2, ConsumeType DEF BeginQuoted, Peek
  <2>2. quoted' \in Seq(Char) /\ mode' \in Modes
    BY <1>2 DEF BeginQuoted, Modes
  <2>3. QED
    BY <1>2, <2>1, <2>2
       DEF BeginQuoted, TypeOK, accumulators, IsParsedFunc, IsIndex
<1>3. ASSUME ReadQuoted PROVE TypeOK'
  <2>1. inStr' \in Inputs /\ stream' \in Seq(Char) /\ Head(stream) \in Char
    BY <1>3, ConsumeType DEF ReadQuoted
  <2>2. quoted' \in Seq(Char) /\ mode' \in Modes
    <3>1. Append(quoted, Head(stream)) \in Seq(Char)
      BY <2>1 DEF TypeOK
    <3>2. CASE mode = "quoted" /\ Head(stream) = "escape"
      BY <1>3, <3>2 DEF ReadQuoted, Modes, TypeOK
    <3>3. CASE ~(mode = "quoted" /\ Head(stream) = "escape")
      BY <1>3, <3>1, <3>3 DEF ReadQuoted, Modes
    <3>4. QED
      BY <3>2, <3>3
  <2>3. QED
    BY <1>3, <2>1, <2>2
       DEF ReadQuoted, TypeOK, accumulators, IsParsedFunc, IsIndex
<1>4. ASSUME EndQuoted PROVE TypeOK'
  <2>1. inStr' \in Inputs /\ stream' \in Seq(Char)
    BY <1>4, ConsumeType DEF EndQuoted
  <2>2. QED
    BY <1>4, <2>1, RequotedType, AppendTextTypeOK DEF EndQuoted, Modes, TypeOK
<1>5. ASSUME UnterminatedQuote PROVE TypeOK'
  BY <1>5, RequotedType, AppendTextTypeOK DEF UnterminatedQuote, Modes, TypeOK
<1>6. ASSUME OpenParen PROVE TypeOK'
  <2>1. inStr' \in Inputs /\ stream' \in Seq(Char)
    BY <1>6, ConsumeType DEF OpenParen, Peek
  <2>2. "(" \in Char
    BY SpecialAreChars DEF Special
  <2>3. func_with_args_' \in Text /\ func_arg_as_str' \in Text
    BY <1>6, <2>2 DEF OpenParen, TypeOK, Text
  <2>4. QED
    BY <1>6, <2>1, <2>3 DEF OpenParen, TypeOK, IsParsedFunc, IsIndex
<1>7. ASSUME CloseParen PROVE TypeOK'
  BY <1>7, PushArgType DEF CloseParen, Peek, Special
<1>8. ASSUME Comma PROVE TypeOK'
  BY <1>8, PushArgType DEF Comma, Peek, Special, TypeOK
<1>9. ASSUME CommaAsserts PROVE TypeOK'
  BY <1>9 DEF CommaAsserts, TypeOK, accumulators, Modes, IsParsedFunc, IsIndex
<1>10. ASSUME Semicolon PROVE TypeOK'
  BY <1>10, SemicolonTypeOK
<1>11. ASSUME OtherChar PROVE TypeOK'
  <2>1. inStr' \in Inputs /\ stream' \in Seq(Char) /\ Head(stream) \in Char
    BY <1>11, ConsumeType DEF OtherChar
  <2>2. <<Head(stream)>> \in Text
    BY <2>1 DEF Text
  <2>3. QED
    BY <1>11, <2>1, <2>2, AppendTextTypeOK DEF OtherChar, TypeOK
<1>12. ASSUME PastEnd PROVE TypeOK'
  <2>1. <<Garbage>> \in Text
    BY DEF Text
  <2>2. QED
    BY <1>12, <2>1, AppendTextTypeOK DEF PastEnd, Modes, TypeOK
<1>13. QED
  BY <1>0, <1>1, <1>2, <1>3, <1>4, <1>5, <1>6, <1>7, <1>8, <1>9, <1>10, <1>11,
     <1>12 DEF Next, Finished

\* Every state of the parser is well typed, for every alphabet and every set of
\* inputs; in particular extract_func_arg never reports a name that holds a '='.
THEOREM TypeCorrect == Spec => []TypeOK
<1>1. QED
  BY InitTypeOK, NextTypeOK, PTL DEF Spec

-------------------------------------------------------------------------------
(* The two views of the arguments agree.                                   *)

\* Adding one argument to both views keeps them in agreement.
LEMMA GroupsPush ==
  ASSUME NEW index, IsIndex(index), NEW vec \in Seq(Argument),
         Groups(index, vec), NEW arg \in Argument
  PROVE  Groups(IndexArg(index, arg), Append(vec, arg))
<1> DEFINE L    == Len(vec)
           vec2 == Append(vec, arg)
           idx2 == IndexArg(index, arg)
           At(at, n, ix, v) ==
             /\ \A j, k \in DOMAIN at : j < k => at[j] < at[k]
             /\ \A k \in DOMAIN at : /\ v[at[k]].name_ = n
                                     /\ v[at[k]].value_ = ix[n][k]
             /\ \A i \in DOMAIN v :
                  v[i].name_ = n => \E k \in DOMAIN at : at[k] = i
<1>1. /\ L \in Nat /\ DOMAIN vec = 1..L
      /\ DOMAIN vec2 = 1..(L + 1)
      /\ \A i \in 1..L : vec2[i] = vec[i]
      /\ vec2[L + 1] = arg
  BY AppendProperties, LenProperties
<1>2. DOMAIN index = {vec[i].name_ : i \in DOMAIN vec} \ {<<>>}
  BY DEF Groups
<1>3. DOMAIN idx2 = IF arg.name_ = <<>> THEN DOMAIN index
                    ELSE DOMAIN index \cup {arg.name_}
  BY DEF IndexArg
<1>4. DOMAIN idx2 = {vec2[i].name_ : i \in DOMAIN vec2} \ {<<>>}
  <2> HIDE DEF vec2, idx2, L
  <2>1. {vec2[i].name_ : i \in DOMAIN vec2}
          = {vec[i].name_ : i \in DOMAIN vec} \cup {arg.name_}
    BY <1>1
  <2>2. QED
    BY <1>2, <1>3, <2>1
<1>5. ASSUME NEW n \in DOMAIN idx2
      PROVE  \E at \in [DOMAIN idx2[n] -> DOMAIN vec2] : At(at, n, idx2, vec2)
  <2>1. CASE n # arg.name_
    <3>1. n \in DOMAIN index /\ idx2[n] = index[n]
      BY <1>3, <2>1 DEF IndexArg
    <3>2. PICK at \in [DOMAIN index[n] -> DOMAIN vec] : At(at, n, index, vec)
      BY <3>1 DEF Groups
    <3> HIDE DEF vec2, idx2, L
    <3>3. at \in [DOMAIN idx2[n] -> DOMAIN vec2]
      BY <1>1, <3>1, <3>2
    <3>4. At(at, n, idx2, vec2)
      BY <1>1, <2>1, <3>1, <3>2
    <3>5. QED
      BY <3>3, <3>4
  <2>2. CASE n = arg.name_ /\ n \in DOMAIN index
    <3> DEFINE old == index[n]
               M   == Len(old)
    <3>1. arg.name_ # <<>> /\ idx2[n] = Append(old, arg.value_)
      BY <2>2, <1>2 DEF IndexArg
    <3>2. old \in Seq(Text) /\ arg.value_ \in Text
      BY <2>2 DEF IsIndex, Argument
    <3>3. /\ M \in Nat /\ DOMAIN old = 1..M
          /\ DOMAIN idx2[n] = 1..(M + 1)
          /\ \A k \in 1..M : idx2[n][k] = old[k]
          /\ idx2[n][M + 1] = arg.value_
      BY <3>1, <3>2, AppendProperties, LenProperties
    <3>4. PICK at \in [1..M -> 1..L] : At(at, n, index, vec)
      <4>1. \E at \in [DOMAIN index[n] -> DOMAIN vec] : At(at, n, index, vec)
        BY <2>2 DEF Groups
      <4>2. [DOMAIN index[n] -> DOMAIN vec] = [1..M -> 1..L]
        BY <1>1, <3>3
      <4> HIDE DEF At, L, M
      <4>3. QED
        BY <4>1, <4>2
    <3> DEFINE at2 == [k \in 1..(M + 1) |-> IF k = M + 1 THEN L + 1 ELSE at[k]]
    <3> HIDE DEF vec2, idx2, L, M, old
    <3>5. at2 \in [DOMAIN idx2[n] -> DOMAIN vec2]
      BY <1>1, <3>3, <3>4
    <3>6. \A j, k \in DOMAIN at2 : j < k => at2[j] < at2[k]
      <4>1. SUFFICES ASSUME NEW j \in 1..(M + 1), NEW k \in 1..(M + 1), j < k
                     PROVE  at2[j] < at2[k]
        OBVIOUS
      <4>2. j \in 1..M /\ at2[j] = at[j] /\ at[j] \in 1..L
        BY <3>3, <3>4, <4>1
      <4>3. CASE k = M + 1
        BY <1>1, <4>2, <4>3
      <4>4. CASE k \in 1..M
        BY <3>3, <3>4, <4>1, <4>2, <4>4
      <4>5. QED
        BY <3>3, <4>3, <4>4
    <3>7. ASSUME NEW k \in DOMAIN at2
          PROVE  vec2[at2[k]].name_ = n /\ vec2[at2[k]].value_ = idx2[n][k]
      <4>1. CASE k = M + 1
        BY <1>1, <2>2, <3>3, <4>1
      <4>2. CASE k \in 1..M
        <5>1. at2[k] = at[k] /\ at[k] \in 1..L
          BY <3>3, <3>4, <4>2
        <5>2. vec[at[k]].name_ = n /\ vec[at[k]].value_ = old[k]
          BY <3>4, <4>2 DEF old
        <5>3. QED
          BY <1>1, <3>3, <4>2, <5>1, <5>2
      <4>3. QED
        BY <3>3, <4>1, <4>2
    <3>8. ASSUME NEW i \in DOMAIN vec2, vec2[i].name_ = n
          PROVE  \E k \in DOMAIN at2 : at2[k] = i
      <4>1. CASE i = L + 1
        BY <3>3, <4>1
      <4>2. CASE i \in 1..L
        <5>1. vec[i].name_ = n
          BY <1>1, <3>8, <4>2
        <5>2. PICK k \in 1..M : at[k] = i
          BY <1>1, <3>4, <4>2, <5>1
        <5>3. k \in DOMAIN at2 /\ at2[k] = i
          BY <3>3, <5>2
        <5>4. QED
          BY <5>3
      <4>3. QED
        BY <1>1, <4>1, <4>2
    <3> HIDE DEF at2
    <3>9. QED
      BY <3>5, <3>6, <3>7, <3>8
  <2>3. CASE n = arg.name_ /\ n \notin DOMAIN index
    <3>1. arg.name_ # <<>> /\ idx2[n] = <<arg.value_>>
      BY <1>3, <2>3 DEF IndexArg
    <3> DEFINE at2 == [k \in {1} |-> L + 1]
    <3> HIDE DEF vec2, idx2, L
    <3>2. \A i \in 1..L : vec[i].name_ # n
      BY <1>1, <1>2, <2>3, <3>1
    <3>3. at2 \in [DOMAIN idx2[n] -> DOMAIN vec2]
      BY <1>1, <3>1
    <3>4. At(at2, n, idx2, vec2)
      BY <1>1, <2>3, <3>1, <3>2
    <3> HIDE DEF at2
    <3>5. QED
      BY <3>3, <3>4
  <2>4. QED
    BY <2>1, <2>2, <2>3
<1> HIDE DEF vec2, idx2
<1>6. QED
  BY <1>4, <1>5 DEF Groups, vec2, idx2

LEMMA GroupsNothing == Groups(NoNames, <<>>)
BY DEF Groups, NoNames

LEMMA InitViewsAgree == Init => ViewsAgree
BY GroupsNothing DEF Init, ViewsAgree

\* Only ')' and ',' add an argument, and only ';' reports and clears; every
\* other step leaves both views and the result alone.
LEMMA PushArgViewsAgree ==
  ASSUME TypeOK, ViewsAgree, NEW c, PushArg(c)
  PROVE  ViewsAgree'
<1> DEFINE arg == ExtractFuncArg(func_arg_as_str)
<1>1. arg \in Argument
  BY ExtractType DEF TypeOK
<1>2. Groups(IndexArg(func_args_as_name_to_value_, arg),
             Append(func_args_vec_, arg))
  BY <1>1, GroupsPush DEF TypeOK, ViewsAgree
<1>3. /\ func_args_as_name_to_value_' = IndexArg(func_args_as_name_to_value_, arg)
      /\ func_args_vec_' = Append(func_args_vec_, arg)
      /\ result' = result
  BY DEF PushArg
<1>4. QED
  BY <1>2, <1>3 DEF ViewsAgree

LEMMA SemicolonViewsAgree ==
  ASSUME TypeOK, ViewsAgree, Semicolon
  PROVE  ViewsAgree'
<1>1. CASE func_with_args_ = <<>>
  BY <1>1 DEF Semicolon, ViewsAgree, accumulators
<1>2. CASE func_with_args_ # <<>>
  <2>1. /\ result' = Append(result, ParsedFunc)
        /\ func_args_as_name_to_value_' = NoNames
        /\ func_args_vec_' = <<>>
    BY <1>2 DEF Semicolon, ResetFunc
  <2>2. Groups(ParsedFunc.as_name_to_value_, ParsedFunc.as_vec_)
    BY DEF ViewsAgree, ParsedFunc
  <2>3. /\ DOMAIN result' = 1..(Len(result) + 1)
        /\ DOMAIN result = 1..Len(result) /\ Len(result) \in Nat
        /\ \A i \in 1..Len(result) : result'[i] = result[i]
        /\ result'[Len(result) + 1] = ParsedFunc
    BY <2>1, AppendResult DEF TypeOK
  <2>4. ASSUME NEW i \in DOMAIN result'
        PROVE  Groups(result'[i].as_name_to_value_, result'[i].as_vec_)
    <3>1. i \in 1..Len(result) \/ i = Len(result) + 1
      BY <2>3
    <3>2. QED
      BY <2>2, <2>3, <3>1 DEF ViewsAgree
  <2>5. QED
    BY <2>1, <2>4, GroupsNothing DEF ViewsAgree
<1>3. QED
  BY <1>1, <1>2

LEMMA NextViewsAgree == TypeOK /\ ViewsAgree /\ [Next]_vars => ViewsAgree'
<1> SUFFICES ASSUME TypeOK, ViewsAgree, [Next]_vars PROVE ViewsAgree'
  OBVIOUS
<1> DEFINE same == UNCHANGED <<func_args_as_name_to_value_, func_args_vec_, result>>
<1>1. same => ViewsAgree'
  BY DEF ViewsAgree
<1>2. CASE SkipSpace \/ BeginQuoted \/ ReadQuoted \/ CommaAsserts
  <2>1. same
    BY <1>2 DEF SkipSpace, BeginQuoted, ReadQuoted, CommaAsserts, accumulators
  <2>2. QED
    BY <1>1, <2>1
<1>3. CASE EndQuoted \/ UnterminatedQuote \/ OtherChar \/ PastEnd
  <2>1. same
    BY <1>3 DEF EndQuoted, UnterminatedQuote, OtherChar, PastEnd, AppendText
  <2>2. QED
    BY <1>1, <2>1
<1>4. CASE OpenParen
  BY <1>1, <1>4 DEF OpenParen
<1>5. CASE CloseParen \/ Comma
  BY <1>5, PushArgViewsAgree DEF CloseParen, Comma
<1>6. CASE Semicolon
  BY <1>6, SemicolonViewsAgree
<1>7. CASE UNCHANGED vars
  BY <1>1, <1>7 DEF vars
<1>8. QED
  BY <1>2, <1>3, <1>4, <1>5, <1>6, <1>7 DEF Next, Finished

\* as_vec_ and as_name_to_value_ of every reported function hold the same
\* arguments, in the same order: for every input.
THEOREM ViewsAlwaysAgree == Spec => []ViewsAgree
<1>1. Init => TypeOK /\ ViewsAgree
  BY InitTypeOK, InitViewsAgree
<1>2. TypeOK /\ ViewsAgree /\ [Next]_vars => (TypeOK /\ ViewsAgree)'
  BY NextTypeOK, NextViewsAgree
<1>3. QED
  BY <1>1, <1>2, PTL DEF Spec

-------------------------------------------------------------------------------
(* The character that was never read stays inside.  It is appended in the  *)
(* step that leaves the loop, so the accumulators are clean until then, and *)
(* what ';' reports is made of the accumulators.                           *)

CleanFunc(f) ==
  /\ ~HoldsGarbage(f.func_with_args_as_string_)
  /\ ~HoldsGarbage(f.func_name_)
  /\ CleanArgs(f.as_vec_)
  /\ CleanIndex(f.as_name_to_value_)

CleanAccumulators ==
  /\ ~HoldsGarbage(func_with_args_)
  /\ ~HoldsGarbage(func_name_unprocessed_)
  /\ ~HoldsGarbage(func_arg_as_str)
  /\ CleanArgs(func_args_vec_)
  /\ CleanIndex(func_args_as_name_to_value_)

CleanInv ==
  /\ mode # "returned" => CleanAccumulators
  /\ GarbageStaysInside

LEMMA CharsAreClean ==
  ASSUME NEW t \in Seq(Char)
  PROVE  ~HoldsGarbage(t)
BY CharAssumption DEF HoldsGarbage

LEMMA CleanConcat ==
  ASSUME NEW t \in Text, NEW u \in Text, ~HoldsGarbage(t), ~HoldsGarbage(u)
  PROVE  ~HoldsGarbage(t \o u)
BY DEF HoldsGarbage, Text

LEMMA CleanAppend ==
  ASSUME NEW t \in Text, NEW c \in Char, ~HoldsGarbage(t)
  PROVE  ~HoldsGarbage(Append(t, c))
BY CharAssumption DEF HoldsGarbage, Text

LEMMA CleanSubSeq ==
  ASSUME NEW t \in Text, NEW m \in 1..(Len(t) + 1), NEW n \in 0..Len(t),
         ~HoldsGarbage(t)
  PROVE  ~HoldsGarbage(SubSeq(t, m, n))
<1> DEFINE u == SubSeq(t, m, n)
<1>1. Len(t) \in Nat /\ DOMAIN t = 1..Len(t)
  BY DEF Text
<1>2. \A i \in DOMAIN u : u[i] = t[m + i - 1] /\ m + i - 1 \in DOMAIN t
  BY <1>1, SubSeqProperties DEF Text
<1> HIDE DEF u
<1>3. ~HoldsGarbage(u)
  BY <1>2 DEF HoldsGarbage
<1>4. QED
  BY <1>3 DEF u

LEMMA CleanExtract ==
  ASSUME NEW s \in Text, ~HoldsGarbage(s)
  PROVE  /\ ~HoldsGarbage(ExtractFuncArg(s).name_)
         /\ ~HoldsGarbage(ExtractFuncArg(s).value_)
<1> DEFINE n == FirstAssign(s)
<1>0. Len(s) \in Nat
  BY DEF Text
<1>1. CASE Assigns(s) = {} \/ n = 1
  BY <1>1 DEF ExtractFuncArg, HoldsGarbage
<1>2. CASE Assigns(s) # {} /\ n # 1
  <2>1. n \in 2..Len(s)
    BY <1>2, FirstAssignProps
  <2>2. ~HoldsGarbage(SubSeq(s, 1, n - 1)) /\ ~HoldsGarbage(SubSeq(s, n + 1, Len(s)))
    BY <1>0, <2>1, CleanSubSeq
  <2>3. QED
    BY <1>2, <2>2 DEF ExtractFuncArg
<1>3. QED
  BY <1>1, <1>2

LEMMA CleanArgsAppend ==
  ASSUME NEW vec \in Seq(Argument), CleanArgs(vec), NEW arg \in Argument,
         ~HoldsGarbage(arg.name_), ~HoldsGarbage(arg.value_)
  PROVE  CleanArgs(Append(vec, arg))
<1>1. /\ DOMAIN Append(vec, arg) = 1..(Len(vec) + 1)
      /\ DOMAIN vec = 1..Len(vec) /\ Len(vec) \in Nat
      /\ \A i \in 1..Len(vec) : Append(vec, arg)[i] = vec[i]
      /\ Append(vec, arg)[Len(vec) + 1] = arg
  BY AppendProperties, LenProperties
<1>2. SUFFICES ASSUME NEW i \in DOMAIN Append(vec, arg)
               PROVE  /\ ~HoldsGarbage(Append(vec, arg)[i].name_)
                      /\ ~HoldsGarbage(Append(vec, arg)[i].value_)
  BY DEF CleanArgs
<1>3. i \in 1..Len(vec) \/ i = Len(vec) + 1
  BY <1>1
<1>4. QED
  BY <1>1, <1>3 DEF CleanArgs

LEMMA CleanIndexArg ==
  ASSUME NEW index, IsIndex(index), CleanIndex(index), NEW arg \in Argument,
         ~HoldsGarbage(arg.name_), ~HoldsGarbage(arg.value_)
  PROVE  CleanIndex(IndexArg(index, arg))
<1> DEFINE idx2 == IndexArg(index, arg)
<1>1. CASE arg.name_ = <<>>
  BY <1>1 DEF IndexArg
<1>2. CASE arg.name_ # <<>>
  <2>1. SUFFICES ASSUME NEW n \in DOMAIN idx2
                 PROVE  /\ ~HoldsGarbage(n)
                        /\ \A k \in DOMAIN idx2[n] : ~HoldsGarbage(idx2[n][k])
    BY DEF CleanIndex
  <2>2. n \in DOMAIN index \cup {arg.name_}
    BY <1>2 DEF IndexArg
  <2>3. CASE n # arg.name_
    <3>1. n \in DOMAIN index /\ idx2[n] = index[n]
      BY <1>2, <2>2, <2>3 DEF IndexArg
    <3>2. QED
      BY <3>1 DEF CleanIndex
  <2>4. CASE n = arg.name_ /\ n \in DOMAIN index
    <3> DEFINE old == index[n]
    <3>1. idx2[n] = Append(old, arg.value_)
      BY <1>2, <2>4 DEF IndexArg
    <3>2. old \in Seq(Text) /\ arg.value_ \in Text
      BY <2>4 DEF IsIndex, Argument
    <3>3. /\ Len(old) \in Nat /\ DOMAIN old = 1..Len(old)
          /\ DOMAIN idx2[n] = 1..(Len(old) + 1)
          /\ \A k \in 1..Len(old) : idx2[n][k] = old[k]
          /\ idx2[n][Len(old) + 1] = arg.value_
      BY <3>1, <3>2, AppendProperties, LenProperties
    <3>4. \A k \in 1..Len(old) : ~HoldsGarbage(old[k])
      BY <2>4, <3>3 DEF CleanIndex
    <3>5. \A k \in 1..(Len(old) + 1) : k \in 1..Len(old) \/ k = Len(old) + 1
      BY <3>3
    <3> HIDE DEF idx2, old
    <3>6. QED
      BY <2>4, <3>3, <3>4, <3>5
  <2>5. CASE n = arg.name_ /\ n \notin DOMAIN index
    <3>1. idx2[n] = <<arg.value_>>
      BY <1>2, <2>5 DEF IndexArg
    <3>2. QED
      BY <2>5, <3>1
  <2>6. QED
    BY <2>3, <2>4, <2>5
<1>3. QED
  BY <1>1, <1>2

LEMMA InitClean == Init => CleanInv
BY DEF Init, CleanInv, CleanAccumulators, GarbageStaysInside, HoldsGarbage,
       CleanArgs, CleanIndex, NoNames

LEMMA AppendTextClean ==
  ASSUME TypeOK, CleanAccumulators, NEW t \in Seq(Char), AppendText(t)
  PROVE  CleanAccumulators'
<1>1. t \in Text /\ ~HoldsGarbage(t)
  BY CharsAreClean DEF Text
<1>2. ~HoldsGarbage(func_with_args_ \o t) /\ ~HoldsGarbage(func_arg_as_str \o t)
  BY <1>1, CleanConcat DEF TypeOK, CleanAccumulators
<1>3. QED
  BY <1>2 DEF AppendText, CleanAccumulators

LEMMA PushArgClean ==
  ASSUME TypeOK, CleanAccumulators, NEW c \in Special, PushArg(c)
  PROVE  CleanAccumulators'
<1> DEFINE arg == ExtractFuncArg(func_arg_as_str)
<1>1. arg \in Argument /\ ~HoldsGarbage(arg.name_) /\ ~HoldsGarbage(arg.value_)
  BY ExtractType, CleanExtract DEF TypeOK, CleanAccumulators
<1>2. CleanArgs(Append(func_args_vec_, arg))
  BY <1>1, CleanArgsAppend DEF TypeOK, CleanAccumulators
<1>3. CleanIndex(IndexArg(func_args_as_name_to_value_, arg))
  BY <1>1, CleanIndexArg DEF TypeOK, CleanAccumulators
<1>4. ~HoldsGarbage(Append(func_with_args_, c))
  BY CleanAppend, SpecialAreChars DEF TypeOK, CleanAccumulators
<1>5. ~HoldsGarbage(<<>>)
  BY DEF HoldsGarbage
<1>6. QED
  BY <1>2, <1>3, <1>4, <1>5 DEF PushArg, CleanAccumulators

LEMMA SemicolonClean ==
  ASSUME TypeOK, CleanInv, Semicolon
  PROVE  CleanInv'
<1>0. CleanAccumulators /\ mode # "returned"
  BY DEF Semicolon, Peek, CleanInv
<1>1. CASE func_with_args_ = <<>>
  BY <1>1 DEF Semicolon, CleanInv, CleanAccumulators, GarbageStaysInside,
              accumulators
<1>2. CASE func_with_args_ # <<>>
  <2>1. result' = Append(result, ParsedFunc) /\ ResetFunc
    BY <1>2 DEF Semicolon
  <2>2. CleanFunc(ParsedFunc)
    BY <1>0 DEF CleanFunc, CleanAccumulators, ParsedFunc
  <2>3. /\ DOMAIN result' = 1..(Len(result) + 1)
        /\ DOMAIN result = 1..Len(result) /\ Len(result) \in Nat
        /\ \A i \in 1..Len(result) : result'[i] = result[i]
        /\ result'[Len(result) + 1] = ParsedFunc
    BY <2>1, AppendResult DEF TypeOK
  <2>4. ASSUME NEW i \in DOMAIN result' PROVE CleanFunc(result'[i])
    <3>1. i \in 1..Len(result) \/ i = Len(result) + 1
      BY <2>3
    <3>2. QED
      BY <2>2, <2>3, <3>1 DEF CleanInv, GarbageStaysInside, CleanFunc
  <2>5. CleanAccumulators'
    BY <2>1 DEF ResetFunc, CleanAccumulators, HoldsGarbage, CleanArgs,
                CleanIndex, NoNames
  <2>6. QED
    BY <2>4, <2>5 DEF CleanInv, GarbageStaysInside, CleanFunc
<1>3. QED
  BY <1>1, <1>2

LEMMA NextClean == TypeOK /\ CleanInv /\ [Next]_vars => CleanInv'
<1> SUFFICES ASSUME TypeOK, CleanInv, [Next]_vars PROVE CleanInv'
  OBVIOUS
<1>1. result' = result => GarbageStaysInside'
  BY DEF CleanInv, GarbageStaysInside
<1>2. CASE SkipSpace \/ BeginQuoted \/ ReadQuoted \/ CommaAsserts
  <2>1. UNCHANGED <<accumulators, result>> /\ mode # "returned"
    BY <1>2 DEF SkipSpace, BeginQuoted, ReadQuoted, CommaAsserts, Peek
  <2>2. QED
    BY <1>1, <2>1 DEF CleanInv, CleanAccumulators, accumulators
<1>3. CASE EndQuoted
  BY <1>1, <1>3, RequotedType, AppendTextClean DEF EndQuoted, CleanInv, TypeOK
<1>4. CASE OtherChar
  <2>1. <<Head(stream)>> \in Seq(Char)
    BY <1>4, ConsumeType DEF OtherChar
  <2>2. QED
    BY <1>1, <1>4, <2>1, AppendTextClean DEF OtherChar, CleanInv
<1>5. CASE UnterminatedQuote \/ PastEnd
  BY <1>1, <1>5 DEF UnterminatedQuote, PastEnd, CleanInv
<1>6. CASE OpenParen
  <2>1. CleanAccumulators /\ "(" \in Char
    BY <1>6, SpecialAreChars DEF OpenParen, Peek, CleanInv, Special
  <2>2. ~HoldsGarbage(Append(func_with_args_, "(")) /\ ~HoldsGarbage(<<>>)
    BY <2>1, CleanAppend DEF TypeOK, CleanAccumulators, HoldsGarbage
  <2>3. QED
    BY <1>1, <1>6, <2>1, <2>2 DEF OpenParen, CleanInv, CleanAccumulators
<1>7. CASE CloseParen
  BY <1>1, <1>7, PushArgClean DEF CloseParen, Peek, Special, PushArg, CleanInv
<1>8. CASE Comma
  BY <1>1, <1>8, PushArgClean DEF Comma, Peek, Special, PushArg, CleanInv
<1>9. CASE Semicolon
  BY <1>9, SemicolonClean
<1>10. CASE UNCHANGED vars
  BY <1>10 DEF CleanInv, CleanAccumulators, GarbageStaysInside, vars
<1>11. QED
  BY <1>2, <1>3, <1>4, <1>5, <1>6, <1>7, <1>8, <1>9, <1>10 DEF Next, Finished

\* Whatever the unassigned character is, no caller of split_to_funcs ever sees
\* it, for any input.
THEOREM GarbageNeverReported == Spec => []GarbageStaysInside
<1>1. Init => TypeOK /\ CleanInv
  BY InitTypeOK, InitClean
<1>2. TypeOK /\ CleanInv /\ [Next]_vars => (TypeOK /\ CleanInv)'
  BY NextTypeOK, NextClean
<1>3. CleanInv => GarbageStaysInside
  BY DEF CleanInv
<1>4. QED
  BY <1>1, <1>2, <1>3, PTL DEF Spec

-------------------------------------------------------------------------------
(* The elements of a set in ascending order.  Ascending is a recursive       *)
(* function, which CHOOSE takes by its equation: there is such a function,   *)
(* and any two agree.                                                        *)

Tells(f, n, S) ==
  /\ f \in [0..n -> Seq(Nat)]
  /\ f[0] = <<>>
  /\ \A k \in 1..n : f[k] = IF k \in S THEN Append(f[k - 1], k) ELSE f[k - 1]

LEMMA AscendingTells ==
  ASSUME NEW n \in Nat, NEW S
  PROVE  \E f : Tells(f, n, S) /\ Ascending(n, S) = f[n]
<1> DEFINE g == [p \in (1..n) \X Seq(Nat) |->
                   IF p[1] \in S THEN Append(p[2], p[1]) ELSE p[2]]
           Turn(f, k) == IF k = 0 THEN <<>>
                         ELSE IF k \in S THEN Append(f[k - 1], k) ELSE f[k - 1]
           Def(f) == f = [k \in 0..n |-> Turn(f, k)]
           upTo == CHOOSE f : Def(f)
<1>1. <<>> \in Seq(Nat)
  OBVIOUS
<1>2. \A k \in 1..n, t \in Seq(Nat) :
        /\ g[<<k, t>>] = IF k \in S THEN Append(t, k) ELSE t
        /\ g[<<k, t>>] \in Seq(Nat)
  <2>1. \A k \in 1..n, t \in Seq(Nat) : Append(t, k) \in Seq(Nat)
    BY AppendProperties
  <2>2. QED
    BY <2>1
<1>3. g \in [(1..n) \X Seq(Nat) -> Seq(Nat)]
  BY <1>2
<1> HIDE DEF g
<1>4. PICK f : IsLoop(f, n, Seq(Nat), <<>>, g)
  BY <1>1, <1>3, RecursionUpTo
<1>5. \A k \in 1..n : f[k] = IF k \in S THEN Append(f[k - 1], k) ELSE f[k - 1]
  <2> SUFFICES ASSUME NEW k \in 1..n
               PROVE  f[k] = IF k \in S THEN Append(f[k - 1], k) ELSE f[k - 1]
    OBVIOUS
  <2>1. k - 1 \in 0..n /\ f[k - 1] \in Seq(Nat) /\ f[k] = g[<<k, f[k - 1]>>]
    BY <1>4 DEF IsLoop
  <2>2. QED
    BY <1>2, <2>1
<1>6. f \in [0..n -> Seq(Nat)] /\ f[0] = <<>>
  BY <1>4 DEF IsLoop
<1>7. Def(f)
  <2>1. ASSUME NEW k \in 0..n PROVE f[k] = Turn(f, k)
    <3>1. k = 0 \/ (k \in 1..n /\ k # 0)
      OBVIOUS
    <3>2. QED
      BY <1>5, <1>6, <3>1
  <2> HIDE DEF Turn
  <2>2. QED
    BY <1>6, <2>1
<1>8. Def(upTo)
  <2>1. \E h : Def(h)
    BY <1>7
  <2> HIDE DEF Def
  <2>2. QED
    BY <2>1
<1>9. Ascending(n, S) = upTo[n]
  BY DEF Ascending
<1> HIDE DEF upTo
<1>10. DOMAIN upTo = 0..n /\ upTo[0] = <<>>
       /\ \A k \in 1..n : upTo[k] = IF k \in S THEN Append(upTo[k - 1], k)
                                      ELSE upTo[k - 1]
  <2>1. DOMAIN upTo = 0..n /\ \A k \in 0..n : upTo[k] = Turn(upTo, k)
    <3> HIDE DEF Turn
    <3>1. QED
      BY <1>8
  <2>2. \A k \in 1..n : k \in 0..n /\ k # 0
    OBVIOUS
  <2>3. 0 \in 0..n
    OBVIOUS
  <2>4. QED
    BY <2>1, <2>2, <2>3
<1> DEFINE W == {k \in 0..n : upTo[k] # f[k]}
<1>12. W = {}
  <2> SUFFICES ASSUME W # {} PROVE FALSE
    OBVIOUS
  <2>1. PICK k \in W : \A j \in W : k <= j
    <3>1. W \in SUBSET Nat
      OBVIOUS
    <3> HIDE DEF W
    <3>2. QED
      BY <3>1, SmallestInt
  <2>2. k # 0
    BY <1>6, <1>10
  <2>3. k \in 1..n /\ k - 1 \in 0..n /\ k - 1 \notin W
    BY <2>1, <2>2
  <2>4. upTo[k - 1] = f[k - 1]
    BY <2>3
  <2>5. upTo[k] = f[k]
    BY <1>5, <1>10, <2>3, <2>4
  <2>6. QED
    BY <2>5
<1>13. upTo = f
  <2>1. \A k \in 0..n : upTo[k] = f[k]
    BY <1>12
  <2>2. upTo = [k \in 0..n |-> upTo[k]]
    <3> HIDE DEF Turn
    <3>1. QED
      BY <1>8
  <2>3. QED
    BY <1>6, <2>1, <2>2
<1>14. QED
  BY <1>5, <1>6, <1>9, <1>13 DEF Tells

LEMMA TellsAlike ==
  ASSUME NEW m \in Nat, NEW n \in Nat, NEW S, NEW T, NEW f, NEW h,
         Tells(f, m, S), Tells(h, n, T), m <= n,
         \A k \in 1..m : k \in S <=> k \in T
  PROVE  \A k \in 0..m : f[k] = h[k]
<1> DEFINE W == {k \in 0..m : f[k] # h[k]}
<1>1. SUFFICES ASSUME W # {} PROVE FALSE
  OBVIOUS
<1>2. PICK k \in W : \A j \in W : k <= j
  <2>1. W \in SUBSET Nat
    OBVIOUS
  <2> HIDE DEF W
  <2>2. QED
    BY <1>1, <2>1, SmallestInt
<1>3. k # 0
  BY DEF Tells
<1>4. k \in 1..m /\ k \in 1..n /\ k - 1 \in 0..m /\ k - 1 \notin W
  BY <1>2, <1>3
<1>5. f[k - 1] = h[k - 1]
  BY <1>4
<1>6. f[k] = h[k]
  BY <1>4, <1>5 DEF Tells
<1>7. QED
  BY <1>6

LEMMA AscendingZero ==
  ASSUME NEW S
  PROVE  Ascending(0, S) = <<>>
<1>1. QED
  BY AscendingTells DEF Tells

LEMMA AscendingType ==
  ASSUME NEW n \in Nat, NEW S
  PROVE  Ascending(n, S) \in Seq(Nat)
<1>1. n \in 0..n
  OBVIOUS
<1>2. QED
  <2>1. PICK f : Tells(f, n, S) /\ Ascending(n, S) = f[n]
    BY AscendingTells
  <2>2. QED
    BY <1>1, <2>1 DEF Tells

LEMMA AscendingNext ==
  ASSUME NEW n \in Nat, NEW S
  PROVE  Ascending(n + 1, S) = IF n + 1 \in S THEN Append(Ascending(n, S), n + 1)
                               ELSE Ascending(n, S)
<1>1. n + 1 \in Nat /\ n + 1 \in 1..(n + 1) /\ (n + 1) - 1 = n /\ n <= n + 1
      /\ n \in 0..n
  OBVIOUS
<1>2. PICK f : Tells(f, n, S) /\ Ascending(n, S) = f[n]
  BY AscendingTells
<1>3. PICK h : Tells(h, n + 1, S) /\ Ascending(n + 1, S) = h[n + 1]
  BY <1>1, AscendingTells
<1>4. f[n] = h[n]
  BY <1>1, <1>2, <1>3, TellsAlike
<1>5. h[n + 1] = IF n + 1 \in S THEN Append(h[n], n + 1) ELSE h[n]
  <2>1. \A k \in 1..(n + 1) : h[k] = IF k \in S THEN Append(h[k - 1], k) ELSE h[k - 1]
    BY <1>3 DEF Tells
  <2>2. QED
    BY <1>1, <2>1
<1>6. QED
  BY <1>2, <1>3, <1>4, <1>5

LEMMA AscendingSame ==
  ASSUME NEW n \in Nat, NEW S, NEW T, \A k \in 1..n : k \in S <=> k \in T
  PROVE  Ascending(n, S) = Ascending(n, T)
<1>1. PICK f : Tells(f, n, S) /\ Ascending(n, S) = f[n]
  BY AscendingTells
<1>2. PICK h : Tells(h, n, T) /\ Ascending(n, T) = h[n]
  BY AscendingTells
<1>3. n \in 0..n /\ n <= n
  OBVIOUS
<1>4. QED
  BY <1>1, <1>2, <1>3, TellsAlike

LEMMA AscendingBeyond ==
  ASSUME NEW i \in Nat, NEW n \in Nat, i <= n, NEW S, \A k \in (i + 1)..n : k \notin S
  PROVE  Ascending(n, S) = Ascending(i, S)
<1> DEFINE W == {k \in i..n : Ascending(k, S) # Ascending(i, S)}
<1>1. SUFFICES ASSUME W # {} PROVE FALSE
  OBVIOUS
<1>2. PICK k \in W : \A j \in W : k <= j
  <2>1. W \in SUBSET Nat
    OBVIOUS
  <2> HIDE DEF W
  <2>2. QED
    BY <1>1, <2>1, SmallestInt
<1>3. k # i
  OBVIOUS
<1> DEFINE m == k - 1
<1>4. m \in Nat /\ m + 1 = k /\ k \in (i + 1)..n /\ m \in i..n /\ m \notin W
  BY <1>2, <1>3
<1>5. Ascending(m, S) = Ascending(i, S)
  BY <1>4
<1> HIDE DEF m
<1>6. Ascending(m + 1, S) = Ascending(m, S)
  BY <1>4, AscendingNext
<1>7. QED
  BY <1>4, <1>5, <1>6

\* It lists nothing but the elements of S.
LEMMA AscendingElements ==
  ASSUME NEW n \in Nat, NEW S
  PROVE  Ascending(n, S) \in Seq(S \cap (1..n))
<1> DEFINE W == {k \in 0..n : Ascending(k, S) \notin Seq(S \cap (1..n))}
<1>1. SUFFICES ASSUME W # {} PROVE FALSE
  BY DEF W
<1>2. PICK k \in W : \A j \in W : k <= j
  <2>1. W \in SUBSET Nat
    OBVIOUS
  <2> HIDE DEF W
  <2>2. QED
    BY <1>1, <2>1, SmallestInt
<1>3. k # 0
  <2>1. Ascending(0, S) \in Seq(S \cap (1..n))
    BY AscendingZero, EmptySeq
  <2>2. QED
    BY <2>1
<1> DEFINE m == k - 1
<1>4. m \in Nat /\ m + 1 = k /\ k \in 1..n /\ m \in 0..n /\ m \notin W
  BY <1>2, <1>3
<1>5. Ascending(m, S) \in Seq(S \cap (1..n))
  BY <1>4
<1> HIDE DEF m
<1>6. Ascending(m + 1, S) \in Seq(S \cap (1..n))
  <2>1. CASE m + 1 \in S
    <3>1. Ascending(m + 1, S) = Append(Ascending(m, S), m + 1)
      BY <1>4, <2>1, AscendingNext
    <3>2. m + 1 \in S \cap (1..n)
      BY <1>4, <2>1
    <3>3. QED
      BY <1>5, <3>1, <3>2, AppendProperties
  <2>2. CASE m + 1 \notin S
    <3>1. Ascending(m + 1, S) = Ascending(m, S)
      BY <1>4, <2>2, AscendingNext
    <3>2. QED
      BY <1>5, <3>1
  <2>3. QED
    BY <2>1, <2>2
<1>7. QED
  BY <1>4, <1>6

\* It is empty only if there are none.
LEMMA AscendingNonempty ==
  ASSUME NEW n \in Nat, NEW S, NEW e \in S \cap (1..n)
  PROVE  Ascending(n, S) # <<>>
<1> DEFINE W == {k \in e..n : Ascending(k, S) = <<>>}
<1>1. SUFFICES ASSUME W # {} PROVE FALSE
  OBVIOUS
<1>2. PICK k \in W : \A j \in W : k <= j
  <2>1. W \in SUBSET Nat
    OBVIOUS
  <2> HIDE DEF W
  <2>2. QED
    BY <1>1, <2>1, SmallestInt
<1> DEFINE m == k - 1
<1>3. m \in Nat /\ m + 1 = k /\ k \in e..n
  BY <1>2
<1>4. Ascending(m + 1, S) = <<>>
  BY <1>3
<1>5. m + 1 \notin S
  <2> SUFFICES ASSUME m + 1 \in S PROVE FALSE
    OBVIOUS
  <2> HIDE DEF m
  <2>1. Ascending(m + 1, S) = Append(Ascending(m, S), m + 1)
    BY <1>3, AscendingNext
  <2>2. Ascending(m, S) \in Seq(Nat)
    BY <1>3, AscendingType
  <2> DEFINE t == Ascending(m, S)
  <2> HIDE DEF t
  <2>3. t \in Seq(Nat) /\ Append(t, m + 1) = <<>>
    BY <1>4, <2>1, <2>2 DEF t
  <2>4. Len(Append(t, m + 1)) = Len(t) + 1 /\ Len(t) \in Nat /\ Len(<<>>) = 0
    BY <1>3, <2>3, AppendProperties
  <2>5. QED
    BY <2>3, <2>4
<1>6. k # e
  BY <1>3, <1>5
<1>7. m \in e..n /\ m \notin W
  BY <1>2, <1>3, <1>6
<1>8. Ascending(m, S) # <<>>
  BY <1>7
<1> HIDE DEF m
<1>9. Ascending(m + 1, S) = Ascending(m, S)
  BY <1>3, <1>5, AscendingNext
<1>10. QED
  BY <1>4, <1>8, <1>9

-------------------------------------------------------------------------------
(* The string, character by character.                                     *)

Wheres == {"out", "in", "esc"}

LEMMA LexedFacts ==
  ASSUME NEW s \in Seq(Char)
  PROVE  /\ Lexed(s) \in [0..Len(s) -> Wheres]
         /\ Lexed(s)[0] = "out"
         /\ \A k \in 1..Len(s) : Lexed(s)[k] = LexStep(Lexed(s)[k - 1], s[k])
<1> DEFINE n == Len(s)
           g == [p \in (1..n) \X Wheres |-> LexStep(p[2], s[p[1]])]
           Turn(f, k) == IF k = 0 THEN "out" ELSE LexStep(f[k - 1], s[k])
           Def(f) == f = [k \in 0..n |-> Turn(f, k)]
           at == CHOOSE f : Def(f)
<1>1. n \in Nat /\ "out" \in Wheres
  BY DEF Wheres
<1>2. \A w \in Wheres : \A c : LexStep(w, c) \in Wheres
  BY DEF Wheres, LexStep
<1>3. /\ g \in [(1..n) \X Wheres -> Wheres]
      /\ \A k \in 1..n, w \in Wheres : g[<<k, w>>] = LexStep(w, s[k])
  BY <1>2
<1> HIDE DEF n, g
<1>4. PICK f : IsLoop(f, n, Wheres, "out", g)
  BY <1>1, <1>3, RecursionUpTo
<1>5. f \in [0..n -> Wheres] /\ f[0] = "out"
  BY <1>4 DEF IsLoop
<1>6. Def(f)
  <2>1. ASSUME NEW k \in 0..n PROVE f[k] = Turn(f, k)
    <3>1. k = 0 \/ (k \in 1..n /\ k # 0 /\ k - 1 \in 0..n)
      BY <1>1
    <3>2. k \in 1..n => f[k] = g[<<k, f[k - 1]>>]
      BY <1>4 DEF IsLoop
    <3>3. QED
      BY <1>3, <1>5, <3>1, <3>2
  <2> HIDE DEF Turn
  <2>2. QED
    BY <1>5, <2>1
<1>7. Def(at)
  <2>1. \E h : Def(h)
    BY <1>6
  <2> HIDE DEF Def
  <2>2. QED
    BY <2>1
<1>8. Lexed(s) = at
  BY DEF Lexed, n
<1> HIDE DEF at
<1>9. at = [k \in 0..n |-> at[k]] /\ \A k \in 0..n : at[k] = Turn(at, k)
  <2> HIDE DEF Turn
  <2>1. QED
    BY <1>7
<1>10. at[0] = "out" /\ \A k \in 1..n : at[k] = LexStep(at[k - 1], s[k])
  <2>1. 0 \in 0..n /\ \A k \in 1..n : k \in 0..n /\ k # 0
    BY <1>1
  <2>2. QED
    BY <1>9, <2>1
<1> DEFINE W == {k \in 0..n : at[k] \notin Wheres}
<1>11. W = {}
  <2> SUFFICES ASSUME W # {} PROVE FALSE
    OBVIOUS
  <2>1. PICK k \in W : \A j \in W : k <= j
    <3>1. W \in SUBSET Nat
      OBVIOUS
    <3> HIDE DEF W
    <3>2. QED
      BY <3>1, SmallestInt
  <2>2. k # 0
    BY <1>1, <1>10
  <2>3. k \in 1..n /\ k - 1 \in 0..n /\ k - 1 \notin W
    BY <1>1, <2>1, <2>2
  <2>4. at[k - 1] \in Wheres
    BY <2>3
  <2>5. at[k] \in Wheres
    BY <1>2, <1>10, <2>3, <2>4
  <2>6. QED
    BY <2>5
<1>12. QED
  BY <1>8, <1>9, <1>10, <1>11 DEF n

\* What a character is, given where the text before it leaves off.
KeptThere(where, c) ==
  \/ where = "out" /\ c \notin {"space", ";"}
  \/ where = "in" /\ c # "escape"
  \/ where = "esc"
EndsThere(where, c) == where = "out" /\ c = ";"

LEMMA KeptFacts ==
  ASSUME NEW s \in Seq(Char), NEW i \in Nat, i < Len(s)
  PROVE  /\ i + 1 \in Kept(s) <=> KeptThere(Lexed(s)[i], s[i + 1])
         /\ i + 1 \in Ends(s) <=> EndsThere(Lexed(s)[i], s[i + 1])
         /\ i + 1 \in Outside(s) <=> Lexed(s)[i] = "out"
         /\ Kept(s) \subseteq 1..Len(s)
         /\ Ends(s) \subseteq 1..Len(s)
<1>1. i + 1 \in 1..Len(s) /\ (i + 1) - 1 = i /\ Lexed(s)[i] \in Wheres
  BY LexedFacts
<1> DEFINE w == Lexed(s)[i]
           c == s[i + 1]
<1>2. i + 1 \in Kept(s) <=> CASE w = "out" -> c \notin {"space", ";"}
                              [] w = "in"  -> c # "escape"
                              [] w = "esc" -> TRUE
  BY <1>1 DEF Kept
<1>3. i + 1 \in Ends(s) <=> w = "out" /\ c = ";"
  BY <1>1 DEF Ends, Outside
<1>0. i + 1 \in Outside(s) <=> w = "out"
  BY <1>1 DEF Outside
<1>4. Kept(s) \subseteq 1..Len(s) /\ Ends(s) \subseteq 1..Len(s)
  BY DEF Kept, Ends, Outside
<1>5. w \in Wheres
  BY <1>1
<1> HIDE DEF w, c
<1>6. i + 1 \in Kept(s) <=> KeptThere(w, c)
  BY <1>2, <1>5 DEF KeptThere, Wheres
<1>7. QED
  BY <1>0, <1>3, <1>4, <1>6 DEF EndsThere, w, c

\* What of the first i characters belongs to the call that is not ended yet.
Open(s, i) ==
  {j \in Kept(s) : j <= i /\ \A f \in Ends(s) : f <= i => f < j}

\* The ends that end something.
Filled(s) == {e \in Ends(s) : Body(s, e) # {}}

OpenCall(s, i) == Ascending(i, Open(s, i))

\* The calls that end within the first i characters.
CallsBy(s, i) ==
  LET ends == Ascending(i, Filled(s))
  IN  [k \in DOMAIN ends |-> Ascending(Len(s), Body(s, ends[k]))]

LEMMA TextOfType ==
  ASSUME NEW s \in Seq(Char), NEW call \in Seq(1..Len(s))
  PROVE  /\ TextOf(s, call) \in Seq(Char)
         /\ Len(TextOf(s, call)) = Len(call)
         /\ \A k \in 1..Len(call) : TextOf(s, call)[k] = s[call[k]]
<1>1. DOMAIN call = 1..Len(call) /\ Len(call) \in Nat
  OBVIOUS
<1>2. \A k \in 1..Len(call) : call[k] \in 1..Len(s) /\ s[call[k]] \in Char
  OBVIOUS
<1>3. TextOf(s, call) = [k \in 1..Len(call) |-> s[call[k]]]
  BY <1>1 DEF TextOf
<1>4. QED
  BY <1>1, <1>2, <1>3

LEMMA TextOfAppend ==
  ASSUME NEW s \in Seq(Char), NEW call \in Seq(1..Len(s)), NEW k \in 1..Len(s)
  PROVE  TextOf(s, Append(call, k)) = Append(TextOf(s, call), s[k])
<1> DEFINE t == TextOf(s, call)
           u == TextOf(s, Append(call, k))
           L == Len(call)
<1>1. /\ Append(call, k) \in Seq(1..Len(s))
      /\ Len(Append(call, k)) = L + 1
      /\ \A j \in 1..L : Append(call, k)[j] = call[j]
      /\ Append(call, k)[L + 1] = k
      /\ L \in Nat
  BY AppendProperties, LenProperties
<1>2. t \in Seq(Char) /\ Len(t) = L /\ \A j \in 1..L : t[j] = s[call[j]]
  BY TextOfType
<1>3. u \in Seq(Char) /\ Len(u) = L + 1 /\ \A j \in 1..(L + 1) : u[j] = s[Append(call, k)[j]]
  BY <1>1, TextOfType
<1>4. s[k] \in Char
  OBVIOUS
<1> HIDE DEF t, u
<1>5. /\ Append(t, s[k]) \in Seq(Char)
      /\ Len(Append(t, s[k])) = L + 1
      /\ \A j \in 1..L : Append(t, s[k])[j] = t[j]
      /\ Append(t, s[k])[L + 1] = s[k]
  BY <1>2, <1>4, AppendProperties
<1> HIDE DEF L
<1>6. ASSUME NEW j \in 1..(L + 1) PROVE u[j] = Append(t, s[k])[j]
  <2>1. j \in 1..L \/ j = L + 1
    BY <1>1
  <2>2. j \in 1..(L + 1)
    OBVIOUS
  <2>3. QED
    BY <1>1, <1>2, <1>3, <1>5, <2>1
<1>7. QED
  BY <1>3, <1>5, <1>6, SeqEqual DEF t, u

LEMMA OpenFacts ==
  ASSUME NEW s \in Seq(Char), NEW i \in Nat, i < Len(s)
  PROVE  /\ Open(s, i) \subseteq 1..i
         /\ i + 1 \notin Ends(s) =>
              Open(s, i + 1) = Open(s, i) \cup {j \in {i + 1} : j \in Kept(s)}
         /\ i + 1 \in Ends(s) => /\ Open(s, i + 1) = {}
                                 /\ Body(s, i + 1) = Open(s, i)
<1>1. Kept(s) \subseteq 1..Len(s) /\ Ends(s) \subseteq 1..Len(s) /\ Len(s) \in Nat
  BY KeptFacts
<1>2. Open(s, i) \subseteq 1..i
  BY <1>1 DEF Open
<1>3. ASSUME i + 1 \notin Ends(s)
      PROVE  Open(s, i + 1) = Open(s, i) \cup {j \in {i + 1} : j \in Kept(s)}
  <2>1. \A f \in Ends(s) : f <= i + 1 <=> f <= i
    BY <1>1, <1>3
  <2>2. \A j \in Kept(s) : j <= i + 1 <=> (j <= i \/ j = i + 1)
    BY <1>1
  <2>3. \A f \in Ends(s) : f <= i => f < i + 1
    BY <1>1
  <2>4. QED
    BY <2>1, <2>2, <2>3 DEF Open
<1>4. ASSUME i + 1 \in Ends(s)
      PROVE  Open(s, i + 1) = {} /\ Body(s, i + 1) = Open(s, i)
  <2>1. Open(s, i + 1) = {}
    BY <1>1, <1>4 DEF Open
  <2>2. \A j \in 1..Len(s) : j < i + 1 <=> j <= i
    BY <1>1
  <2>3. Body(s, i + 1) = Open(s, i)
    BY <1>1, <2>2 DEF Open, Body
  <2>4. QED
    BY <2>1, <2>3
<1>5. QED
  BY <1>2, <1>3, <1>4

LEMMA OpenCallType ==
  ASSUME NEW s \in Seq(Char), NEW i \in Nat, i <= Len(s)
  PROVE  OpenCall(s, i) \in Seq(1..Len(s))
<1>1. OpenCall(s, i) \in Seq(Open(s, i) \cap (1..i)) /\ Len(s) \in Nat
  BY AscendingElements DEF OpenCall
<1>2. Open(s, i) \cap (1..i) \subseteq 1..Len(s)
  BY <1>1
<1>3. QED
  BY <1>1, <1>2, SeqMonotonic

LEMMA CallsByType ==
  ASSUME NEW s \in Seq(Char), NEW i \in Nat
  PROVE  CallsBy(s, i) \in Seq(Seq(1..Len(s)))
<1> DEFINE E == Ascending(i, Filled(s))
           n == Len(s)
           F(e) == Ascending(n, Body(s, e))
<1>1. ASSUME NEW e PROVE F(e) \in Seq(1..n)
  <2>1. n \in Nat
    OBVIOUS
  <2>2. F(e) \in Seq(Body(s, e) \cap (1..n))
    BY <2>1, AscendingElements
  <2> HIDE DEF F, n
  <2>3. QED
    BY <2>2, SeqMonotonic
<1>2. E \in Seq(Nat)
  BY AscendingType
<1>3. CallsBy(s, i) = [k \in DOMAIN E |-> F(E[k])]
  BY DEF CallsBy
<1> HIDE DEF E, F, n
<1>4. DOMAIN E = 1..Len(E) /\ Len(E) \in Nat
  BY <1>2
<1>5. [k \in DOMAIN E |-> F(E[k])] \in Seq(Seq(1..n))
  BY <1>1, <1>4
<1>6. QED
  BY <1>3, <1>5 DEF n

\* One more character that ends nothing.
LEMMA OpenCallNext ==
  ASSUME NEW s \in Seq(Char), NEW i \in Nat, i < Len(s), i + 1 \notin Ends(s)
  PROVE  /\ OpenCall(s, i + 1) = IF i + 1 \in Kept(s)
                                 THEN Append(OpenCall(s, i), i + 1)
                                 ELSE OpenCall(s, i)
         /\ CallsBy(s, i + 1) = CallsBy(s, i)
<1> DEFINE A == Ascending(i, Open(s, i))
           B == Ascending(i, Open(s, i + 1))
<1>1. Open(s, i + 1) = Open(s, i) \cup {j \in {i + 1} : j \in Kept(s)}
  BY OpenFacts
<1>2. \A k \in 1..i : k \in Open(s, i) <=> k \in Open(s, i + 1)
  BY <1>1
<1>3. A = B
  BY <1>2, AscendingSame
<1>4. Ascending(i + 1, Open(s, i + 1))
        = IF i + 1 \in Open(s, i + 1) THEN Append(B, i + 1) ELSE B
  BY AscendingNext
<1>5. i + 1 \in Open(s, i + 1) <=> i + 1 \in Kept(s)
  <2>1. i + 1 \notin Open(s, i)
    BY OpenFacts
  <2>2. QED
    BY <1>1, <2>1
<1>6. i + 1 \notin Filled(s)
  BY DEF Filled
<1>7. Ascending(i + 1, Filled(s)) = Ascending(i, Filled(s))
  BY <1>6, AscendingNext
<1>8. CallsBy(s, i + 1) = CallsBy(s, i)
  BY <1>7 DEF CallsBy
<1>9. QED
  BY <1>3, <1>4, <1>5, <1>8 DEF OpenCall

\* An end of a call.
LEMMA OpenCallEnds ==
  ASSUME NEW s \in Seq(Char), NEW i \in Nat, i < Len(s), i + 1 \in Ends(s)
  PROVE  /\ OpenCall(s, i + 1) = <<>>
         /\ CallsBy(s, i + 1) = IF OpenCall(s, i) = <<>> THEN CallsBy(s, i)
                                ELSE Append(CallsBy(s, i), OpenCall(s, i))
<1> DEFINE A == Ascending(i, Open(s, i))
           n == Len(s)
           E == Ascending(i, Filled(s))
           F(e) == Ascending(n, Body(s, e))
<1>0. n \in Nat /\ i + 1 \in 1..n /\ i <= n
  OBVIOUS
<1>1. Open(s, i + 1) = {} /\ Body(s, i + 1) = Open(s, i) /\ Open(s, i) \subseteq 1..i
  BY OpenFacts
<1>2. \A t \in Seq({}) : t = <<>>
  <2>1. TAKE t \in Seq({})
  <2>2. t = <<>> \/ Len(t) \in Nat \ {0}
    BY EmptySeq
  <2>3. Len(t) \in Nat \ {0} => t[1] \in {}
    BY ElementOfSeq
  <2>4. QED
    BY <2>2, <2>3
<1>3. OpenCall(s, i + 1) = <<>>
  <2>1. Ascending(i + 1, {}) \in Seq({} \cap (1..(i + 1)))
    BY AscendingElements
  <2>2. {} \cap (1..(i + 1)) = {}
    OBVIOUS
  <2>3. QED
    BY <1>1, <1>2, <2>1, <2>2 DEF OpenCall
<1>4. A = <<>> <=> Open(s, i) = {}
  <2>1. CASE Open(s, i) = {}
    <3>1. A \in Seq({} \cap (1..i)) /\ {} \cap (1..i) = {}
      BY <2>1, AscendingElements
    <3> HIDE DEF A
    <3>2. QED
      BY <1>2, <2>1, <3>1
  <2>2. CASE Open(s, i) # {}
    BY <1>1, <2>2, AscendingNonempty
  <2>3. QED
    BY <2>1, <2>2
<1>5. i + 1 \in Filled(s) <=> A # <<>>
  BY <1>1, <1>4 DEF Filled
<1>6. Ascending(i + 1, Filled(s)) = IF i + 1 \in Filled(s) THEN Append(E, i + 1) ELSE E
  BY AscendingNext
<1>7. F(i + 1) = A
  <2>1. \A k \in (i + 1)..n : k \notin Open(s, i)
    BY <1>1
  <2>2. Ascending(n, Open(s, i)) = A
    BY <1>0, <2>1, AscendingBeyond
  <2>3. QED
    BY <1>1, <2>2
<1>8. E \in Seq(Nat)
  BY AscendingType
<1>9. /\ CallsBy(s, i) = [k \in DOMAIN E |-> F(E[k])]
      /\ CallsBy(s, i + 1) = [k \in DOMAIN Ascending(i + 1, Filled(s)) |->
                                F(Ascending(i + 1, Filled(s))[k])]
  BY DEF CallsBy
<1>10. OpenCall(s, i) = A
  BY DEF OpenCall
<1> HIDE DEF E, F, A, n
<1>11. [k \in DOMAIN Append(E, i + 1) |-> F(Append(E, i + 1)[k])]
         = Append([k \in DOMAIN E |-> F(E[k])], F(i + 1))
  <2> DEFINE m == Len(E)
             old == [k \in 1..m |-> F(E[k])]
  <2>1. /\ m \in Nat /\ DOMAIN E = 1..m
        /\ DOMAIN Append(E, i + 1) = 1..(m + 1)
        /\ \A k \in 1..m : Append(E, i + 1)[k] = E[k]
        /\ Append(E, i + 1)[m + 1] = i + 1
    BY <1>8, AppendProperties, LenProperties
  <2>2. old \in Seq({F(E[k]) : k \in 1..m} \cup {F(i + 1)}) /\ Len(old) = m
    BY <2>1
  <2>3. Append(old, F(i + 1)) = [k \in 1..(m + 1) |-> IF k = m + 1 THEN F(i + 1) ELSE old[k]]
    BY <2>2, <2>1
  <2> HIDE DEF m
  <2>4. ASSUME NEW k \in 1..(m + 1)
        PROVE  F(Append(E, i + 1)[k]) = IF k = m + 1 THEN F(i + 1) ELSE old[k]
    <3>1. k = m + 1 \/ (k # m + 1 /\ k \in 1..m)
      BY <2>1
    <3>2. QED
      BY <2>1, <3>1
  <2> HIDE DEF old
  <2>5. QED
    BY <2>1, <2>3, <2>4 DEF old
<1>12. QED
  BY <1>3, <1>5, <1>6, <1>7, <1>9, <1>10, <1>11

\* The texts of calls.
Texts(s, calls) == [k \in DOMAIN calls |-> TextOf(s, calls[k])]

LEMMA TextsAppend ==
  ASSUME NEW s \in Seq(Char), NEW calls \in Seq(Seq(1..Len(s))),
         NEW call \in Seq(1..Len(s))
  PROVE  Texts(s, Append(calls, call)) = Append(Texts(s, calls), TextOf(s, call))
<1> DEFINE m == Len(calls)
           old == Texts(s, calls)
           new == Append(calls, call)
<1>1. /\ m \in Nat /\ DOMAIN calls = 1..m
      /\ DOMAIN new = 1..(m + 1)
      /\ \A k \in 1..m : new[k] = calls[k]
      /\ new[m + 1] = call
  BY AppendProperties, LenProperties
<1> HIDE DEF m, new
<1>2. old = [k \in 1..m |-> TextOf(s, calls[k])]
  BY <1>1 DEF Texts
<1> HIDE DEF old
<1> DEFINE t == TextOf(s, call)
<1>3. old \in Seq(Seq(Char)) /\ Len(old) = m /\ t \in Seq(Char)
  <2>1. \A k \in 1..m : TextOf(s, calls[k]) \in Seq(Char)
    BY <1>1, TextOfType
  <2>2. t \in Seq(Char)
    BY TextOfType
  <2> HIDE DEF t
  <2>3. QED
    BY <1>1, <1>2, <2>1, <2>2
<1> HIDE DEF t
<1>4. /\ Append(old, t) \in Seq(Seq(Char))
      /\ Len(Append(old, t)) = m + 1
      /\ \A k \in 1..m : Append(old, t)[k] = old[k]
      /\ Append(old, t)[m + 1] = t
  <2>1. Seq(Char) = Seq(Char) /\ old \in Seq(Seq(Char)) /\ t \in Seq(Char)
    BY <1>3
  <2>2. QED
    BY <1>3, <2>1, AppendProperties
<1>5. Texts(s, new) = [k \in 1..(m + 1) |-> TextOf(s, new[k])]
  BY <1>1 DEF Texts
<1>6. ASSUME NEW k \in 1..(m + 1)
      PROVE  /\ Texts(s, new)[k] = Append(old, t)[k]
             /\ TextOf(s, new[k]) \in Seq(Char)
  <2>1. k = m + 1 \/ (k # m + 1 /\ k \in 1..m)
    BY <1>1
  <2>2. old \in [1..m -> Seq(Char)]
    BY <1>3, LenProperties
  <2>3. CASE k = m + 1
    BY <1>1, <1>3, <1>4, <1>5, <2>3 DEF t
  <2>4. CASE k \in 1..m
    BY <1>1, <1>2, <1>4, <1>5, <2>2, <2>4
  <2>5. QED
    BY <2>1, <2>3, <2>4
<1>7. Texts(s, new) \in Seq(Seq(Char)) /\ Len(Texts(s, new)) = m + 1
  <2> DEFINE C == Seq(Char)
             T(k) == TextOf(s, new[k])
  <2>1. \A k \in 1..(m + 1) : T(k) \in C
    BY <1>6
  <2>2. Texts(s, new) = [k \in 1..(m + 1) |-> T(k)]
    BY <1>5
  <2> HIDE DEF C, T
  <2>3. [k \in 1..(m + 1) |-> T(k)] \in Seq(C) /\ Len([k \in 1..(m + 1) |-> T(k)]) = m + 1
    BY <1>1, <2>1
  <2>4. QED
    BY <2>2, <2>3 DEF C
<1>8. Texts(s, new) = Append(old, t)
  BY <1>4, <1>6, <1>7, SeqEqual
<1>9. QED
  BY <1>8 DEF old, new, t

-------------------------------------------------------------------------------
(* A call, character by character: its parenthesis, its commas and the texts *)
(* between them.                                                             *)

\* The character of s at p is c and not part of a string.
Stands(s, p, c) == p \in Outside(s) /\ s[p] = c
Marked(s, p)    == \E c \in {"(", ",", ")"} : Stands(s, p, c)

\* The beginning of a well-formed call, up to some place behind the "(".
Inside(s, call) ==
  \E o \in DOMAIN call :
    /\ Places(s, call, "(") = {o}
    /\ Places(s, call, ")") = {}
    /\ \A k \in Places(s, call, ",") : o < k

\* What follows the last "(" or ",".
LastText(s, call) ==
  LET cuts == Ascending(Len(call), Cuts(s, call))
  IN  SubSeq(TextOf(s, call), cuts[Len(cuts)] + 1, Len(call))

PlacesGrow(s, call, p, c) ==
  /\ Places(s, call, c) \subseteq 1..Len(call)
  /\ Places(s, Append(call, p), c)
       = Places(s, call, c) \cup {k \in {Len(call) + 1} : Stands(s, p, c)}

LEMMA PlacesAppend ==
  ASSUME NEW s, NEW n \in Nat, NEW call \in Seq(1..n), NEW p \in 1..n, NEW c
  PROVE  PlacesGrow(s, call, p, c)
<1> DEFINE L == Len(call)
           new == Append(call, p)
<1>1. /\ L \in Nat /\ DOMAIN call = 1..L
      /\ DOMAIN new = 1..(L + 1)
      /\ \A k \in 1..L : new[k] = call[k]
      /\ new[L + 1] = p
  BY AppendProperties, LenProperties
<1> HIDE DEF L, new
<1>2. Places(s, call, c) = {k \in 1..L : Stands(s, call[k], c)}
  BY <1>1 DEF Places, Stands
<1>3. Places(s, new, c) = {k \in 1..(L + 1) : Stands(s, new[k], c)}
  BY <1>1 DEF Places, Stands
<1>4. 1..(L + 1) = (1..L) \cup {L + 1}
  BY <1>1
<1>5. Places(s, new, c) = Places(s, call, c) \cup {k \in {L + 1} : Stands(s, p, c)}
  BY <1>1, <1>2, <1>3, <1>4
<1>6. QED
  BY <1>2, <1>5 DEF L, new, PlacesGrow

LEMMA CutsAppend ==
  ASSUME NEW s, NEW n \in Nat, NEW call \in Seq(1..n), NEW p \in 1..n
  PROVE  /\ Cuts(s, call) \subseteq 1..Len(call)
         /\ Cuts(s, Append(call, p))
              = Cuts(s, call) \cup {k \in {Len(call) + 1} : Marked(s, p)}
<1> DEFINE L == Len(call)
           new == Append(call, p)
           P(c) == Places(s, call, c)
           Q(c) == Places(s, new, c)
<1>1. ASSUME NEW c
      PROVE  P(c) \subseteq 1..L /\ Q(c) = P(c) \cup {k \in {L + 1} : Stands(s, p, c)}
  <2>1. PlacesGrow(s, call, p, c)
    BY PlacesAppend
  <2>2. QED
    BY <2>1 DEF PlacesGrow
<1>2. /\ Cuts(s, call) = P("(") \cup P(",") \cup P(")")
      /\ Cuts(s, new) = Q("(") \cup Q(",") \cup Q(")")
  BY DEF Cuts
<1>3. Marked(s, p) <=> Stands(s, p, "(") \/ Stands(s, p, ",") \/ Stands(s, p, ")")
  BY DEF Marked
<1> HIDE DEF P, Q, L, new
<1>4. Cuts(s, call) \subseteq 1..L
  BY <1>1, <1>2
<1>5. Cuts(s, new) = Cuts(s, call) \cup {k \in {L + 1} : Marked(s, p)}
  BY <1>1, <1>2, <1>3
<1>6. QED
  BY <1>4, <1>5 DEF L, new

\* The call has no parenthesis and no comma.
Bare(s, call) ==
  Places(s, call, "(") \cup Places(s, call, ")") \cup Places(s, call, ",") = {}

LEMMA BareFacts ==
  ASSUME NEW s, NEW call
  PROVE  /\ Bare(s, call) <=> Cuts(s, call) = {}
         /\ Inside(s, call) => Cuts(s, call) # {}
         /\ WellFormed(s, call) => Cuts(s, call) # {}
<1>1. Cuts(s, call) = Places(s, call, "(") \cup Places(s, call, ",")
                        \cup Places(s, call, ")")
  BY DEF Cuts
<1>2. QED
  BY <1>1 DEF Bare, Inside, WellFormed

\* What a call was before its last character.
LEMMA BareBefore ==
  ASSUME NEW s, NEW n \in Nat, NEW call \in Seq(1..n), NEW p \in 1..n,
         Bare(s, Append(call, p))
  PROVE  Bare(s, call) /\ ~Marked(s, p)
<1>1. Cuts(s, Append(call, p)) = {}
  BY BareFacts
<1>2. Cuts(s, Append(call, p))
        = Cuts(s, call) \cup {k \in {Len(call) + 1} : Marked(s, p)}
  BY CutsAppend
<1>3. Cuts(s, call) = {} /\ ~Marked(s, p)
  BY <1>1, <1>2
<1>4. QED
  BY <1>3, BareFacts

LEMMA InsideBefore ==
  ASSUME NEW s, NEW n \in Nat, NEW call \in Seq(1..n), NEW p \in 1..n,
         Inside(s, Append(call, p))
  PROVE  /\ ~Stands(s, p, ")")
         /\ \/ /\ Inside(s, call) /\ ~Stands(s, p, "(")
               /\ Places(s, Append(call, p), "(") = Places(s, call, "(")
            \/ /\ Bare(s, call) /\ Stands(s, p, "(")
               /\ Places(s, Append(call, p), "(") = {Len(call) + 1}
<1> DEFINE L == Len(call)
           new == Append(call, p)
           P(c) == Places(s, call, c)
           Q(c) == Places(s, new, c)
<1>1. L \in Nat /\ DOMAIN call = 1..L /\ DOMAIN new = 1..(L + 1)
  BY AppendProperties, LenProperties
<1>2. ASSUME NEW c
      PROVE  P(c) \subseteq 1..L /\ Q(c) = P(c) \cup {k \in {L + 1} : Stands(s, p, c)}
  <2>1. PlacesGrow(s, call, p, c)
    BY PlacesAppend
  <2>2. QED
    BY <2>1 DEF PlacesGrow
<1>3. PICK o \in 1..(L + 1) : Q("(") = {o} /\ Q(")") = {} /\ \A k \in Q(",") : o < k
  BY <1>1 DEF Inside
<1>4. /\ Inside(s, call) <=> \E i \in 1..L : P("(") = {i} /\ P(")") = {} /\ \A k \in P(",") : i < k
      /\ Bare(s, call) <=> P("(") \cup P(")") \cup P(",") = {}
  BY <1>1 DEF Inside, Bare
<1> HIDE DEF L, new, P, Q
<1>5. P(")") = {} /\ ~Stands(s, p, ")")
  BY <1>2, <1>3
<1>6. CASE Stands(s, p, "(")
  <2>1. o = L + 1 /\ P("(") = {}
    <3>1. P("(") \subseteq 1..L /\ {o} = P("(") \cup {L + 1}
      BY <1>2, <1>3, <1>6
    <3>2. L + 1 \notin 1..L
      BY <1>1
    <3>3. QED
      BY <3>1, <3>2
  <2>2. P(",") = {}
    <3>1. P(",") \subseteq 1..L /\ P(",") \subseteq Q(",")
      BY <1>2
    <3>2. \A k \in 1..L : ~(L + 1 < k)
      BY <1>1
    <3>3. QED
      BY <1>3, <2>1, <3>1, <3>2
  <2>3. Bare(s, call)
    BY <1>4, <1>5, <2>1, <2>2
  <2>4. QED
    BY <1>3, <1>5, <1>6, <2>1, <2>3 DEF L, Q, new
<1>7. CASE ~Stands(s, p, "(")
  <2>1. P("(") = {o} /\ Q("(") = P("(")
    BY <1>2, <1>3, <1>7
  <2>2. o \in 1..L /\ \A k \in P(",") : o < k
    BY <1>2, <1>3, <2>1
  <2>3. Inside(s, call)
    BY <1>4, <1>5, <2>1, <2>2
  <2>4. QED
    BY <1>5, <1>7, <2>1, <2>3 DEF P, Q, new
<1>8. QED
  BY <1>6, <1>7

LEMMA WellFormedBefore ==
  ASSUME NEW s, NEW n \in Nat, NEW call \in Seq(1..n), NEW p \in 1..n,
         WellFormed(s, Append(call, p))
  PROVE  /\ Inside(s, call) /\ Stands(s, p, ")")
         /\ Places(s, Append(call, p), "(") = Places(s, call, "(")
<1> DEFINE L == Len(call)
           new == Append(call, p)
           P(c) == Places(s, call, c)
           Q(c) == Places(s, new, c)
<1>1. L \in Nat /\ DOMAIN call = 1..L /\ DOMAIN new = 1..(L + 1) /\ Len(new) = L + 1
  BY AppendProperties, LenProperties
<1>2. ASSUME NEW c
      PROVE  P(c) \subseteq 1..L /\ Q(c) = P(c) \cup {k \in {L + 1} : Stands(s, p, c)}
  <2>1. PlacesGrow(s, call, p, c)
    BY PlacesAppend
  <2>2. QED
    BY <2>1 DEF PlacesGrow
<1>3. PICK o \in 1..(L + 1) : Q("(") = {o} /\ Q(")") = {L + 1} /\ \A k \in Q(",") : o < k
  BY <1>1 DEF WellFormed
<1>4. Inside(s, call) <=> \E i \in 1..L : P("(") = {i} /\ P(")") = {} /\ \A k \in P(",") : i < k
  BY <1>1 DEF Inside
<1> HIDE DEF L, new, P, Q
<1>5. L + 1 \notin P(")") /\ P(")") \subseteq {L + 1}
  <2>1. P(")") \subseteq 1..L /\ P(")") \subseteq Q(")")
    BY <1>2
  <2>2. L + 1 \notin 1..L
    BY <1>1
  <2>3. QED
    BY <1>3, <2>1, <2>2
<1>6. P(")") = {} /\ Stands(s, p, ")")
  BY <1>2, <1>3, <1>5
<1>7. ~Stands(s, p, "(")
  BY <1>6 DEF Stands
<1>8. P("(") = {o} /\ Q("(") = P("(")
  BY <1>2, <1>3, <1>7
<1>9. o \in 1..L /\ \A k \in P(",") : o < k
  BY <1>2, <1>3, <1>8
<1>10. QED
  BY <1>4, <1>6, <1>8, <1>9 DEF P, Q, new

LEMMA SubSeqBefore ==
  ASSUME NEW S, NEW t \in Seq(S), NEW x \in S, NEW a \in Nat \ {0},
         NEW b \in Int, b <= Len(t)
  PROVE  SubSeq(Append(t, x), a, b) = SubSeq(t, a, b)
<1>1. /\ Append(t, x) \in Seq(S) /\ Len(t) \in Nat
      /\ \A k \in 1..Len(t) : Append(t, x)[k] = t[k]
  BY AppendProperties, LenProperties
<1> DEFINE u == Append(t, x)
<1> HIDE DEF u
<1>2. \A k \in a..b : t[k] \in S /\ u[k] = t[k]
  BY <1>1 DEF u
<1>3. /\ SubSeq(u, a, b) \in Seq(S) /\ SubSeq(t, a, b) \in Seq(S)
      /\ Len(SubSeq(u, a, b)) = Len(SubSeq(t, a, b))
      /\ \A i \in 1..(b - a + 1) : SubSeq(u, a, b)[i] = u[a + i - 1]
      /\ \A i \in 1..(b - a + 1) : SubSeq(t, a, b)[i] = t[a + i - 1]
      /\ Len(SubSeq(t, a, b)) = IF a <= b THEN b - a + 1 ELSE 0
  BY <1>2, SubSeqProperties
<1>4. ASSUME NEW i \in 1..Len(SubSeq(t, a, b))
      PROVE  SubSeq(u, a, b)[i] = SubSeq(t, a, b)[i]
  <2>1. i \in 1..(b - a + 1) /\ a + i - 1 \in a..b
    BY <1>3
  <2>2. QED
    BY <1>2, <1>3, <2>1
<1>5. QED
  BY <1>3, <1>4, SeqEqual DEF u

LEMMA SubSeqOneMore ==
  ASSUME NEW S, NEW t \in Seq(S), NEW x \in S, NEW a \in 1..(Len(t) + 1)
  PROVE  SubSeq(Append(t, x), a, Len(t) + 1) = Append(SubSeq(t, a, Len(t)), x)
<1> DEFINE u == Append(t, x)
           L == Len(t)
<1>1. /\ u \in Seq(S) /\ L \in Nat /\ Len(u) = L + 1 /\ u[L + 1] = x
  BY AppendProperties, LenProperties
<1>2. SubSeq(u, a, L) = SubSeq(t, a, L)
  <2>1. L \in Int /\ L <= Len(t) /\ a \in Nat \ {0}
    BY <1>1
  <2>2. QED
    BY <2>1, SubSeqBefore
<1> HIDE DEF u, L
<1>3. a \in 1..Len(u) /\ L + 1 \in a..Len(u) /\ (L + 1) - 1 = L
  BY <1>1 DEF L
<1>4. SubSeq(u, a, L + 1) = SubSeq(u, a, (L + 1) - 1) \o <<u[L + 1]>>
  BY <1>1, <1>3, SubSeqRecursiveSecond
<1>5. SubSeq(t, a, L) \in Seq(S)
  <2>1. \A k \in a..L : t[k] \in S
    BY <1>1 DEF L
  <2>2. a \in Int /\ L \in Int
    BY <1>1
  <2>3. QED
    BY <2>1, <2>2, SubSeqProperties
<1> DEFINE v == SubSeq(t, a, L)
<1> HIDE DEF v
<1>6. v \o <<x>> = Append(v, x)
  BY <1>5 DEF v
<1>7. QED
  BY <1>1, <1>2, <1>3, <1>4, <1>6 DEF u, v, L

\* The places where the call is cut, from the first to the last.
Cut(s, call) == Ascending(Len(call), Cuts(s, call))

LEMMA CutFacts ==
  ASSUME NEW s, NEW n \in Nat, NEW call \in Seq(1..n)
  PROVE  /\ Cut(s, call) \in Seq(1..Len(call))
         /\ Cuts(s, call) # {} => Cut(s, call) # <<>>
         /\ Cuts(s, call) = {} => Cut(s, call) = <<>>
<1> DEFINE L == Len(call)
           C == Cuts(s, call)
<1>1. L \in Nat
  OBVIOUS
<1>2. C \subseteq 1..L
  <2>1. ASSUME NEW c PROVE Places(s, call, c) \subseteq 1..L
    BY DEF Places
  <2>2. QED
    BY <2>1 DEF Cuts
<1>3. Ascending(L, C) \in Seq(C \cap (1..L))
  BY <1>1, AscendingElements
<1>4. C \cap (1..L) \subseteq 1..L
  OBVIOUS
<1>5. Cut(s, call) = Ascending(L, C)
  BY DEF Cut
<1> HIDE DEF L, C
<1>6. Ascending(L, C) \in Seq(1..L)
  BY <1>3, <1>4, SeqMonotonic
<1>7. ASSUME C # {} PROVE Ascending(L, C) # <<>>
  <2>1. PICK e \in C \cap (1..L) : TRUE
    BY <1>2, <1>7
  <2>2. QED
    BY <1>1, AscendingNonempty
<1>8. ASSUME C = {} PROVE Ascending(L, C) = <<>>
  <2>1. Ascending(L, C) \in Seq({})
    BY <1>3, <1>8
  <2>2. Len(Ascending(L, C)) \in Nat \ {0} => Ascending(L, C)[1] \in {}
    BY <2>1, ElementOfSeq
  <2>3. QED
    BY <2>1, <2>2, EmptySeq
<1>9. QED
  BY <1>5, <1>6, <1>7, <1>8 DEF L, C

LEMMA CutNext ==
  ASSUME NEW s, NEW n \in Nat, NEW call \in Seq(1..n), NEW p \in 1..n
  PROVE  Cut(s, Append(call, p)) = IF Marked(s, p)
                                   THEN Append(Cut(s, call), Len(call) + 1)
                                   ELSE Cut(s, call)
<1> DEFINE L == Len(call)
           new == Append(call, p)
           C == Cuts(s, call)
           D == Cuts(s, new)
<1>1. L \in Nat /\ Len(new) = L + 1
  BY AppendProperties, LenProperties
<1>2. C \subseteq 1..L /\ D = C \cup {k \in {L + 1} : Marked(s, p)}
  BY CutsAppend
<1>3. Cut(s, new) = Ascending(L + 1, D) /\ Cut(s, call) = Ascending(L, C)
  BY <1>1 DEF Cut
<1> HIDE DEF L, new, C, D
<1>4. L + 1 \in D <=> Marked(s, p)
  BY <1>1, <1>2
<1>5. \A k \in 1..L : k \in C <=> k \in D
  BY <1>1, <1>2
<1>6. Ascending(L, C) = Ascending(L, D)
  BY <1>1, <1>5, AscendingSame
<1>7. Ascending(L + 1, D) = IF L + 1 \in D THEN Append(Ascending(L, D), L + 1)
                            ELSE Ascending(L, D)
  BY <1>1, AscendingNext
<1>8. QED
  BY <1>3, <1>4, <1>6, <1>7 DEF L, new

\* A character that does not cut the call.
LEMMA ArgTextsPlain ==
  ASSUME NEW s \in Seq(Char), NEW call \in Seq(1..Len(s)), NEW p \in 1..Len(s),
         ~Marked(s, p), Cuts(s, call) # {}
  PROVE  /\ ArgTexts(s, Append(call, p)) = ArgTexts(s, call)
         /\ LastText(s, Append(call, p)) = Append(LastText(s, call), s[p])
<1> DEFINE L == Len(call)
           new == Append(call, p)
           t == TextOf(s, call)
           E == Cut(s, call)
<1>1. L \in Nat /\ Len(new) = L + 1 /\ Len(s) \in Nat
  BY AppendProperties, LenProperties
<1>2. t \in Seq(Char) /\ Len(t) = L /\ s[p] \in Char
  BY TextOfType
<1>3. TextOf(s, new) = Append(t, s[p])
  BY TextOfAppend
<1>4. Cut(s, new) = E /\ E \in Seq(1..L) /\ E # <<>>
  BY <1>1, CutNext, CutFacts
<1>5. /\ ArgTexts(s, new) = [k \in 1..(Len(E) - 1) |->
                               SubSeq(Append(t, s[p]), E[k] + 1, E[k + 1] - 1)]
      /\ ArgTexts(s, call) = [k \in 1..(Len(E) - 1) |-> SubSeq(t, E[k] + 1, E[k + 1] - 1)]
  BY <1>3, <1>4 DEF ArgTexts, Cut
<1>6. /\ LastText(s, new) = SubSeq(Append(t, s[p]), E[Len(E)] + 1, L + 1)
      /\ LastText(s, call) = SubSeq(t, E[Len(E)] + 1, L)
  BY <1>1, <1>3, <1>4 DEF LastText, Cut
<1> HIDE DEF L, new, t, E
<1>7. ASSUME NEW k \in 1..(Len(E) - 1)
      PROVE  SubSeq(Append(t, s[p]), E[k] + 1, E[k + 1] - 1)
               = SubSeq(t, E[k] + 1, E[k + 1] - 1)
  <2>1. E[k] \in 1..L /\ E[k + 1] \in 1..L
    <3>1. Len(E) \in Nat /\ E \in [1..Len(E) -> 1..L]
      BY <1>4, LenProperties
    <3>2. k \in 1..Len(E) /\ k + 1 \in 1..Len(E)
      BY <3>1
    <3>3. QED
      BY <3>1, <3>2
  <2>2. E[k] + 1 \in Nat \ {0} /\ E[k + 1] - 1 \in Int /\ E[k + 1] - 1 <= Len(t)
    BY <1>1, <1>2, <2>1
  <2>3. QED
    BY <1>2, <2>2, SubSeqBefore
<1>8. LastText(s, new) = Append(LastText(s, call), s[p])
  <2>1. E[Len(E)] \in 1..L
    <3>1. Len(E) \in Nat \ {0} /\ E \in [1..Len(E) -> 1..L]
      BY <1>4, LenProperties, EmptySeq
    <3>2. Len(E) \in 1..Len(E)
      BY <3>1
    <3>3. QED
      BY <3>1, <3>2
  <2>2. E[Len(E)] + 1 \in 1..(Len(t) + 1)
    BY <1>1, <1>2, <2>1
  <2>3. QED
    BY <1>2, <1>6, <2>2, SubSeqOneMore
<1>9. QED
  BY <1>5, <1>7, <1>8 DEF new

\* A "(", "," or ")" that does.
LEMMA ArgTextsCut ==
  ASSUME NEW s \in Seq(Char), NEW call \in Seq(1..Len(s)), NEW p \in 1..Len(s),
         Marked(s, p)
  PROVE  /\ ArgTexts(s, Append(call, p))
              = IF Cuts(s, call) = {} THEN <<>>
                ELSE Append(ArgTexts(s, call), LastText(s, call))
         /\ LastText(s, Append(call, p)) = <<>>
<1> DEFINE L == Len(call)
           new == Append(call, p)
           t == TextOf(s, call)
           u == TextOf(s, new)
           E == Cut(s, call)
           F == Cut(s, new)
           m == Len(E)
<1>1. L \in Nat /\ Len(new) = L + 1 /\ Len(s) \in Nat
  BY AppendProperties, LenProperties
<1>2. t \in Seq(Char) /\ Len(t) = L /\ s[p] \in Char
  BY TextOfType
<1>3. u = Append(t, s[p])
  BY TextOfAppend
<1>4. /\ F = Append(E, L + 1) /\ E \in Seq(1..L)
      /\ Cuts(s, call) # {} => E # <<>>
      /\ Cuts(s, call) = {} => E = <<>>
  BY <1>1, CutNext, CutFacts
<1>5. /\ ArgTexts(s, new) = [k \in 1..(Len(F) - 1) |-> SubSeq(u, F[k] + 1, F[k + 1] - 1)]
      /\ ArgTexts(s, call) = [k \in 1..(Len(E) - 1) |-> SubSeq(t, E[k] + 1, E[k + 1] - 1)]
      /\ LastText(s, new) = SubSeq(u, F[Len(F)] + 1, L + 1)
      /\ LastText(s, call) = SubSeq(t, E[Len(E)] + 1, L)
  BY <1>1 DEF ArgTexts, LastText, Cut
<1> HIDE DEF L, new, t, u, E, F
<1>6. E \in Seq(Int) /\ L + 1 \in Int
  BY <1>1, <1>4, SeqMonotonic
<1>7. /\ m \in Nat /\ Len(F) = m + 1 /\ F[m + 1] = L + 1
      /\ \A k \in 1..m : F[k] = E[k] /\ E[k] \in 1..L
  <2>1. /\ Len(F) = m + 1 /\ F[m + 1] = L + 1
        /\ \A k \in 1..m : F[k] = E[k]
    BY <1>4, <1>6, AppendProperties
  <2>2. m \in Nat /\ \A k \in 1..m : E[k] \in 1..L
    <3>1. Len(E) \in Nat /\ E \in [1..Len(E) -> 1..L]
      BY <1>4, LenProperties
    <3>2. QED
      BY <3>1
  <2>3. QED
    BY <2>1, <2>2
<1> HIDE DEF m
<1>8. LastText(s, new) = <<>>
  <2>1. F[Len(F)] + 1 = L + 2 /\ L + 2 \in Int /\ L + 1 \in Int /\ L + 1 < L + 2
    BY <1>1, <1>7
  <2>2. QED
    BY <1>5, <2>1, SubSeqEmpty
<1>9. CASE Cuts(s, call) = {}
  <2>1. m = 0
    BY <1>4, <1>9 DEF m
  <2>2. 1..(Len(F) - 1) = {}
    BY <1>7, <2>1
  <2>3. ArgTexts(s, new) = <<>>
    <3>1. DOMAIN ArgTexts(s, new) = {}
      BY <1>5, <2>2
    <3>2. ArgTexts(s, new) \in [1..0 -> Int]
      BY <1>5, <2>2
    <3>3. ArgTexts(s, new) \in Seq(Int) /\ Len(ArgTexts(s, new)) = 0
      BY <3>2
    <3>4. QED
      BY <3>3, EmptySeq
  <2>4. QED
    BY <1>8, <1>9, <2>3 DEF new
<1>10. CASE Cuts(s, call) # {}
  <2>1. m \in Nat \ {0}
    BY <1>4, <1>7, <1>10 DEF m
  <2> DEFINE old == [k \in 1..(m - 1) |-> SubSeq(t, E[k] + 1, E[k + 1] - 1)]
             C == Seq(Char)
             T(k) == SubSeq(t, E[k] + 1, E[k + 1] - 1)
             N(k) == SubSeq(u, F[k] + 1, F[k + 1] - 1)
             last == SubSeq(t, E[m] + 1, L)
  <2>2. \A a \in Nat \ {0} : \A b \in Int : b <= L =>
          SubSeq(t, a, b) \in C /\ SubSeq(u, a, b) = SubSeq(t, a, b)
    <3>1. SUFFICES ASSUME NEW a \in Nat \ {0}, NEW b \in Int, b <= L
                   PROVE  SubSeq(t, a, b) \in C /\ SubSeq(u, a, b) = SubSeq(t, a, b)
      OBVIOUS
    <3>2. \A k \in a..b : t[k] \in Char
      BY <1>1, <1>2, <3>1
    <3>3. SubSeq(t, a, b) \in C
      BY <3>2, SubSeqProperties
    <3>4. QED
      BY <1>2, <1>3, <3>1, <3>3, SubSeqBefore
  <2>3. ASSUME NEW k \in 1..(m - 1) PROVE T(k) \in C /\ N(k) = T(k)
    <3>1. k \in 1..m /\ k + 1 \in 1..m
      BY <2>1
    <3>2. E[k] \in 1..L /\ E[k + 1] \in 1..L /\ F[k] = E[k] /\ F[k + 1] = E[k + 1]
      BY <1>7, <3>1
    <3>3. E[k] + 1 \in Nat \ {0} /\ E[k + 1] - 1 \in Int /\ E[k + 1] - 1 <= L
      BY <1>1, <3>2
    <3>4. QED
      BY <2>2, <3>2, <3>3
  <2>4. N(m) = last /\ last \in C
    <3>1. m \in 1..m /\ m + 1 = Len(F)
      BY <1>7, <2>1
    <3>2. F[m] = E[m] /\ E[m] \in 1..L /\ F[m + 1] - 1 = L
      BY <1>1, <1>7, <3>1
    <3>3. E[m] + 1 \in Nat \ {0} /\ L \in Int /\ L <= L
      BY <1>1, <3>2
    <3>4. QED
      BY <2>2, <3>2, <3>3
  <2>5. ArgTexts(s, new) = [k \in 1..m |-> N(k)]
    BY <1>5, <1>7
  <2>6. ArgTexts(s, call) = [k \in 1..(m - 1) |-> T(k)] /\ LastText(s, call) = last
    BY <1>5 DEF m
  <2> HIDE DEF N, T, last, C
  <2> DEFINE w == [k \in 1..(m - 1) |-> T(k)]
  <2>7. w \in Seq(C) /\ Len(w) = m - 1 /\ \A k \in 1..(m - 1) : w[k] = T(k)
    BY <2>1, <2>3
  <2> HIDE DEF w
  <2>8. /\ Append(w, last) \in Seq(C) /\ Len(Append(w, last)) = m
        /\ \A k \in 1..(m - 1) : Append(w, last)[k] = w[k]
        /\ Append(w, last)[m] = last
    <3>1. (m - 1) + 1 = m
      BY <2>1
    <3>2. QED
      BY <2>4, <2>7, <3>1, AppendProperties
  <2> DEFINE z == [k \in 1..m |-> N(k)]
  <2>9. ASSUME NEW k \in 1..m PROVE N(k) = Append(w, last)[k] /\ N(k) \in C
    <3>1. k = m \/ k \in 1..(m - 1)
      BY <2>1
    <3>2. QED
      BY <2>3, <2>4, <2>7, <2>8, <3>1
  <2>10. z \in Seq(C) /\ Len(z) = m /\ \A k \in 1..m : z[k] = Append(w, last)[k]
    <3>1. \A k \in 1..m : N(k) \in C
      BY <2>9
    <3>2. z \in Seq(C) /\ Len(z) = m
      BY <2>1, <3>1
    <3>3. QED
      BY <2>9, <3>2
  <2> HIDE DEF z
  <2>11. z = Append(w, last)
    BY <2>8, <2>10, SeqEqual
  <2>12. QED
    BY <1>8, <1>10, <2>5, <2>6, <2>11 DEF new, z, w
<1>11. QED
  BY <1>9, <1>10

\* The text before the parenthesis.
LEMMA NameTextSame ==
  ASSUME NEW s \in Seq(Char), NEW call \in Seq(1..Len(s)), NEW p \in 1..Len(s),
         Inside(s, call), Places(s, Append(call, p), "(") = Places(s, call, "(")
  PROVE  NameText(s, Append(call, p)) = NameText(s, call)
<1> DEFINE new == Append(call, p)
           t == TextOf(s, call)
           O == Places(s, call, "(")
           o == CHOOSE k \in O : TRUE
<1>1. t \in Seq(Char) /\ Len(t) = Len(call) /\ s[p] \in Char /\ Len(call) \in Nat
  BY TextOfType
<1>2. TextOf(s, new) = Append(t, s[p])
  BY TextOfAppend
<1>3. o \in 1..Len(call)
  <2>1. \E k \in DOMAIN call : O = {k}
    BY DEF Inside
  <2>2. DOMAIN call = 1..Len(call)
    OBVIOUS
  <2> HIDE DEF O
  <2>3. QED
    BY <2>1, <2>2
<1>4. /\ NameText(s, new) = SubSeq(Append(t, s[p]), 1, o - 1)
      /\ NameText(s, call) = SubSeq(t, 1, o - 1)
  BY <1>2 DEF NameText
<1> HIDE DEF new, t, o
<1>5. 1 \in Nat \ {0} /\ o - 1 \in Int /\ o - 1 <= Len(t)
  BY <1>1, <1>3
<1>6. SubSeq(Append(t, s[p]), 1, o - 1) = SubSeq(t, 1, o - 1)
  BY <1>1, <1>5, SubSeqBefore
<1>7. QED
  BY <1>4, <1>6 DEF new

LEMMA NameTextOpens ==
  ASSUME NEW s \in Seq(Char), NEW call \in Seq(1..Len(s)), NEW p \in 1..Len(s),
         Places(s, Append(call, p), "(") = {Len(call) + 1}
  PROVE  NameText(s, Append(call, p)) = TextOf(s, call)
<1> DEFINE new == Append(call, p)
           t == TextOf(s, call)
           O == Places(s, new, "(")
           o == CHOOSE k \in O : TRUE
<1>1. t \in Seq(Char) /\ Len(t) = Len(call) /\ s[p] \in Char /\ Len(call) \in Nat
  BY TextOfType
<1>2. TextOf(s, new) = Append(t, s[p])
  BY TextOfAppend
<1>3. o = Len(call) + 1
  OBVIOUS
<1>4. NameText(s, new) = SubSeq(Append(t, s[p]), 1, o - 1)
  BY <1>2 DEF NameText
<1> HIDE DEF new, t, o
<1>5. o - 1 = Len(t) /\ 1 \in Nat \ {0} /\ Len(t) \in Int /\ Len(t) <= Len(t)
  BY <1>1, <1>3
<1>6. SubSeq(Append(t, s[p]), 1, Len(t)) = SubSeq(t, 1, Len(t))
  BY <1>1, <1>5, SubSeqBefore
<1>7. SubSeq(t, 1, Len(t)) = t
  BY <1>1, SubSeqFull
<1>8. QED
  BY <1>4, <1>5, <1>6, <1>7 DEF new, t

-------------------------------------------------------------------------------
(* The parser reads what the reference says.                               *)

Reading == mode \in {"loop", "quoted", "escaped"}

Where == CASE mode = "loop"    -> "out"
           [] mode = "quoted"  -> "in"
           [] mode = "escaped" -> "esc"

At == Len(Ended(inStr)) - Len(stream)

\* What std::quoted has read and not returned yet.
Pending == IF mode = "loop" THEN <<>> ELSE <<"quote">> \o quoted

\* What the parser has read of the call that is not ended yet, and of its last
\* argument.
Read    == func_with_args_ \o Pending
ArgRead == func_arg_as_str \o Pending

Reported == [k \in DOMAIN result |-> result[k].func_with_args_as_string_]

\* Between two characters the parser is where the string is, and it has kept and
\* reported what the reference does of the characters read so far.
ReadInv ==
  LET s == Ended(inStr)
  IN  /\ Reading =>
           /\ At \in Nat
           /\ \A k \in 1..Len(stream) : stream[k] = s[At + k]
           /\ Where = Lexed(s)[At]
           /\ Read = TextOf(s, OpenCall(s, At))
           /\ Reported = Texts(s, CallsBy(s, At))
      /\ mode = "returned" => Reported = Texts(s, CallsBy(s, Len(s)))

\* The next character of the stream is outside the strings, and is c.
HeadIs(c) == Where = "out" /\ Head(stream) = c

\* What the parser does with a character that it does not keep, ...
Skipped ==
  /\ Reading' /\ Where' = LexStep(Where, Head(stream))
  /\ ~EndsThere(Where, Head(stream)) /\ ~KeptThere(Where, Head(stream))
  /\ Read' = Read /\ ArgRead' = ArgRead
  /\ UNCHANGED <<result, is_in_args, func_args_vec_, func_name_unprocessed_>>

\* ... with one that it keeps, ...
Kept1 ==
  /\ Reading' /\ Where' = LexStep(Where, Head(stream))
  /\ ~EndsThere(Where, Head(stream)) /\ KeptThere(Where, Head(stream))
  /\ Read' = Append(Read, Head(stream))
  /\ result' = result

\* ... and with one that it keeps and that is no parenthesis and no comma.
Plain ==
  /\ Kept1
  /\ \A c \in {"(", ",", ")"} : ~HeadIs(c)
  /\ is_in_args => ArgRead' = Append(ArgRead, Head(stream))
  /\ UNCHANGED <<is_in_args, func_args_vec_, func_name_unprocessed_>>

LEMMA EndedType ==
  ASSUME TypeOK
  PROVE  /\ Ended(inStr) \in Seq(Char)
         /\ Len(Ended(inStr)) \in Nat
         /\ Len(stream) \in Nat
<1> DEFINE c == ";"
<1>1. inStr \in Seq(Char) /\ stream \in Seq(Char)
  BY CharAssumption DEF TypeOK
<1>2. c \in Char
  BY SpecialAreChars DEF Special
<1> HIDE DEF c
<1>3. <<c>> \in Seq(Char)
  BY <1>2
<1>4. Ended(inStr) = inStr \o <<c>>
  BY DEF Ended, c
<1>5. QED
  BY <1>1, <1>3, <1>4, ConcatProperties, LenProperties

LEMMA NothingRead ==
  ASSUME NEW s
  PROVE  OpenCall(s, 0) = <<>> /\ CallsBy(s, 0) = <<>>
<1>1. Ascending(0, Open(s, 0)) = <<>> /\ Ascending(0, Filled(s)) = <<>>
  BY AscendingZero
<1>2. QED
  BY <1>1 DEF OpenCall, CallsBy

LEMMA InitRead == Init => ReadInv
<1> SUFFICES ASSUME Init PROVE ReadInv
  OBVIOUS
<1> DEFINE s == Ended(inStr)
<1>1. TypeOK
  BY InitTypeOK
<1>2. s \in Seq(Char) /\ Len(s) \in Nat
  BY <1>1, EndedType
<1>3. stream = s
  <2> DEFINE c == ";"
  <2>1. inStr \in Seq(Char)
    BY <1>1, CharAssumption DEF TypeOK
  <2> HIDE DEF c
  <2>2. Append(inStr, c) = inStr \o <<c>>
    BY <2>1
  <2>3. QED
    BY <2>2 DEF Init, Closed, Ended, c
<1>4. At = 0 /\ Where = "out" /\ Lexed(s)[0] = "out"
  BY <1>2, <1>3, LexedFacts DEF At, Init, Where
<1>5. Read = <<>> /\ Reported = <<>>
  BY DEF Read, Pending, Reported, Init
<1>6. TextOf(s, OpenCall(s, 0)) = <<>> /\ Texts(s, CallsBy(s, 0)) = <<>>
  <2>1. OpenCall(s, 0) = <<>> /\ CallsBy(s, 0) = <<>>
    BY NothingRead
  <2>2. QED
    BY <2>1 DEF Texts, TextOf
<1>7. mode # "returned"
  BY DEF Init
<1> HIDE DEF s
<1>8. \A k \in 1..Len(stream) : stream[k] = s[0 + k]
  BY <1>2, <1>3
<1>9. QED
  BY <1>4, <1>5, <1>6, <1>7, <1>8 DEF ReadInv, s

\* The next character of the stream is the next of the string.
LEMMA NextCharacter ==
  ASSUME TypeOK, ReadInv, Reading, stream # <<>>, Consume
  PROVE  /\ At \in Nat /\ At < Len(Ended(inStr))
         /\ Head(stream) = Ended(inStr)[At + 1]
         /\ At' = At + 1
         /\ \A k \in 1..Len(stream') : stream'[k] = Ended(inStr)[At' + k]
<1> DEFINE s == Ended(inStr)
           n == Len(s)
           L == Len(stream)
<1>1. n \in Nat /\ L \in Nat
  BY EndedType
<1>2. /\ stream \in Seq(Char) /\ L # 0 /\ Head(stream) = stream[1]
      /\ Len(Tail(stream)) = L - 1
      /\ \A k \in 1..(L - 1) : Tail(stream)[k] = stream[k + 1]
  BY HeadTailProperties DEF TypeOK
<1>3. inStr' = inStr /\ stream' = Tail(stream)
  BY DEF Consume
<1>4. At = n - L /\ At \in Nat /\ \A k \in 1..L : stream[k] = s[At + k]
  BY DEF At, ReadInv
<1>5. At' = n - Len(stream')
  BY <1>3 DEF At
<1> HIDE DEF s, n, L
<1>6. At < n /\ At' = At + 1
  BY <1>1, <1>2, <1>3, <1>4, <1>5
<1>7. Head(stream) = s[At + 1]
  BY <1>1, <1>2, <1>4
<1>8. ASSUME NEW k \in 1..Len(stream')
      PROVE  stream'[k] = s[At' + k]
  <2>1. k \in 1..(L - 1) /\ k + 1 \in 1..L /\ At + (k + 1) = At' + k
    BY <1>1, <1>2, <1>3, <1>4, <1>6
  <2>2. stream'[k] = stream[k + 1]
    BY <1>2, <1>3, <2>1
  <2>3. QED
    BY <1>4, <2>1, <2>2
<1>9. QED
  BY <1>4, <1>6, <1>7, <1>8 DEF s, n

\* A character that ends no call.
LEMMA NextInCall ==
  ASSUME TypeOK, ReadInv, Reading, stream # <<>>, Consume,
         ~EndsThere(Where, Head(stream))
  PROVE  LET s == Ended(inStr)
             p == At + 1
         IN  /\ s \in Seq(Char) /\ Len(s) \in Nat /\ At \in Nat /\ p \in 1..Len(s)
             /\ s[p] = Head(stream) /\ At' = p /\ Ended(inStr') = s
             /\ OpenCall(s, At) \in Seq(1..Len(s))
             /\ OpenCall(s, p) = IF KeptThere(Where, Head(stream))
                                 THEN Append(OpenCall(s, At), p)
                                 ELSE OpenCall(s, At)
             /\ CallsBy(s, p) = CallsBy(s, At)
             /\ Read = TextOf(s, OpenCall(s, At))
             /\ Lexed(s)[p] = LexStep(Where, Head(stream))
             /\ \A c : Stands(s, p, c) <=> HeadIs(c)
<1> DEFINE s == Ended(inStr)
           i == At
           c == Head(stream)
<1>1. i \in Nat /\ i < Len(s) /\ c = s[i + 1] /\ At' = i + 1
  BY NextCharacter
<1>2. s \in Seq(Char) /\ Len(s) \in Nat
  BY EndedType
<1>3. Where = Lexed(s)[i] /\ Read = TextOf(s, OpenCall(s, i))
  BY DEF ReadInv
<1>4. Ended(inStr') = s
  BY DEF Consume
<1> HIDE DEF s, i, c
<1>5. i + 1 \in 1..Len(s) /\ (i + 1) - 1 = i /\ i <= Len(s)
  BY <1>1, <1>2
<1>6. Lexed(s)[i + 1] = LexStep(Where, c)
  <2>1. Lexed(s)[i + 1] = LexStep(Lexed(s)[(i + 1) - 1], s[i + 1])
    BY <1>2, <1>5, LexedFacts
  <2>2. QED
    BY <1>1, <1>3, <1>5, <2>1
<1>7. /\ i + 1 \notin Ends(s)
      /\ i + 1 \in Kept(s) <=> KeptThere(Where, c)
      /\ i + 1 \in Outside(s) <=> Where = "out"
  BY <1>1, <1>2, <1>3, KeptFacts DEF c
<1>8. /\ OpenCall(s, i + 1) = IF i + 1 \in Kept(s) THEN Append(OpenCall(s, i), i + 1)
                              ELSE OpenCall(s, i)
      /\ CallsBy(s, i + 1) = CallsBy(s, i)
  BY <1>1, <1>2, <1>7, OpenCallNext
<1>9. OpenCall(s, i) \in Seq(1..Len(s))
  BY <1>1, <1>2, <1>5, OpenCallType
<1>10. \A d : Stands(s, i + 1, d) <=> HeadIs(d)
  BY <1>1, <1>7 DEF Stands, HeadIs, c
<1>11. QED
  BY <1>1, <1>2, <1>3, <1>4, <1>5, <1>6, <1>7, <1>8, <1>9, <1>10 DEF s, i, c

LEMMA CharacterRead ==
  ASSUME TypeOK, ReadInv, Reading, stream # <<>>, Consume, Skipped \/ Kept1
  PROVE  ReadInv'
<1> DEFINE s == Ended(inStr)
           i == At
           c == Head(stream)
           call == OpenCall(s, i)
<1>1. /\ s \in Seq(Char) /\ i \in Nat /\ i + 1 \in 1..Len(s)
      /\ s[i + 1] = c /\ At' = i + 1 /\ Ended(inStr') = s
      /\ call \in Seq(1..Len(s))
      /\ OpenCall(s, i + 1) = IF KeptThere(Where, c) THEN Append(call, i + 1) ELSE call
      /\ CallsBy(s, i + 1) = CallsBy(s, i)
      /\ Read = TextOf(s, call)
      /\ Lexed(s)[i + 1] = LexStep(Where, c)
  BY NextInCall DEF Skipped, Kept1
<1>2. \A k \in 1..Len(stream') : stream'[k] = s[At' + k]
  BY NextCharacter
<1>3. Reported = Texts(s, CallsBy(s, i)) /\ Reported' = Reported
  BY DEF ReadInv, Reported, Skipped, Kept1
<1>4. Where' = LexStep(Where, c) /\ mode' # "returned"
  BY DEF Skipped, Kept1, Reading
<1>5. Read' = IF KeptThere(Where, c) THEN Append(Read, c) ELSE Read
  BY DEF Skipped, Kept1
<1> HIDE DEF s, i, c, call
<1>6. Read' = TextOf(s, OpenCall(s, i + 1))
  BY <1>1, <1>5, TextOfAppend
<1>7. i + 1 \in Nat
  BY <1>1
<1>8. QED
  BY <1>1, <1>2, <1>3, <1>4, <1>6, <1>7 DEF ReadInv

\* In the loop nothing is pending.
LEMMA LoopRead ==
  TypeOK /\ mode = "loop" =>
    /\ Reading /\ Where = "out"
    /\ Pending = <<>> /\ Read = func_with_args_ /\ ArgRead = func_arg_as_str
<1> SUFFICES ASSUME TypeOK, mode = "loop"
             PROVE  /\ Reading /\ Where = "out"
                    /\ Pending = <<>>
                    /\ Read = func_with_args_ /\ ArgRead = func_arg_as_str
  OBVIOUS
<1>1. func_with_args_ \o <<>> = func_with_args_
  BY ConcatEmptySeq DEF TypeOK, Text
<1>2. func_arg_as_str \o <<>> = func_arg_as_str
  BY ConcatEmptySeq DEF TypeOK, Text
<1>3. QED
  BY <1>1, <1>2 DEF Read, ArgRead, Pending, Reading, Where

LEMMA LoopReadNext ==
  ASSUME TypeOK', mode' = "loop"
  PROVE  /\ Reading' /\ Where' = "out"
         /\ Pending' = <<>> /\ Read' = func_with_args_' /\ ArgRead' = func_arg_as_str'
<1>1. (TypeOK /\ mode = "loop" =>
         /\ Reading /\ Where = "out"
         /\ Pending = <<>> /\ Read = func_with_args_ /\ ArgRead = func_arg_as_str)'
  BY LoopRead, PTL
<1>2. QED
  BY <1>1

\* A ';' outside the quoted strings.
LEMMA NextEndsCall ==
  ASSUME TypeOK, ReadInv, Semicolon
  PROVE  LET s == Ended(inStr)
             call == OpenCall(s, At)
         IN  /\ s \in Seq(Char) /\ At \in Nat /\ Ended(inStr') = s
             /\ At' = At + 1 /\ At + 1 \in Nat
             /\ \A k \in 1..Len(stream') : stream'[k] = s[At' + k]
             /\ call \in Seq(1..Len(s))
             /\ Read = TextOf(s, call)
             /\ func_with_args_ = Read
             /\ OpenCall(s, At + 1) = <<>>
             /\ CallsBy(s, At + 1) = IF func_with_args_ = <<>> THEN CallsBy(s, At)
                                     ELSE Append(CallsBy(s, At), call)
             /\ Where' = "out" /\ Lexed(s)[At + 1] = "out"
<1> DEFINE s == Ended(inStr)
           i == At
           call == OpenCall(s, i)
<1>1. /\ Reading /\ mode = "loop" /\ mode' = "loop" /\ stream # <<>> /\ Consume
  BY DEF Semicolon, Peek, Reading
<1>2. /\ i \in Nat /\ i < Len(s) /\ s[i + 1] = Head(stream) /\ At' = i + 1
      /\ \A k \in 1..Len(stream') : stream'[k] = s[At' + k]
  BY <1>1, NextCharacter
<1>3. s \in Seq(Char) /\ Len(s) \in Nat
  BY EndedType
<1>4. Where = Lexed(s)[i] /\ Read = TextOf(s, call)
  BY <1>1 DEF ReadInv
<1>5. Where = "out" /\ Where' = "out" /\ Ended(inStr') = s
  BY <1>1 DEF Where, Consume
<1>6. func_with_args_ = Read
  BY <1>1, LoopRead
<1> HIDE DEF s, i, call
<1>7. i + 1 \in 1..Len(s) /\ (i + 1) - 1 = i /\ i <= Len(s) /\ i + 1 \in Nat
  BY <1>2, <1>3
<1>8. Lexed(s)[i + 1] = "out"
  <2>1. Lexed(s)[i + 1] = LexStep(Lexed(s)[(i + 1) - 1], s[i + 1])
    BY <1>3, <1>7, LexedFacts
  <2>2. Head(stream) = ";"
    BY DEF Semicolon, Peek
  <2>3. LexStep("out", Head(stream)) = "out"
    BY <2>2 DEF LexStep
  <2>4. QED
    BY <1>2, <1>4, <1>5, <1>7, <2>1, <2>3
<1>9. i + 1 \in Ends(s)
  <2>1. Head(stream) = ";"
    BY DEF Semicolon, Peek
  <2>2. EndsThere("out", Head(stream))
    BY <2>1 DEF EndsThere
  <2>3. QED
    BY <1>2, <1>3, <1>4, <1>5, <2>2, KeptFacts
<1>10. /\ OpenCall(s, i + 1) = <<>>
       /\ CallsBy(s, i + 1) = IF call = <<>> THEN CallsBy(s, i)
                              ELSE Append(CallsBy(s, i), call)
  BY <1>2, <1>3, <1>9, OpenCallEnds DEF call
<1>11. call \in Seq(1..Len(s))
  BY <1>2, <1>3, <1>7, OpenCallType DEF call
<1>12. call = <<>> <=> func_with_args_ = <<>>
  <2>1. TextOf(s, call) \in Seq(Char) /\ Len(TextOf(s, call)) = Len(call)
    BY <1>3, <1>11, TextOfType
  <2>2. QED
    BY <1>4, <1>6, <1>11, <2>1, EmptySeq
<1>13. QED
  BY <1>2, <1>3, <1>4, <1>5, <1>6, <1>7, <1>8, <1>10, <1>11, <1>12 DEF s, i, call

LEMMA SemicolonRead ==
  ASSUME TypeOK, ReadInv, Semicolon
  PROVE  ReadInv'
<1> DEFINE s == Ended(inStr)
           i == At
           call == OpenCall(s, i)
           C == CallsBy(s, i)
<1>1. /\ s \in Seq(Char) /\ i \in Nat /\ Ended(inStr') = s
      /\ At' = i + 1 /\ i + 1 \in Nat
      /\ \A k \in 1..Len(stream') : stream'[k] = s[At' + k]
      /\ call \in Seq(1..Len(s))
      /\ Read = TextOf(s, call) /\ func_with_args_ = Read
      /\ OpenCall(s, i + 1) = <<>>
      /\ CallsBy(s, i + 1) = IF func_with_args_ = <<>> THEN C ELSE Append(C, call)
      /\ Where' = "out" /\ Lexed(s)[i + 1] = "out"
  BY NextEndsCall
<1>2. mode = "loop" /\ mode' = "loop" /\ Reading'
  BY DEF Semicolon, Peek, Reading
<1>3. Reported = Texts(s, C)
  BY <1>2 DEF ReadInv, Reading
<1>4. Read' = <<>>
  <2>1. func_with_args_' = <<>> /\ Pending' = <<>>
    BY <1>2 DEF Pending, Semicolon, ResetFunc, accumulators
  <2>2. <<>> \o <<>> = <<>>
    BY EmptySeq, ConcatEmptySeq
  <2>3. QED
    BY <2>1, <2>2 DEF Read
<1>5. Reported' = IF func_with_args_ = <<>> THEN Reported
                  ELSE Append(Reported, func_with_args_)
  <2>1. CASE func_with_args_ = <<>>
    BY <2>1 DEF Semicolon, Reported
  <2>2. CASE func_with_args_ # <<>>
    <3>1. result' = Append(result, ParsedFunc)
      BY <2>2 DEF Semicolon
    <3> DEFINE m == Len(result)
               A == [k \in 1..m |-> result[k].func_with_args_as_string_]
    <3>2. /\ DOMAIN result' = 1..(m + 1) /\ DOMAIN result = 1..m /\ m \in Nat
          /\ \A k \in 1..m : result'[k] = result[k]
          /\ result'[m + 1] = ParsedFunc
      BY <3>1, AppendResult DEF TypeOK
    <3>3. ParsedFunc.func_with_args_as_string_ = func_with_args_
      BY DEF ParsedFunc
    <3>4. Len(A) = m /\ A \in Seq({A[k] : k \in 1..m} \cup {func_with_args_})
      BY <3>2
    <3>5. Append(A, func_with_args_)
            = [k \in 1..(m + 1) |-> IF k = m + 1 THEN func_with_args_ ELSE A[k]]
      BY <3>2, <3>4
    <3> HIDE DEF m
    <3>6. ASSUME NEW k \in 1..(m + 1)
          PROVE  result'[k].func_with_args_as_string_
                   = IF k = m + 1 THEN func_with_args_ ELSE A[k]
      <4>1. k = m + 1 \/ (k # m + 1 /\ k \in 1..m)
        BY <3>2
      <4>2. QED
        BY <3>2, <3>3, <4>1
    <3>7. Reported = A
      BY <3>2 DEF Reported
    <3> HIDE DEF A
    <3>8. Reported' = Append(A, func_with_args_)
      BY <3>2, <3>5, <3>6 DEF Reported
    <3>9. QED
      BY <2>2, <3>7, <3>8
  <2>3. QED
    BY <2>1, <2>2
<1> HIDE DEF s, i, C, call
<1>6. C \in Seq(Seq(1..Len(s)))
  BY <1>1, CallsByType DEF C
<1>7. Texts(s, Append(C, call)) = Append(Texts(s, C), TextOf(s, call))
  BY <1>1, <1>6, TextsAppend
<1>8. Reported' = Texts(s, CallsBy(s, i + 1))
  BY <1>1, <1>3, <1>5, <1>7
<1>9. Read' = TextOf(s, OpenCall(s, i + 1))
  BY <1>1, <1>4 DEF TextOf
<1>10. mode' # "returned"
  BY <1>2
<1>11. QED
  BY <1>1, <1>2, <1>8, <1>9, <1>10 DEF ReadInv

\* The end of the stream: what is not ended is not reported.
LEMMA EndRead ==
  ASSUME TypeOK, ReadInv, Reading, stream = <<>>, UNCHANGED <<inStr, result>>,
         mode' = "returned"
  PROVE  ReadInv'
<1>1. At = Len(Ended(inStr))
  BY EndedType DEF At
<1>2. Reported = Texts(Ended(inStr), CallsBy(Ended(inStr), Len(Ended(inStr))))
  BY <1>1 DEF ReadInv
<1>3. Ended(inStr') = Ended(inStr) /\ Reported' = Reported
  BY DEF Reported
<1>4. ~Reading'
  BY DEF Reading
<1>5. QED
  BY <1>2, <1>3, <1>4 DEF ReadInv
-------------------------------------------------------------------------------
(* What each of the parser's actions does with its character.              *)

LEMMA AppendToConcat ==
  ASSUME NEW S, NEW f \in Seq(S), NEW g \in Seq(S), NEW c \in S
  PROVE  /\ f \o Append(g, c) = Append(f \o g, c)
         /\ f \o <<c>> = Append(f, c)
<1>1. <<c>> \in Seq(S) /\ f \o g \in Seq(S)
  BY ConcatProperties
<1>2. Append(g, c) = g \o <<c>> /\ f \o <<c>> = Append(f, c)
  OBVIOUS
<1>3. (f \o g) \o <<c>> = Append(f \o g, c)
  BY <1>1
<1>4. f \o (g \o <<c>>) = (f \o g) \o <<c>>
  BY <1>1, ConcatAssociative
<1>5. QED
  BY <1>2, <1>3, <1>4

\* One more character is pending.
LEMMA PendingGrows ==
  ASSUME TypeOK, NEW c \in Char, Pending \in Seq(Char),
         Pending' = Append(Pending, c),
         UNCHANGED <<func_with_args_, func_arg_as_str>>
  PROVE  Read' = Append(Read, c) /\ ArgRead' = Append(ArgRead, c)
<1> DEFINE C == Char \cup {Garbage}
<1>1. /\ func_with_args_ \in Seq(C) /\ func_arg_as_str \in Seq(C)
      /\ Pending \in Seq(C) /\ c \in C
  BY SeqMonotonic DEF TypeOK, Text
<1> HIDE DEF C
<1>2. /\ func_with_args_ \o Append(Pending, c) = Append(func_with_args_ \o Pending, c)
      /\ func_arg_as_str \o Append(Pending, c) = Append(func_arg_as_str \o Pending, c)
  BY <1>1, AppendToConcat
<1>3. QED
  BY <1>2 DEF Read, ArgRead

LEMMA PendingType ==
  ASSUME TypeOK
  PROVE  Pending \in Seq(Char)
<1>1. <<"quote">> \in Seq(Char)
  <2>1. "quote" \in Char
    BY SpecialAreChars DEF Special
  <2>2. QED
    BY <2>1
<1>2. quoted \in Seq(Char) /\ <<>> \in Seq(Char)
  BY DEF TypeOK
<1>3. <<"quote">> \o quoted \in Seq(Char)
  BY <1>1, <1>2, ConcatProperties
<1>4. QED
  BY <1>2, <1>3 DEF Pending

LEMMA SkipSpaceSkips ==
  ASSUME TypeOK, SkipSpace
  PROVE  Reading /\ stream # <<>> /\ Consume /\ Skipped
<1>1. /\ mode = "loop" /\ stream # <<>> /\ Head(stream) = "space" /\ Consume
      /\ UNCHANGED <<mode, quoted, func_with_args_, func_arg_as_str, result,
                     is_in_args, func_args_vec_, func_name_unprocessed_>>
  BY DEF SkipSpace, Peek, accumulators
<1>2. Reading /\ Where = "out"
  BY <1>1, LoopRead
<1>3. Reading' /\ Where' = Where /\ Read' = Read /\ ArgRead' = ArgRead
  BY <1>1, <1>2 DEF Reading, Where, Read, ArgRead, Pending
<1>4. LexStep("out", "space") = "out"
  BY DEF LexStep
<1>5. ~EndsThere("out", "space") /\ ~KeptThere("out", "space")
  BY DEF EndsThere, KeptThere
<1>6. QED
  BY <1>1, <1>2, <1>3, <1>4, <1>5 DEF Skipped

LEMMA BeginQuotedKeeps ==
  ASSUME TypeOK, BeginQuoted
  PROVE  Reading /\ stream # <<>> /\ Consume /\ Plain
<1>1. /\ mode = "loop" /\ stream # <<>> /\ Head(stream) = "quote" /\ Consume
      /\ mode' = "quoted" /\ quoted' = <<>>
      /\ UNCHANGED <<func_with_args_, func_arg_as_str, result,
                     is_in_args, func_args_vec_, func_name_unprocessed_>>
  BY DEF BeginQuoted, Peek, accumulators
<1>2. Reading /\ Where = "out" /\ Pending = <<>>
  BY <1>1, LoopRead
<1>3. Reading' /\ Where' = "in"
  BY <1>1 DEF Reading, Where
<1>4. Read' = Append(Read, "quote") /\ ArgRead' = Append(ArgRead, "quote")
  <2>1. "quote" \in Char
    BY SpecialAreChars DEF Special
  <2>2. Pending' = Append(Pending, "quote")
    <3>1. <<"quote">> \o <<>> = Append(<<>>, "quote")
      OBVIOUS
    <3>2. QED
      BY <1>1, <1>2, <3>1 DEF Pending
  <2>3. QED
    BY <1>1, <2>1, <2>2, PendingType, PendingGrows
<1>5. LexStep("out", "quote") = "in"
  BY DEF LexStep
<1>6. ~EndsThere("out", "quote") /\ KeptThere("out", "quote")
  BY DEF EndsThere, KeptThere
<1>7. \A c \in {"(", ",", ")"} : ~HeadIs(c)
  BY <1>1 DEF HeadIs
<1>8. QED
  BY <1>1, <1>2, <1>3, <1>4, <1>5, <1>6, <1>7 DEF Plain, Kept1

LEMMA ReadQuotedKeeps ==
  ASSUME TypeOK, ReadQuoted
  PROVE  Reading /\ stream # <<>> /\ Consume /\ (Skipped \/ Plain)
<1> DEFINE c == Head(stream)
<1>1. /\ mode \in {"quoted", "escaped"} /\ stream # <<>> /\ Consume
      /\ ~(mode = "quoted" /\ c = "quote")
      /\ UNCHANGED <<func_with_args_, func_arg_as_str, result,
                     is_in_args, func_args_vec_, func_name_unprocessed_>>
  BY DEF ReadQuoted, accumulators
<1>2. Reading
  BY <1>1 DEF Reading
<1>3. CASE mode = "quoted" /\ c = "escape"
  <2>1. mode' = "escaped" /\ quoted' = quoted
    BY <1>3 DEF ReadQuoted
  <2>2. Reading' /\ Where = "in" /\ Where' = "esc" /\ Pending' = Pending
    BY <1>3, <2>1 DEF Reading, Where, Pending
  <2>3. Read' = Read /\ ArgRead' = ArgRead
    BY <1>1, <2>2 DEF Read, ArgRead
  <2>4. LexStep("in", "escape") = "esc"
    BY DEF LexStep
  <2>5. ~EndsThere("in", "escape") /\ ~KeptThere("in", "escape")
    BY DEF EndsThere, KeptThere
  <2>6. Skipped
    BY <1>1, <1>3, <2>2, <2>3, <2>4, <2>5 DEF Skipped
  <2>7. QED
    BY <1>1, <1>2, <2>6
<1>4. CASE ~(mode = "quoted" /\ c = "escape")
  <2>1. mode' = "quoted" /\ quoted' = Append(quoted, c)
    BY <1>4 DEF ReadQuoted
  <2>2. Reading' /\ Where' = "in"
    BY <2>1 DEF Reading, Where
  <2>3. Where = "esc" \/ (Where = "in" /\ c \notin {"quote", "escape"})
    BY <1>1, <1>4 DEF Where
  <2>4. LexStep(Where, c) = "in"
    BY <2>3 DEF LexStep
  <2>5. ~EndsThere(Where, c) /\ KeptThere(Where, c) /\ \A d \in {"(", ",", ")"} : ~HeadIs(d)
    BY <2>3 DEF EndsThere, KeptThere, HeadIs
  <2>6. c \in Char
    BY <1>1, ConsumeType
  <2>7. Pending' = Append(Pending, c)
    <3>1. "quote" \in Char /\ quoted \in Seq(Char)
      BY SpecialAreChars DEF Special, TypeOK
    <3>2. <<"quote">> \in Seq(Char)
      BY <3>1
    <3>3. <<"quote">> \o Append(quoted, c) = Append(<<"quote">> \o quoted, c)
      BY <2>6, <3>1, <3>2, AppendToConcat
    <3>4. QED
      BY <1>1, <2>1, <3>3 DEF Pending
  <2>8. Read' = Append(Read, c) /\ ArgRead' = Append(ArgRead, c)
    BY <1>1, <2>6, <2>7, PendingType, PendingGrows
  <2>9. Plain
    BY <1>1, <2>2, <2>4, <2>5, <2>8 DEF Plain, Kept1
  <2>10. QED
    BY <1>1, <1>2, <2>9
<1>5. QED
  BY <1>3, <1>4

LEMMA EndQuotedKeeps ==
  ASSUME TypeOK, TypeOK', EndQuoted
  PROVE  Reading /\ stream # <<>> /\ Consume /\ Plain
<1>1. /\ mode = "quoted" /\ stream # <<>> /\ Head(stream) = "quote" /\ Consume
      /\ mode' = "loop" /\ func_with_args_' = func_with_args_ \o Requoted
      /\ is_in_args => func_arg_as_str' = func_arg_as_str \o Requoted
      /\ UNCHANGED <<result, is_in_args, func_args_vec_, func_name_unprocessed_>>
  BY DEF EndQuoted, AppendText
<1>2. Reading /\ Where = "in" /\ Where' = "out"
  BY <1>1 DEF Reading, Where
<1>3. /\ Reading' /\ Read' = func_with_args_' /\ ArgRead' = func_arg_as_str'
  BY <1>1, LoopReadNext
<1>4. /\ Read' = Append(Read, "quote")
      /\ is_in_args => ArgRead' = Append(ArgRead, "quote")
  <2> DEFINE C == Char \cup {Garbage}
             c == "quote"
  <2>1. /\ func_with_args_ \in Seq(C) /\ func_arg_as_str \in Seq(C)
        /\ Pending \in Seq(C) /\ c \in C
    BY PendingType, SpecialAreChars, SeqMonotonic DEF TypeOK, Text, Special
  <2>2. Requoted = Pending \o <<c>>
    BY <1>1 DEF Pending, Requoted
  <2> HIDE DEF C, c
  <2>3. Requoted = Append(Pending, c)
    BY <2>1, <2>2, AppendToConcat
  <2>4. /\ func_with_args_ \o Append(Pending, c) = Append(func_with_args_ \o Pending, c)
        /\ func_arg_as_str \o Append(Pending, c) = Append(func_arg_as_str \o Pending, c)
    BY <2>1, AppendToConcat
  <2>5. /\ Read' = Append(Read, c)
        /\ is_in_args => ArgRead' = Append(ArgRead, c)
    BY <1>1, <1>3, <2>3, <2>4 DEF Read, ArgRead
  <2>6. QED
    BY <2>5 DEF c
<1>5. LexStep("in", "quote") = "out"
  BY DEF LexStep
<1>6. ~EndsThere("in", "quote") /\ KeptThere("in", "quote")
  BY DEF EndsThere, KeptThere
<1>7. \A c \in {"(", ",", ")"} : ~HeadIs(c)
  BY <1>1 DEF HeadIs
<1>8. QED
  BY <1>1, <1>2, <1>3, <1>4, <1>5, <1>6, <1>7 DEF Plain, Kept1

\* A character outside the strings that is kept as it is.
LEMMA LoopKeeps ==
  ASSUME TypeOK, TypeOK', mode = "loop", mode' = "loop", stream # <<>>,
         Consume, Head(stream) \notin {"space", ";", "quote"}, result' = result,
         func_with_args_' = Append(func_with_args_, Head(stream))
  PROVE  Reading /\ stream # <<>> /\ Consume /\ Kept1
<1> DEFINE c == Head(stream)
<1>1. Reading /\ Where = "out" /\ Read = func_with_args_
  BY LoopRead
<1>2. Reading' /\ Where' = "out" /\ Read' = func_with_args_'
  BY LoopReadNext
<1>3. LexStep("out", c) = "out"
  BY DEF LexStep
<1>4. ~EndsThere("out", c) /\ KeptThere("out", c)
  BY DEF EndsThere, KeptThere
<1>5. QED
  BY <1>1, <1>2, <1>3, <1>4 DEF Kept1

LEMMA OtherCharKeeps ==
  ASSUME TypeOK, TypeOK', OtherChar
  PROVE  Reading /\ stream # <<>> /\ Consume /\ Plain
<1> DEFINE c == Head(stream)
<1>1. /\ mode = "loop" /\ mode' = "loop" /\ stream # <<>> /\ Consume
      /\ func_with_args_' = func_with_args_ \o <<c>>
      /\ is_in_args => func_arg_as_str' = func_arg_as_str \o <<c>>
      /\ UNCHANGED <<result, is_in_args, func_args_vec_, func_name_unprocessed_>>
  BY DEF OtherChar, AppendText
<1>2. c \notin {"space", ";", "quote", "(", ",", ")"}
  BY CharAssumption DEF OtherChar, Special
<1>3. /\ func_with_args_ \o <<c>> = Append(func_with_args_, c)
      /\ func_arg_as_str \o <<c>> = Append(func_arg_as_str, c)
  <2>1. c \in Char
    BY <1>1, ConsumeType
  <2> HIDE DEF c
  <2>2. QED
    BY <2>1, AppendToConcat DEF TypeOK, Text
<1>4. Kept1
  BY <1>1, <1>2, <1>3, LoopKeeps
<1>5. \A d \in {"(", ",", ")"} : ~HeadIs(d)
  BY <1>2 DEF HeadIs
<1>6. is_in_args => ArgRead' = Append(ArgRead, c)
  BY <1>1, <1>3, LoopRead, LoopReadNext
<1>7. Reading
  BY <1>1, LoopRead
<1>8. QED
  BY <1>1, <1>4, <1>5, <1>6, <1>7 DEF Plain

LEMMA OpenParenKeeps ==
  ASSUME TypeOK, TypeOK', OpenParen
  PROVE  Reading /\ stream # <<>> /\ Consume /\ Kept1
BY LoopKeeps DEF OpenParen, Peek

LEMMA CloseParenKeeps ==
  ASSUME TypeOK, TypeOK', CloseParen
  PROVE  Reading /\ stream # <<>> /\ Consume /\ Kept1
BY LoopKeeps DEF CloseParen, PushArg, Peek

LEMMA CommaKeeps ==
  ASSUME TypeOK, TypeOK', Comma
  PROVE  Reading /\ stream # <<>> /\ Consume /\ Kept1
BY LoopKeeps DEF Comma, PushArg, Peek

LEMMA NextRead == TypeOK /\ ReadInv /\ [Next]_vars => ReadInv'
<1> SUFFICES ASSUME TypeOK, ReadInv, [Next]_vars PROVE ReadInv'
  OBVIOUS
<1>0. TypeOK'
  BY NextTypeOK
<1>1. CASE SkipSpace
  BY <1>1, SkipSpaceSkips, CharacterRead
<1>2. CASE BeginQuoted \/ ReadQuoted \/ EndQuoted \/ OtherChar
  <2>1. Reading /\ stream # <<>> /\ Consume /\ (Skipped \/ Plain)
    BY <1>0, <1>2, BeginQuotedKeeps, ReadQuotedKeeps, EndQuotedKeeps, OtherCharKeeps
  <2>2. Plain => Kept1
    BY DEF Plain
  <2>3. QED
    BY <2>1, <2>2, CharacterRead
<1>3. CASE OpenParen \/ CloseParen \/ Comma
  BY <1>0, <1>3, OpenParenKeeps, CloseParenKeeps, CommaKeeps, CharacterRead
<1>4. CASE UnterminatedQuote \/ PastEnd
  BY <1>4, EndRead DEF UnterminatedQuote, PastEnd, Reading
<1>5. CASE CommaAsserts
  BY <1>5 DEF CommaAsserts, ReadInv, Reading
<1>6. CASE UNCHANGED vars
  BY <1>6 DEF vars, ReadInv, Reading, Where, At, Read, Pending, Reported
<1>7. QED
  BY <1>1, <1>2, <1>3, <1>4, <1>5, <1>6, SemicolonRead DEF Next, Finished

LEMMA CallsAreCalls ==
  ASSUME NEW s
  PROVE  CallsBy(s, Len(s)) = Calls(s)
BY DEF CallsBy, Calls, Filled

\* split_to_funcs returns exactly the calls of the string it is given, in their
\* order and with their texts: for every string, of any length.
THEOREM FunctionsMatch == Spec => []FunctionsAreTheCalls
<1>1. Init => TypeOK /\ ReadInv
  BY InitTypeOK, InitRead
<1>2. TypeOK /\ ReadInv /\ [Next]_vars => (TypeOK /\ ReadInv)'
  BY NextTypeOK, NextRead
<1>3. TypeOK /\ ReadInv => FunctionsAreTheCalls
  BY CallsAreCalls DEF FunctionsAreTheCalls, ReadInv, Reported, Texts
<1>4. QED
  BY <1>1, <1>2, <1>3, PTL DEF Spec

-------------------------------------------------------------------------------
(* The arguments that the parser collects are those of the reference.      *)

\* The text that was cut into arg.
ArgText(arg) == IF arg.name_ = <<>> THEN arg.value_
                ELSE arg.name_ \o <<"=">> \o arg.value_

\* extract_func_arg loses nothing but the '=' between the two parts.
LEMMA ArgTextOfExtract ==
  ASSUME NEW a \in Text
  PROVE  ArgText(ExtractFuncArg(a)) = a
<1> DEFINE n == FirstAssign(a)
           C == Char \cup {Garbage}
<1>1. CASE Assigns(a) = {} \/ n = 1
  BY <1>1 DEF ExtractFuncArg, ArgText
<1>2. CASE Assigns(a) # {} /\ n # 1
  <2>1. n \in Assigns(a) /\ n \in 1..Len(a)
    BY <1>2, FirstAssignProps
  <2>2. a[n] = "=" /\ n \in 2..Len(a) /\ Len(a) \in Nat /\ a \in Seq(C)
    BY <1>2, <2>1 DEF Assigns, Text
  <2> DEFINE L == Len(a)
             e == a[n]
             front == SubSeq(a, 1, n - 1)
             back  == SubSeq(a, n + 1, L)
  <2>3. ExtractFuncArg(a) = [name_ |-> front, value_ |-> back]
    BY <1>2 DEF ExtractFuncArg
  <2> HIDE DEF n, C, L
  <2>4. /\ front \in Seq(C) /\ Len(front) = n - 1
        /\ back \in Seq(C) /\ e \in C
    <3>1. \A k \in 1..L : a[k] \in C
      BY <2>2 DEF L
    <3>2. \A k \in 1..(n - 1) : k \in 1..L
      BY <2>2 DEF L
    <3>3. \A k \in (n + 1)..L : k \in 1..L
      BY <2>2 DEF L
    <3>4. n \in 1..L /\ n - 1 \in Int /\ n + 1 \in Int /\ L \in Int /\ 1 \in Int
          /\ 1 <= n - 1 /\ (n - 1) - 1 + 1 = n - 1
      BY <2>2 DEF L
    <3>5. front \in Seq(C) /\ Len(front) = n - 1
      BY <3>1, <3>2, <3>4, SubSeqProperties
    <3>6. back \in Seq(C)
      BY <3>1, <3>3, <3>4, SubSeqProperties
    <3>7. QED
      BY <3>1, <3>4, <3>5, <3>6
  <2>5. front # <<>>
    BY <2>2, <2>4, EmptySeq
  <2>6. SubSeq(a, 1, n - 1) \o SubSeq(a, (n - 1) + 1, L) = SubSeq(a, 1, L)
    <3>1. 1 \in 1..(L + 1) /\ n - 1 \in 0..L /\ L \in (n - 1)..L
      BY <2>2 DEF L
    <3>2. 1 - 1 = 0
      OBVIOUS
    <3>3. QED
      BY <2>2, <3>1, <3>2, ConcatAdjacentSubSeq DEF L
  <2>7. SubSeq(a, n, L) = <<e>> \o back
    <3>1. n \in 1..L /\ L \in n..L
      BY <2>2 DEF L
    <3>2. QED
      BY <2>2, <3>1, SubSeqRecursiveFirst DEF L
  <2>8. SubSeq(a, 1, L) = a
    BY <2>2, SubSeqFull DEF L
  <2>9. (n - 1) + 1 = n
    BY <2>2
  <2>10. front \o (<<e>> \o back) = a
    BY <2>6, <2>7, <2>8, <2>9
  <2> HIDE DEF front, back, e
  <2>11. ArgText(ExtractFuncArg(a)) = front \o <<e>> \o back
    BY <2>2, <2>3, <2>5 DEF ArgText, e
  <2>12. <<e>> \in Seq(C)
    BY <2>4
  <2>13. (front \o <<e>>) \o back = front \o (<<e>> \o back)
    BY <2>4, <2>12, ConcatAssociative
  <2>14. QED
    BY <2>10, <2>11, <2>13
<1>3. QED
  BY <1>1, <1>2

\* The cut is at the first '='.
LEMMA CutOfExtract ==
  ASSUME NEW a \in Text
  PROVE  IsCut(ExtractFuncArg(a), ArgText(ExtractFuncArg(a)))
<1> DEFINE arg == ExtractFuncArg(a)
           n == FirstAssign(a)
<1>1. arg \in Argument /\ ArgText(arg) = a
  BY ExtractType, ArgTextOfExtract
<1>2. CASE arg.name_ # <<>>
  <2>1. arg.name_ \in Name
    BY <1>1 DEF Argument
  <2>2. \A k \in DOMAIN arg.name_ : arg.name_[k] # "="
    BY <2>1 DEF Name, Assigns, Text
  <2>3. QED
    BY <1>2, <2>2 DEF IsCut, ArgText
<1>3. CASE arg.name_ = <<>>
  <2>1. a \in Seq(Char \cup {Garbage}) /\ DOMAIN a = 1..Len(a) /\ Len(a) \in Nat
    BY DEF Text
  <2>2. arg.value_ = a
    BY <1>1, <1>3 DEF ArgText
  <2>3. CASE Assigns(a) = {}
    BY <1>1, <1>3, <2>1, <2>2, <2>3 DEF IsCut, Assigns
  <2>4. CASE Assigns(a) # {}
    <3>1. n \in Assigns(a) /\ n \in 1..Len(a)
      BY <2>4, FirstAssignProps DEF Assigns
    <3>2. CASE n = 1
      <4>1. a[1] = "="
        BY <3>1, <3>2 DEF Assigns
      <4>2. QED
        BY <1>1, <1>3, <2>2, <4>1 DEF IsCut
    <3>3. CASE n # 1
      <4>1. arg.name_ = SubSeq(a, 1, n - 1)
        BY <2>4, <3>3 DEF ExtractFuncArg
      <4>2. Len(arg.name_) = n - 1
        BY <2>1, <3>1, <3>3, <4>1
      <4>3. QED
        BY <1>3, <3>1, <3>3, <2>1, <4>2
    <3>4. QED
      BY <3>2, <3>3
  <2>5. QED
    BY <2>3, <2>4
<1>4. QED
  BY <1>2, <1>3

\* Every argument in the list is a text cut at its first '='.
AllCut(vec) == \A k \in DOMAIN vec : IsCut(vec[k], ArgText(vec[k]))

LEMMA AllCutAppend ==
  ASSUME NEW vec \in Seq(Argument), NEW arg \in Argument, AllCut(vec),
         IsCut(arg, ArgText(arg))
  PROVE  AllCut(Append(vec, arg))
<1>1. /\ DOMAIN Append(vec, arg) = 1..(Len(vec) + 1) /\ Len(vec) \in Nat
      /\ DOMAIN vec = 1..Len(vec)
      /\ \A k \in 1..Len(vec) : Append(vec, arg)[k] = vec[k]
      /\ Append(vec, arg)[Len(vec) + 1] = arg
  BY AppendProperties, LenProperties
<1>2. ASSUME NEW k \in 1..(Len(vec) + 1)
      PROVE  IsCut(Append(vec, arg)[k], ArgText(Append(vec, arg)[k]))
  <2>1. CASE k = Len(vec) + 1
    BY <1>1, <2>1
  <2>2. CASE k # Len(vec) + 1
    <3>1. k \in 1..Len(vec)
      BY <1>1, <2>2
    <3>2. QED
      BY <1>1, <3>1 DEF AllCut
  <2>3. QED
    BY <2>1, <2>2
<1>3. QED
  BY <1>1, <1>2 DEF AllCut

LEMMA InitCut == Init => AllCut(func_args_vec_)
BY DEF Init, AllCut

LEMMA PushArgCut ==
  ASSUME TypeOK, AllCut(func_args_vec_), NEW c, PushArg(c)
  PROVE  AllCut(func_args_vec_')
<1>1. func_arg_as_str \in Text /\ func_args_vec_ \in Seq(Argument)
  BY DEF TypeOK
<1>2. /\ ExtractFuncArg(func_arg_as_str) \in Argument
      /\ IsCut(ExtractFuncArg(func_arg_as_str), ArgText(ExtractFuncArg(func_arg_as_str)))
  BY <1>1, ExtractType, CutOfExtract
<1>3. func_args_vec_' = Append(func_args_vec_, ExtractFuncArg(func_arg_as_str))
  BY DEF PushArg
<1>4. QED
  BY <1>1, <1>2, <1>3, AllCutAppend

LEMMA NextCut == TypeOK /\ AllCut(func_args_vec_) /\ [Next]_vars => AllCut(func_args_vec_')
<1> SUFFICES ASSUME TypeOK, AllCut(func_args_vec_), [Next]_vars
             PROVE  AllCut(func_args_vec_')
  OBVIOUS
<1>1. CASE CloseParen \/ Comma
  BY <1>1, PushArgCut DEF CloseParen, Comma
<1>2. CASE Semicolon
  <2>1. func_args_vec_' = func_args_vec_ \/ func_args_vec_' = <<>>
    BY <1>2 DEF Semicolon, ResetFunc, accumulators
  <2>2. QED
    BY <2>1 DEF AllCut
<1>3. CASE ~(CloseParen \/ Comma \/ Semicolon)
  <2>1. func_args_vec_' = func_args_vec_
    BY <1>3 DEF Next, SkipSpace, BeginQuoted, ReadQuoted, EndQuoted, UnterminatedQuote,
       OpenParen, CommaAsserts, OtherChar, PastEnd, Finished, AppendText, accumulators, vars
  <2>2. QED
    BY <2>1
<1>4. QED
  BY <1>1, <1>2, <1>3

\* The texts of the arguments in the list.
Given(vec) == [k \in DOMAIN vec |-> ArgText(vec[k])]

LEMMA ArgTextType ==
  ASSUME NEW arg \in Argument
  PROVE  ArgText(arg) \in Text
<1> DEFINE C == Char \cup {Garbage}
<1>1. arg.name_ \in Seq(C) /\ arg.value_ \in Seq(C)
  BY DEF Argument, Name, Text
<1>2. "=" \in C
  BY SpecialAreChars DEF Special
<1>3. <<"=">> \in Seq(C)
  BY <1>2
<1> HIDE DEF C
<1>4. arg.name_ \o <<"=">> \o arg.value_ \in Seq(C)
  BY <1>1, <1>3, ConcatProperties
<1>5. QED
  BY <1>1, <1>4 DEF ArgText, Text, C

LEMMA GivenAppend ==
  ASSUME NEW vec \in Seq(Argument), NEW arg \in Argument
  PROVE  Given(Append(vec, arg)) = Append(Given(vec), ArgText(arg))
<1> DEFINE m == Len(vec)
           new == Append(vec, arg)
           old == [k \in 1..m |-> ArgText(vec[k])]
           T(k) == ArgText(new[k])
           t == ArgText(arg)
<1>1. /\ m \in Nat /\ DOMAIN vec = 1..m
      /\ DOMAIN new = 1..(m + 1)
      /\ \A k \in 1..m : new[k] = vec[k] /\ vec[k] \in Argument
      /\ new[m + 1] = arg
  BY AppendProperties, LenProperties
<1> HIDE DEF m, new
<1>2. Given(vec) = old /\ Given(new) = [k \in 1..(m + 1) |-> T(k)]
  BY <1>1 DEF Given
<1>3. t \in Text /\ \A k \in 1..m : ArgText(vec[k]) \in Text
  BY <1>1, ArgTextType
<1> HIDE DEF t
<1>4. /\ old \in Seq(Text) /\ Len(old) = m
      /\ \A k \in 1..m : old[k] = ArgText(vec[k])
  BY <1>1, <1>3
<1> HIDE DEF old
<1>5. /\ Append(old, t) \in Seq(Text) /\ Len(Append(old, t)) = m + 1
      /\ \A k \in 1..m : Append(old, t)[k] = old[k]
      /\ Append(old, t)[m + 1] = t
  BY <1>3, <1>4, AppendProperties
<1>6. ASSUME NEW k \in 1..(m + 1) PROVE T(k) = Append(old, t)[k] /\ T(k) \in Text
  <2>1. k = m + 1 \/ k \in 1..m
    BY <1>1
  <2>2. CASE k = m + 1
    BY <1>1, <1>3, <1>5, <2>2 DEF t
  <2>3. CASE k \in 1..m
    BY <1>1, <1>3, <1>4, <1>5, <2>3
  <2>4. QED
    BY <2>1, <2>2, <2>3
<1> DEFINE z == [k \in 1..(m + 1) |-> T(k)]
<1> HIDE DEF T
<1>7. z \in Seq(Text) /\ Len(z) = m + 1 /\ \A k \in 1..(m + 1) : z[k] = T(k)
  BY <1>1, <1>6
<1> HIDE DEF z
<1>8. z = Append(old, t)
  BY <1>5, <1>6, <1>7, SeqEqual
<1>9. QED
  BY <1>2, <1>8 DEF new, z, t

\* What the parser has collected is what the call has of a well-formed one.
Collected(s, call, inArgs, vec, name, arg) ==
  /\ Bare(s, call) => vec = <<>> /\ name = <<>>
  /\ Inside(s, call) =>
       /\ inArgs
       /\ name = NameText(s, call)
       /\ Given(vec) = ArgTexts(s, call)
       /\ arg = LastText(s, call)
  /\ WellFormed(s, call) =>
       /\ name = NameText(s, call)
       /\ Given(vec) = ArgTexts(s, call)

AllFit(s, calls, funcs) ==
  \A i \in DOMAIN calls : WellFormed(s, calls[i]) => Fits(s, calls[i], funcs[i])

\* Between two characters the arguments read of the open call are right, whatever
\* the calls before it were, and so are the functions reported.
ArgsInv ==
  LET s == Ended(inStr)
  IN  /\ Reading =>
           /\ Collected(s, OpenCall(s, At), is_in_args, func_args_vec_,
                        func_name_unprocessed_, ArgRead)
           /\ AllFit(s, CallsBy(s, At), result)
      /\ mode = "returned" => AllFit(s, CallsBy(s, Len(s)), result)

LEMMA NothingIsBare ==
  ASSUME NEW s
  PROVE  /\ Bare(s, <<>>) /\ ~Inside(s, <<>>) /\ ~WellFormed(s, <<>>)
<1>1. DOMAIN <<>> = {}
  OBVIOUS
<1>2. \A c : Places(s, <<>>, c) = {}
  BY <1>1 DEF Places
<1>3. QED
  BY <1>1, <1>2 DEF Bare, Inside, WellFormed

LEMMA InitArgs == Init => ArgsInv
<1> SUFFICES ASSUME Init PROVE ArgsInv
  OBVIOUS
<1> DEFINE s == Ended(inStr)
<1>1. At = 0
  <2>1. TypeOK
    BY InitTypeOK
  <2>2. Len(s) \in Nat
    BY <2>1, EndedType
  <2>3. stream = s
    <3> DEFINE c == ";"
    <3>1. inStr \in Seq(Char)
      BY <2>1, CharAssumption DEF TypeOK
    <3> HIDE DEF c
    <3>2. Append(inStr, c) = inStr \o <<c>>
      BY <3>1
    <3>3. QED
      BY <3>2 DEF Init, Closed, Ended, c
  <2>4. QED
    BY <2>2, <2>3 DEF At
<1>2. OpenCall(s, 0) = <<>> /\ CallsBy(s, 0) = <<>>
  BY NothingRead
<1>3. Collected(s, <<>>, is_in_args, func_args_vec_, func_name_unprocessed_, ArgRead)
  BY NothingIsBare DEF Collected, Init
<1>4. DOMAIN <<>> = {}
  OBVIOUS
<1>5. AllFit(s, <<>>, result)
  BY <1>4 DEF AllFit
<1>6. mode # "returned"
  BY DEF Init
<1> HIDE DEF s
<1>7. QED
  BY <1>1, <1>2, <1>3, <1>5, <1>6 DEF ArgsInv, s

\* Only the open call changes with a character that ends nothing.
LEMMA CharacterArgs ==
  ASSUME TypeOK, ReadInv, ArgsInv, Reading, stream # <<>>, Consume,
         ~EndsThere(Where, Head(stream)), Reading', result' = result,
         LET s == Ended(inStr)
         IN  Collected(s, OpenCall(s, At), is_in_args, func_args_vec_,
                       func_name_unprocessed_, ArgRead)
               => Collected(s, OpenCall(s, At + 1), is_in_args', func_args_vec_',
                            func_name_unprocessed_', ArgRead')
  PROVE  ArgsInv'
<1> DEFINE s == Ended(inStr)
<1>1. At' = At + 1 /\ Ended(inStr') = s /\ CallsBy(s, At + 1) = CallsBy(s, At)
  BY NextInCall
<1>2. mode' # "returned"
  BY DEF Reading
<1>3. /\ Collected(s, OpenCall(s, At), is_in_args, func_args_vec_,
                   func_name_unprocessed_, ArgRead)
      /\ AllFit(s, CallsBy(s, At), result)
  BY DEF ArgsInv
<1>4. Collected(s, OpenCall(s, At + 1), is_in_args', func_args_vec_',
                func_name_unprocessed_', ArgRead')
  BY <1>1, <1>3
<1>5. AllFit(s, CallsBy(s, At + 1), result')
  BY <1>1, <1>3
<1> HIDE DEF s
<1>6. QED
  BY <1>1, <1>2, <1>4, <1>5 DEF ArgsInv

LEMMA SkippedArgs ==
  ASSUME TypeOK, ReadInv, ArgsInv, Reading, stream # <<>>, Consume, Skipped
  PROVE  ArgsInv'
<1>1. OpenCall(Ended(inStr), At + 1) = OpenCall(Ended(inStr), At)
  BY NextInCall DEF Skipped
<1>2. QED
  BY <1>1, CharacterArgs DEF Skipped

LEMMA PlainArgs ==
  ASSUME TypeOK, ReadInv, ArgsInv, Reading, stream # <<>>, Consume, Plain
  PROVE  ArgsInv'
<1> DEFINE s == Ended(inStr)
           call == OpenCall(s, At)
           p == At + 1
           new == Append(call, p)
           x == Head(stream)
<1>1. ~EndsThere(Where, x) /\ KeptThere(Where, x) /\ Reading' /\ result' = result
  BY DEF Plain, Kept1
<1>2. /\ s \in Seq(Char) /\ Len(s) \in Nat /\ p \in 1..Len(s) /\ s[p] = x
      /\ call \in Seq(1..Len(s)) /\ OpenCall(s, p) = new
      /\ \A c : Stands(s, p, c) <=> HeadIs(c)
  BY <1>1, NextInCall
<1>3. ~Marked(s, p)
  BY <1>2 DEF Marked, Plain
<1>4. is_in_args => ArgRead' = Append(ArgRead, x)
  BY DEF Plain
<1>5. UNCHANGED <<is_in_args, func_args_vec_, func_name_unprocessed_>>
  BY DEF Plain
<1> HIDE DEF s, call, new, p, x
<1>6. ASSUME Collected(s, call, is_in_args, func_args_vec_,
                       func_name_unprocessed_, ArgRead)
      PROVE  Collected(s, new, is_in_args', func_args_vec_',
                       func_name_unprocessed_', ArgRead')
  <2>1. ASSUME Bare(s, new) PROVE Bare(s, call)
    BY <1>2, <2>1, BareBefore DEF new
  <2>2. ~WellFormed(s, new)
    <3>1. ASSUME WellFormed(s, new) PROVE Stands(s, p, ")")
      BY <1>2, <3>1, WellFormedBefore DEF new
    <3>2. QED
      BY <1>3, <3>1 DEF Marked
  <2>3. ASSUME Inside(s, new)
        PROVE  /\ Inside(s, call)
               /\ NameText(s, new) = NameText(s, call)
               /\ ArgTexts(s, new) = ArgTexts(s, call)
               /\ LastText(s, new) = Append(LastText(s, call), x)
    <3>1. Inside(s, call) /\ Places(s, new, "(") = Places(s, call, "(")
      BY <1>2, <1>3, <2>3, InsideBefore DEF new, Marked
    <3>2. Cuts(s, call) # {}
      BY <3>1, BareFacts
    <3>3. /\ ArgTexts(s, new) = ArgTexts(s, call)
          /\ LastText(s, new) = Append(LastText(s, call), x)
      BY <1>2, <1>3, <3>2, ArgTextsPlain DEF new
    <3>4. NameText(s, new) = NameText(s, call)
      BY <1>2, <3>1, NameTextSame DEF new
    <3>5. QED
      BY <3>1, <3>3, <3>4
  <2>4. QED
    BY <1>4, <1>5, <1>6, <2>1, <2>2, <2>3 DEF Collected
<1>7. QED
  BY <1>1, <1>2, <1>6, CharacterArgs DEF s, call, p, x

\* A "(" begins the list of arguments: what was read before is the name.
LEMMA OpenParenArgs ==
  ASSUME TypeOK, TypeOK', ReadInv, ArgsInv, OpenParen
  PROVE  ArgsInv'
<1> DEFINE s == Ended(inStr)
           call == OpenCall(s, At)
           p == At + 1
           new == Append(call, p)
<1>1. /\ mode = "loop" /\ mode' = "loop" /\ stream # <<>> /\ Consume
      /\ Head(stream) = "(" /\ is_in_args' = TRUE
      /\ func_name_unprocessed_' = func_with_args_ /\ func_arg_as_str' = <<>>
      /\ func_args_vec_' = func_args_vec_
  BY DEF OpenParen, Peek
<1>2. /\ Reading /\ Where = "out" /\ ~EndsThere(Where, Head(stream))
      /\ KeptThere(Where, Head(stream)) /\ Reading' /\ result' = result
  BY <1>1, LoopRead, OpenParenKeeps DEF Kept1
<1>3. Read = func_with_args_ /\ ArgRead' = <<>>
  BY <1>1, LoopRead, LoopReadNext
<1>4. /\ s \in Seq(Char) /\ Len(s) \in Nat /\ p \in 1..Len(s)
      /\ call \in Seq(1..Len(s)) /\ OpenCall(s, p) = new /\ Read = TextOf(s, call)
      /\ \A c : Stands(s, p, c) <=> HeadIs(c)
  BY <1>1, <1>2, NextInCall
<1> HIDE DEF s, call, new, p
<1>5. Stands(s, p, "(") /\ ~Stands(s, p, ")") /\ Marked(s, p)
  <2>1. HeadIs("(") /\ ~HeadIs(")")
    BY <1>1, <1>2 DEF HeadIs
  <2>2. Stands(s, p, "(") /\ ~Stands(s, p, ")")
    BY <1>4, <2>1
  <2>3. QED
    BY <2>2 DEF Marked
<1>6. ~Bare(s, new) /\ ~WellFormed(s, new)
  BY <1>4, <1>5, BareBefore, WellFormedBefore DEF new
<1>7. ASSUME Inside(s, new)
      PROVE  /\ Bare(s, call) /\ NameText(s, new) = TextOf(s, call)
             /\ ArgTexts(s, new) = <<>> /\ LastText(s, new) = <<>>
  <2>1. Bare(s, call) /\ Places(s, new, "(") = {Len(call) + 1}
    BY <1>4, <1>5, <1>7, InsideBefore DEF new
  <2>2. Cuts(s, call) = {}
    BY <2>1, BareFacts
  <2>3. ArgTexts(s, new) = <<>> /\ LastText(s, new) = <<>>
    BY <1>4, <1>5, <2>2, ArgTextsCut DEF new
  <2>4. NameText(s, new) = TextOf(s, call)
    BY <1>4, <2>1, NameTextOpens DEF new
  <2>5. QED
    BY <2>1, <2>3, <2>4
<1>8. Given(<<>>) = <<>>
  BY DEF Given
<1>9. ASSUME Collected(s, call, is_in_args, func_args_vec_,
                       func_name_unprocessed_, ArgRead)
      PROVE  Collected(s, new, is_in_args', func_args_vec_',
                       func_name_unprocessed_', ArgRead')
  BY <1>1, <1>3, <1>4, <1>6, <1>7, <1>8, <1>9 DEF Collected
<1>10. QED
  BY <1>1, <1>2, <1>4, <1>9, CharacterArgs DEF s, call, p

\* A "," or a ")" adds the last text to the arguments.
LEMMA PushedArg ==
  ASSUME TypeOK, TypeOK', mode = "loop", NEW c, PushArg(c)
  PROVE  /\ mode' = "loop" /\ Consume /\ result' = result
         /\ Given(func_args_vec_') = Append(Given(func_args_vec_), ArgRead)
         /\ func_name_unprocessed_' = func_name_unprocessed_
         /\ ArgRead' = <<>>
<1> DEFINE arg == ExtractFuncArg(func_arg_as_str)
<1>1. /\ mode' = "loop" /\ Consume /\ result' = result
      /\ func_args_vec_' = Append(func_args_vec_, arg)
      /\ func_arg_as_str' = <<>>
      /\ func_name_unprocessed_' = func_name_unprocessed_
  BY DEF PushArg
<1>2. func_arg_as_str \in Text /\ func_args_vec_ \in Seq(Argument)
  BY DEF TypeOK
<1>3. arg \in Argument /\ ArgText(arg) = func_arg_as_str
  BY <1>2, ExtractType, ArgTextOfExtract
<1>4. ArgRead = func_arg_as_str /\ ArgRead' = func_arg_as_str'
  BY <1>1, LoopRead, LoopReadNext
<1> HIDE DEF arg
<1>5. Given(func_args_vec_') = Append(Given(func_args_vec_), ArgRead)
  BY <1>1, <1>2, <1>3, <1>4, GivenAppend
<1>6. QED
  BY <1>1, <1>4, <1>5

LEMMA CommaArgs ==
  ASSUME TypeOK, TypeOK', ReadInv, ArgsInv, Comma
  PROVE  ArgsInv'
<1> DEFINE s == Ended(inStr)
           call == OpenCall(s, At)
           p == At + 1
           new == Append(call, p)
<1>1. /\ mode = "loop" /\ stream # <<>> /\ Head(stream) = ","
      /\ is_in_args' = is_in_args /\ PushArg(",")
  BY DEF Comma, Peek
<1>2. /\ Consume /\ result' = result
      /\ Given(func_args_vec_') = Append(Given(func_args_vec_), ArgRead)
      /\ func_name_unprocessed_' = func_name_unprocessed_
      /\ ArgRead' = <<>>
  BY <1>1, PushedArg
<1>3. /\ Reading /\ Where = "out" /\ ~EndsThere(Where, Head(stream))
      /\ KeptThere(Where, Head(stream)) /\ Reading'
  BY <1>1, LoopRead, CommaKeeps DEF Kept1
<1>4. /\ s \in Seq(Char) /\ Len(s) \in Nat /\ p \in 1..Len(s)
      /\ call \in Seq(1..Len(s)) /\ OpenCall(s, p) = new
      /\ \A c : Stands(s, p, c) <=> HeadIs(c)
  BY <1>1, <1>2, <1>3, NextInCall
<1> HIDE DEF s, call, new, p
<1>5. ~Stands(s, p, "(") /\ ~Stands(s, p, ")") /\ Marked(s, p)
  <2>1. HeadIs(",") /\ ~HeadIs("(") /\ ~HeadIs(")")
    BY <1>1, <1>3 DEF HeadIs
  <2>2. Stands(s, p, ",") /\ ~Stands(s, p, "(") /\ ~Stands(s, p, ")")
    BY <1>4, <2>1
  <2>3. QED
    BY <2>2 DEF Marked
<1>6. ~Bare(s, new) /\ ~WellFormed(s, new)
  BY <1>4, <1>5, BareBefore, WellFormedBefore DEF new
<1>7. ASSUME Inside(s, new)
      PROVE  /\ Inside(s, call) /\ NameText(s, new) = NameText(s, call)
             /\ ArgTexts(s, new) = Append(ArgTexts(s, call), LastText(s, call))
             /\ LastText(s, new) = <<>>
  <2>1. Inside(s, call) /\ Places(s, new, "(") = Places(s, call, "(")
    BY <1>4, <1>5, <1>7, InsideBefore DEF new
  <2>2. Cuts(s, call) # {}
    BY <2>1, BareFacts
  <2>3. /\ ArgTexts(s, new) = Append(ArgTexts(s, call), LastText(s, call))
        /\ LastText(s, new) = <<>>
    BY <1>4, <1>5, <2>2, ArgTextsCut DEF new
  <2>4. NameText(s, new) = NameText(s, call)
    BY <1>4, <2>1, NameTextSame DEF new
  <2>5. QED
    BY <2>1, <2>3, <2>4
<1>8. ASSUME Collected(s, call, is_in_args, func_args_vec_,
                       func_name_unprocessed_, ArgRead)
      PROVE  Collected(s, new, is_in_args', func_args_vec_',
                       func_name_unprocessed_', ArgRead')
  BY <1>1, <1>2, <1>6, <1>7, <1>8 DEF Collected
<1>9. QED
  BY <1>1, <1>2, <1>3, <1>4, <1>8, CharacterArgs DEF s, call, p

LEMMA CloseParenArgs ==
  ASSUME TypeOK, TypeOK', ReadInv, ArgsInv, CloseParen
  PROVE  ArgsInv'
<1> DEFINE s == Ended(inStr)
           call == OpenCall(s, At)
           p == At + 1
           new == Append(call, p)
<1>1. /\ mode = "loop" /\ stream # <<>> /\ Head(stream) = ")"
      /\ is_in_args' = FALSE /\ PushArg(")")
  BY DEF CloseParen, Peek
<1>2. /\ Consume /\ result' = result
      /\ Given(func_args_vec_') = Append(Given(func_args_vec_), ArgRead)
      /\ func_name_unprocessed_' = func_name_unprocessed_
  BY <1>1, PushedArg
<1>3. /\ Reading /\ Where = "out" /\ ~EndsThere(Where, Head(stream))
      /\ KeptThere(Where, Head(stream)) /\ Reading'
  BY <1>1, LoopRead, CloseParenKeeps DEF Kept1
<1>4. /\ s \in Seq(Char) /\ Len(s) \in Nat /\ p \in 1..Len(s)
      /\ call \in Seq(1..Len(s)) /\ OpenCall(s, p) = new
      /\ \A c : Stands(s, p, c) <=> HeadIs(c)
  BY <1>1, <1>2, <1>3, NextInCall
<1> HIDE DEF s, call, new, p
<1>5. Stands(s, p, ")") /\ Marked(s, p)
  <2>1. HeadIs(")")
    BY <1>1, <1>3 DEF HeadIs
  <2>2. Stands(s, p, ")")
    BY <1>4, <2>1
  <2>3. QED
    BY <2>2 DEF Marked
<1>6. ~Bare(s, new) /\ ~Inside(s, new)
  BY <1>4, <1>5, BareBefore, InsideBefore DEF new
<1>7. ASSUME WellFormed(s, new)
      PROVE  /\ Inside(s, call) /\ NameText(s, new) = NameText(s, call)
             /\ ArgTexts(s, new) = Append(ArgTexts(s, call), LastText(s, call))
  <2>1. Inside(s, call) /\ Places(s, new, "(") = Places(s, call, "(")
    BY <1>4, <1>7, WellFormedBefore DEF new
  <2>2. Cuts(s, call) # {}
    BY <2>1, BareFacts
  <2>3. ArgTexts(s, new) = Append(ArgTexts(s, call), LastText(s, call))
    BY <1>4, <1>5, <2>2, ArgTextsCut DEF new
  <2>4. NameText(s, new) = NameText(s, call)
    BY <1>4, <2>1, NameTextSame DEF new
  <2>5. QED
    BY <2>1, <2>3, <2>4
<1>8. ASSUME Collected(s, call, is_in_args, func_args_vec_,
                       func_name_unprocessed_, ArgRead)
      PROVE  Collected(s, new, is_in_args', func_args_vec_',
                       func_name_unprocessed_', ArgRead')
  BY <1>1, <1>2, <1>6, <1>7, <1>8 DEF Collected
<1>9. QED
  BY <1>1, <1>2, <1>3, <1>4, <1>8, CharacterArgs DEF s, call, p

\* One more function for one more call.
LEMMA FitsAppend ==
  ASSUME NEW s, NEW S, NEW calls \in Seq(S), NEW call \in S,
         NEW funcs, IsList(funcs), NEW func, DOMAIN funcs = DOMAIN calls,
         AllFit(s, calls, funcs),
         WellFormed(s, call) => Fits(s, call, func)
  PROVE  AllFit(s, Append(calls, call), Append(funcs, func))
<1> DEFINE m == Len(calls)
           new == Append(calls, call)
           more == Append(funcs, func)
<1>1. /\ m \in Nat /\ DOMAIN calls = 1..m
      /\ DOMAIN new = 1..(m + 1)
      /\ \A k \in 1..m : new[k] = calls[k]
      /\ new[m + 1] = call
  BY AppendProperties, LenProperties
<1>2. /\ DOMAIN funcs = 1..m
      /\ \A k \in 1..m : more[k] = funcs[k]
      /\ more[m + 1] = func
  <2>1. Len(funcs) = m
    <3>1. DOMAIN funcs = 1..Len(funcs) /\ Len(funcs) \in Nat
      BY AppendResult
    <3>2. QED
      BY <1>1, <3>1
  <2>2. QED
    BY <1>1, <2>1, AppendResult
<1> HIDE DEF m, new, more
<1>3. ASSUME NEW i \in 1..(m + 1), WellFormed(s, new[i]) PROVE Fits(s, new[i], more[i])
  <2>1. CASE i = m + 1
    BY <1>1, <1>2, <1>3, <2>1
  <2>2. CASE i \in 1..m
    BY <1>1, <1>2, <1>3, <2>2 DEF AllFit
  <2>3. QED
    BY <1>1, <2>1, <2>2
<1>4. QED
  BY <1>1, <1>3 DEF AllFit, new, more

\* A ";" outside the strings: the accumulators become the next function.
LEMMA SemicolonArgs ==
  ASSUME TypeOK, TypeOK', ReadInv, ArgsInv, AllCut(func_args_vec_), Semicolon
  PROVE  ArgsInv'
<1> DEFINE s == Ended(inStr)
           i == At
           call == OpenCall(s, i)
           C == CallsBy(s, i)
<1>1. /\ s \in Seq(Char) /\ i \in Nat /\ Ended(inStr') = s /\ At' = i + 1
      /\ call \in Seq(1..Len(s))
      /\ Read = TextOf(s, call) /\ func_with_args_ = Read
      /\ OpenCall(s, i + 1) = <<>>
      /\ CallsBy(s, i + 1) = IF func_with_args_ = <<>> THEN C ELSE Append(C, call)
  BY NextEndsCall
<1>2. mode = "loop" /\ mode' = "loop" /\ Reading /\ Reading' /\ mode' # "returned"
  BY DEF Semicolon, Peek, Reading
<1>3. /\ Collected(s, call, is_in_args, func_args_vec_, func_name_unprocessed_, ArgRead)
      /\ AllFit(s, C, result)
  BY <1>2 DEF ArgsInv
<1>4. Bare(s, <<>>) /\ ~Inside(s, <<>>) /\ ~WellFormed(s, <<>>)
  BY NothingIsBare
<1>5. DOMAIN result = DOMAIN C
  <2>1. Reported = Texts(s, C)
    BY <1>2 DEF ReadInv
  <2>2. DOMAIN Reported = DOMAIN result /\ DOMAIN Texts(s, C) = DOMAIN C
    BY DEF Reported, Texts
  <2>3. QED
    BY <2>1, <2>2
<1>6. C \in Seq(Seq(1..Len(s)))
  BY <1>1, CallsByType
<1> DEFINE D == CallsBy(s, i + 1)
<1>7. /\ Collected(s, <<>>, is_in_args', func_args_vec_', func_name_unprocessed_', ArgRead')
      /\ AllFit(s, D, result')
  <2>1. CASE func_with_args_ = <<>>
    <3>1. UNCHANGED <<is_in_args, func_args_vec_, func_name_unprocessed_, result>>
      BY <2>1 DEF Semicolon, accumulators
    <3>2. call = <<>>
      <4>1. Len(TextOf(s, call)) = Len(call)
        BY <1>1, TextOfType
      <4>2. QED
        BY <1>1, <2>1, <4>1, EmptySeq
    <3>3. D = C
      BY <1>1, <2>1
    <3> HIDE DEF s, i, call, C, D
    <3>4. QED
      BY <1>3, <1>4, <3>1, <3>2, <3>3 DEF Collected
  <2>2. CASE func_with_args_ # <<>>
    <3>1. /\ result' = Append(result, ParsedFunc)
          /\ func_name_unprocessed_' = <<>> /\ func_args_vec_' = <<>>
          /\ is_in_args' = is_in_args
      BY <2>2 DEF Semicolon, ResetFunc
    <3>2. D = Append(C, call)
      BY <1>1, <2>2
    <3> HIDE DEF s, i, call, C, D
    <3>3. ASSUME WellFormed(s, call) PROVE Fits(s, call, ParsedFunc)
      <4>1. func_name_unprocessed_ = NameText(s, call) /\ Given(func_args_vec_) = ArgTexts(s, call)
        BY <1>3, <3>3 DEF Collected
      <4>2. /\ ParsedFunc.as_vec_ = func_args_vec_
            /\ ParsedFunc.func_name_ = IF func_name_unprocessed_ = <<>> THEN func_with_args_
                                                                      ELSE func_name_unprocessed_
        BY DEF ParsedFunc
      <4>3. func_with_args_ = TextOf(s, call)
        BY <1>1
      <4>4. /\ DOMAIN func_args_vec_ = DOMAIN ArgTexts(s, call)
            /\ \A k \in DOMAIN func_args_vec_ : ArgText(func_args_vec_[k]) = ArgTexts(s, call)[k]
        BY <4>1 DEF Given
      <4>5. \A k \in DOMAIN func_args_vec_ : IsCut(func_args_vec_[k], ArgTexts(s, call)[k])
        BY <4>4 DEF AllCut
      <4>6. QED
        BY <4>1, <4>2, <4>3, <4>4, <4>5 DEF Fits
    <3>4. AllFit(s, D, result')
      <4>1. IsList(result)
        BY DEF TypeOK
      <4>2. QED
        BY <1>1, <1>3, <1>5, <1>6, <3>1, <3>2, <3>3, <4>1, FitsAppend
    <3>5. QED
      BY <1>4, <3>1, <3>4 DEF Collected
  <2>3. QED
    BY <2>1, <2>2
<1> HIDE DEF s, i, call, C
<1>8. QED
  BY <1>1, <1>2, <1>7 DEF ArgsInv

LEMMA EndArgs ==
  ASSUME TypeOK, ArgsInv, Reading, stream = <<>>, UNCHANGED <<inStr, result>>,
         mode' = "returned"
  PROVE  ArgsInv'
<1>1. At = Len(Ended(inStr))
  BY EndedType DEF At
<1>2. AllFit(Ended(inStr), CallsBy(Ended(inStr), Len(Ended(inStr))), result)
  BY <1>1 DEF ArgsInv
<1>3. Ended(inStr') = Ended(inStr) /\ result' = result /\ ~Reading'
  BY DEF Reading
<1>4. QED
  BY <1>2, <1>3 DEF ArgsInv

LEMMA NextArgs ==
  TypeOK /\ ReadInv /\ ArgsInv /\ AllCut(func_args_vec_) /\ [Next]_vars => ArgsInv'
<1> SUFFICES ASSUME TypeOK, ReadInv, ArgsInv, AllCut(func_args_vec_), [Next]_vars
             PROVE  ArgsInv'
  OBVIOUS
<1>0. TypeOK'
  BY NextTypeOK
<1>1. CASE SkipSpace
  BY <1>1, SkipSpaceSkips, SkippedArgs
<1>2. CASE BeginQuoted \/ ReadQuoted \/ EndQuoted \/ OtherChar
  <2>1. Reading /\ stream # <<>> /\ Consume /\ (Skipped \/ Plain)
    BY <1>0, <1>2, BeginQuotedKeeps, ReadQuotedKeeps, EndQuotedKeeps, OtherCharKeeps
  <2>2. QED
    BY <2>1, SkippedArgs, PlainArgs
<1>3. CASE OpenParen \/ CloseParen \/ Comma
  BY <1>0, <1>3, OpenParenArgs, CloseParenArgs, CommaArgs
<1>4. CASE UnterminatedQuote \/ PastEnd
  BY <1>4, EndArgs DEF UnterminatedQuote, PastEnd, Reading
<1>5. CASE CommaAsserts
  BY <1>5 DEF CommaAsserts, ArgsInv, Reading
<1>6. CASE UNCHANGED vars
  BY <1>6 DEF vars, ArgsInv, Reading, At, ArgRead, Pending
<1>7. QED
  BY <1>0, <1>1, <1>2, <1>3, <1>4, <1>5, <1>6, SemicolonArgs DEF Next, Finished

\* The name of every well-formed call is the text before its parenthesis and its
\* arguments are the texts between the commas, each cut at its first '=', whatever
\* the calls before it left behind: for every string, of any length.
THEOREM ArgumentsMatch == Spec => []ArgumentsAreTheCalls
<1> DEFINE Inv == TypeOK /\ ReadInv /\ ArgsInv /\ AllCut(func_args_vec_)
<1>1. Init => Inv
  BY InitTypeOK, InitRead, InitArgs, InitCut
<1>2. Inv /\ [Next]_vars => Inv'
  BY NextTypeOK, NextRead, NextArgs, NextCut
<1>3. Inv => ArgumentsAreTheCalls
  BY CallsAreCalls DEF ArgumentsAreTheCalls, ArgsInv, AllFit
<1>4. QED
  BY <1>1, <1>2, <1>3, PTL DEF Spec
===============================================================================
