------------------------------ MODULE FuncParser ------------------------------
(***************************************************************************)
(* split_to_funcs and extract_func_arg (src/funcParser.cpp): the parser of *)
(* the text of an annotation, a list of calls such as  f(a=1, b); g;       *)
(*                                                                         *)
(* The code reads a std::stringstream that holds the input followed by a   *)
(* closing ';'.  One turn of its loop is one action here; the two library  *)
(* calls that read more than one character (std::ws and std::quoted) take  *)
(* one action per character.  Only one thread runs, so the finer steps     *)
(* are not observable.                                                     *)
(***************************************************************************)
EXTENDS Integers, Sequences

CONSTANTS
  Letter,        \* the characters that mean nothing to the parser
  Inputs,        \* the strings split_to_funcs is called with
  Garbage,       \* the value of a char that is read before it is assigned
  CheckAsserts   \* TRUE for a build where assert() is active

Special == {"=", ",", ";", "(", ")", "quote", "escape", "space"}
Char    == Letter \cup Special
Text    == Seq(Char \cup {Garbage})

ASSUME CharAssumption ==
  /\ Garbage \notin Char
  /\ Letter \cap Special = {}
  /\ Inputs \subseteq Seq(Char)
  /\ CheckAsserts \in BOOLEAN

VARIABLES
  inStr,                 \* the parameter
  stream,                \* what is left to read of ss
  mode,                  \* where the code is, see Modes
  quoted,                \* the text read so far by std::quoted
  func_with_args_,
  func_name_unprocessed_,
  func_arg_as_str,
  is_in_args,
  func_args_vec_,
  func_args_as_name_to_value_,
  result

vars == <<inStr, stream, mode, quoted, func_with_args_, func_name_unprocessed_,
          func_arg_as_str, is_in_args, func_args_vec_,
          func_args_as_name_to_value_, result>>

\* "loop": at the loop condition; "quoted", "escaped": inside std::quoted;
\* "returned": ss has failed and the result is returned; "aborted": assert.
Modes == {"loop", "quoted", "escaped", "returned", "aborted"}

NoNames == [n \in {} |-> <<>>]      \* an empty name -> values map

-------------------------------------------------------------------------------
(* extract_func_arg: split at the first '=' unless the name would be empty. *)

Assigns(s) == {i \in 1..Len(s) : s[i] = "="}
\* Faulty: rfind, the last '='.
MutFirstAssign(s) == CHOOSE i \in Assigns(s) : \A j \in Assigns(s) : j <= i
FirstAssign(s) == CHOOSE i \in Assigns(s) : \A j \in Assigns(s) : i <= j

\* Faulty: the '=' stays with the name.
MutExtractFuncArg(s) ==
  IF Assigns(s) = {} \/ FirstAssign(s) = 1
  THEN [name_ |-> <<>>, value_ |-> s]
  ELSE [name_  |-> SubSeq(s, 1, FirstAssign(s)),
        value_ |-> SubSeq(s, FirstAssign(s) + 1, Len(s))]

ExtractFuncArg(s) ==
  IF Assigns(s) = {} \/ FirstAssign(s) = 1
  THEN [name_ |-> <<>>, value_ |-> s]
  ELSE [name_  |-> SubSeq(s, 1, FirstAssign(s) - 1),
        value_ |-> SubSeq(s, FirstAssign(s) + 1, Len(s))]

\* The name -> values map after one more argument: append to the values the
\* name has, or start a new list; an argument without a name is not indexed.
IndexArg(index, arg) ==
  IF arg.name_ = <<>> THEN index
  ELSE [n \in DOMAIN index \cup {arg.name_} |->
          IF n # arg.name_ THEN index[n]
          ELSE IF n \in DOMAIN index THEN Append(index[n], arg.value_)
          ELSE <<arg.value_>>]

-------------------------------------------------------------------------------
Name      == {t \in Text : Assigns(t) = {}}
Argument  == [name_ : Name, value_ : Text]

IsIndex(index) ==
  /\ DOMAIN index \subseteq Name \ {<<>>}
  /\ index \in [DOMAIN index -> Seq(Text)]

IsList(s) == s \in Seq({s[i] : i \in DOMAIN s})

IsParsedFunc(f) ==
  /\ f.func_with_args_as_string_ \in Text
  /\ f.func_name_ \in Text
  /\ f.as_vec_ \in Seq(Argument)
  /\ IsIndex(f.as_name_to_value_)

\* The types of the state.  An argument name never holds a '=': extract_func_arg
\* cuts at the first one.
TypeOK ==
  /\ inStr \in Inputs
  /\ stream \in Seq(Char)
  /\ mode \in Modes
  /\ quoted \in Seq(Char)
  /\ func_with_args_ \in Text
  /\ func_name_unprocessed_ \in Text
  /\ func_arg_as_str \in Text
  /\ is_in_args \in BOOLEAN
  /\ func_args_vec_ \in Seq(Argument)
  /\ IsIndex(func_args_as_name_to_value_)
  /\ IsList(result)
  /\ \A i \in DOMAIN result : IsParsedFunc(result[i])

-------------------------------------------------------------------------------
\* Faulty: the list is not closed.
MutClosed(s) == s

\* ss << inStr << ";"
Closed(s) == Append(s, ";")

Init ==
  /\ inStr \in Inputs
  /\ stream = Closed(inStr)
  /\ mode = "loop"
  /\ quoted = <<>>
  /\ func_with_args_ = <<>>
  /\ func_name_unprocessed_ = <<>>
  /\ func_arg_as_str = <<>>
  /\ is_in_args = FALSE
  /\ func_args_vec_ = <<>>
  /\ func_args_as_name_to_value_ = NoNames
  /\ result = <<>>

\* ss.peek() returns c.
Peek(c) == mode = "loop" /\ stream # <<>> /\ Head(stream) = c

Consume == stream' = Tail(stream) /\ UNCHANGED inStr

\* Text that is neither a separator nor a parenthesis.
AppendText(t) ==
  /\ func_with_args_' = func_with_args_ \o t
  /\ func_arg_as_str' = IF is_in_args THEN func_arg_as_str \o t
                                      ELSE func_arg_as_str
  /\ UNCHANGED <<func_name_unprocessed_, is_in_args, func_args_vec_,
                 func_args_as_name_to_value_>>

accumulators == <<func_with_args_, func_name_unprocessed_, func_arg_as_str,
                  is_in_args, func_args_vec_, func_args_as_name_to_value_>>

\* ss >> std::ws
SkipSpace ==
  /\ Peek("space")
  /\ Consume
  /\ UNCHANGED <<mode, quoted, accumulators, result>>

(* ss >> std::quoted(quoted): the delimiters go, an escape makes the next  *)
(* character plain, spaces are kept.                                       *)
BeginQuoted ==
  /\ Peek("quote")
  /\ Consume
  /\ mode' = "quoted"
  /\ quoted' = <<>>
  /\ UNCHANGED <<accumulators, result>>

ReadQuoted ==
  /\ mode \in {"quoted", "escaped"} /\ stream # <<>>
  /\ ~(mode = "quoted" /\ Head(stream) = "quote")
  /\ Consume
  /\ IF mode = "quoted" /\ Head(stream) = "escape"
     THEN mode' = "escaped" /\ UNCHANGED quoted
     ELSE mode' = "quoted" /\ quoted' = Append(quoted, Head(stream))
  /\ UNCHANGED <<accumulators, result>>

\* The text goes back between plain quotes: its escapes are not restored.
Requoted == <<"quote">> \o quoted \o <<"quote">>

EndQuoted ==
  /\ mode = "quoted" /\ stream # <<>> /\ Head(stream) = "quote"
  /\ Consume
  /\ mode' = "loop"
  /\ AppendText(Requoted)
  /\ UNCHANGED <<quoted, result>>

\* No closing quote: ss fails, the loop body ends and so does the loop.
UnterminatedQuote ==
  /\ mode \in {"quoted", "escaped"} /\ stream = <<>>
  /\ mode' = "returned"
  /\ AppendText(Requoted)
  /\ UNCHANGED <<inStr, stream, quoted, result>>

OpenParen ==
  /\ Peek("(")
  /\ Consume
  /\ is_in_args' = TRUE
  /\ func_name_unprocessed_' = func_with_args_
  /\ func_with_args_' = Append(func_with_args_, "(")
  /\ func_arg_as_str' = <<>>
  /\ UNCHANGED <<mode, quoted, func_args_vec_, func_args_as_name_to_value_,
                 result>>

\* The argument read so far ends: what ')' and ',' have in common.
PushArg(c) ==
  LET arg_parsed == ExtractFuncArg(func_arg_as_str)
  IN  /\ Consume
      /\ func_args_vec_' = Append(func_args_vec_, arg_parsed)
      /\ func_args_as_name_to_value_' =
           IndexArg(func_args_as_name_to_value_, arg_parsed)
      /\ func_with_args_' = Append(func_with_args_, c)
      /\ func_arg_as_str' = <<>>
      /\ UNCHANGED <<mode, quoted, func_name_unprocessed_, result>>

CloseParen ==
  /\ Peek(")")
  /\ is_in_args' = FALSE
  /\ PushArg(")")

Comma ==
  /\ Peek(",")
  /\ is_in_args \/ ~CheckAsserts
  /\ UNCHANGED is_in_args
  /\ PushArg(",")

\* assert(is_in_args)
CommaAsserts ==
  /\ Peek(",")
  /\ ~is_in_args /\ CheckAsserts
  /\ mode' = "aborted"
  /\ UNCHANGED <<inStr, stream, quoted, accumulators, result>>

ParsedFunc ==
  [func_with_args_as_string_ |-> func_with_args_,
   func_name_ |-> IF func_name_unprocessed_ = <<>> THEN func_with_args_
                                                   ELSE func_name_unprocessed_,
   as_vec_ |-> func_args_vec_,
   as_name_to_value_ |-> func_args_as_name_to_value_]

\* Faulty: the map survives into the next function.
MutResetFunc ==
  /\ func_with_args_' = <<>>
  /\ func_name_unprocessed_' = <<>>
  /\ func_args_vec_' = <<>>
  /\ func_arg_as_str' = <<>>
  /\ UNCHANGED <<is_in_args, func_args_as_name_to_value_>>

\* is_in_args is the one accumulator that is not reset.
ResetFunc ==
  /\ func_with_args_' = <<>>
  /\ func_name_unprocessed_' = <<>>
  /\ func_args_vec_' = <<>>
  /\ func_arg_as_str' = <<>>
  /\ func_args_as_name_to_value_' = NoNames
  /\ UNCHANGED is_in_args

\* ';' ends a function, unless there is none.
Semicolon ==
  /\ Peek(";")
  /\ Consume
  /\ IF func_with_args_ = <<>>
     THEN UNCHANGED <<accumulators, result>>
     ELSE result' = Append(result, ParsedFunc) /\ ResetFunc
  /\ UNCHANGED <<mode, quoted>>

OtherChar ==
  /\ mode = "loop" /\ stream # <<>>
  /\ Head(stream) \in Letter \cup {"=", "escape"}
  /\ Consume
  /\ AppendText(<<Head(stream)>>)
  /\ UNCHANGED <<mode, quoted, result>>

\* Faulty: what is pending at the end of the stream is reported too.
MutPastEnd ==
  /\ mode = "loop" /\ stream = <<>>
  /\ mode' = "returned"
  /\ AppendText(<<Garbage>>)
  /\ result' = Append(result, ParsedFunc')
  /\ UNCHANGED <<inStr, stream, quoted>>

\* Faulty: a loop that does not see that ss has failed.
MutLoopForever ==
  /\ mode = "loop" /\ stream = <<>>
  /\ UNCHANGED vars

\* std::ws at the end of ss only sets eofbit, so the body runs once more: every
\* peek() returns EOF, ss >> c fails and c is appended although nothing was
\* assigned to it.  Then the loop condition fails.
PastEnd ==
  /\ mode = "loop" /\ stream = <<>>
  /\ mode' = "returned"
  /\ AppendText(<<Garbage>>)
  /\ UNCHANGED <<inStr, stream, quoted, result>>

\* The result is with the caller, or the process is gone.
Finished == mode \in {"returned", "aborted"} /\ UNCHANGED vars

Next ==
  \/ SkipSpace \/ BeginQuoted \/ ReadQuoted \/ EndQuoted \/ UnterminatedQuote
  \/ OpenParen \/ CloseParen \/ Comma \/ CommaAsserts \/ Semicolon
  \/ OtherChar \/ PastEnd
  \/ Finished

\* The parser is a loop of one thread: it keeps running until it ends.
Spec == Init /\ [][Next]_vars /\ WF_vars(Next)

-------------------------------------------------------------------------------
(* What the parser promises.                                               *)

\* index is the arguments of vec grouped by name: for every name it holds the
\* values of the arguments that have it, all of them, in their order.
Groups(index, vec) ==
  /\ DOMAIN index = {vec[i].name_ : i \in DOMAIN vec} \ {<<>>}
  /\ \A n \in DOMAIN index :
       \E at \in [DOMAIN index[n] -> DOMAIN vec] :
         /\ \A j, k \in DOMAIN at : j < k => at[j] < at[k]
         /\ \A k \in DOMAIN at : /\ vec[at[k]].name_ = n
                                 /\ vec[at[k]].value_ = index[n][k]
         /\ \A i \in DOMAIN vec :
              vec[i].name_ = n => \E k \in DOMAIN at : at[k] = i

\* The two views of the arguments, as_vec_ and as_name_to_value_, are kept by
\* separate statements at ')', ',' and ';'.  They agree in every function that
\* is reported, and in the one under construction: an argument of one function
\* is never found under another one.
ViewsAgree ==
  /\ Groups(func_args_as_name_to_value_, func_args_vec_)
  /\ \A i \in DOMAIN result :
       Groups(result[i].as_name_to_value_, result[i].as_vec_)

HoldsGarbage(t) == \E i \in DOMAIN t : t[i] = Garbage

CleanArgs(vec) == \A i \in DOMAIN vec : /\ ~HoldsGarbage(vec[i].name_)
                                        /\ ~HoldsGarbage(vec[i].value_)

CleanIndex(index) ==
  \A n \in DOMAIN index : /\ ~HoldsGarbage(n)
                          /\ \A k \in DOMAIN index[n] : ~HoldsGarbage(index[n][k])

\* The character that the last turn of the loop appends without having read it
\* never reaches the caller, in the text, the name or an argument.
GarbageStaysInside ==
  \A i \in DOMAIN result :
    /\ ~HoldsGarbage(result[i].func_with_args_as_string_)
    /\ ~HoldsGarbage(result[i].func_name_)
    /\ CleanArgs(result[i].as_vec_)
    /\ CleanIndex(result[i].as_name_to_value_)

\* split_to_funcs comes back, or stops at its assert, for every input, though
\* the stream only fails one turn after its end (or inside std::quoted).
Terminates == <>(mode \in {"returned", "aborted"})
===============================================================================
