----------------------------- MODULE FuncReference -----------------------------
(***************************************************************************)
(* What a list of calls means, defined on the whole string instead of      *)
(* character by character, and the parser's results compared with it.      *)
(***************************************************************************)
EXTENDS FuncParser, SequencesExt

\* Where the text is after i characters: "out", "in" a quoted string, or after
\* an "esc"ape inside one.
LexStep(where, c) ==
  CASE where = "out" /\ c = "quote"  -> "in"
    [] where = "in"  /\ c = "quote"  -> "out"
    [] where = "in"  /\ c = "escape" -> "esc"
    [] where = "esc"                 -> "in"
    [] OTHER                         -> where

Lexed(s) ==
  LET at[i \in 0..Len(s)] == IF i = 0 THEN "out" ELSE LexStep(at[i - 1], s[i])
  IN  at

Outside(s) == LET at == Lexed(s) IN {i \in 1..Len(s) : at[i - 1] = "out"}
Ends(s)    == {i \in Outside(s) : s[i] = ";"}
\* The last call may do without its ';'.
Ended(s) == s \o <<";">>

\* The characters that belong to some call: not the spaces and the ';' outside
\* the strings, nor the escapes inside them.
Kept(s) ==
  LET at == Lexed(s)
  IN  {i \in 1..Len(s) : CASE at[i - 1] = "out" -> s[i] \notin {"space", ";"}
                           [] at[i - 1] = "in"  -> s[i] # "escape"
                           [] at[i - 1] = "esc" -> TRUE}

\* The elements of S from 1 to n, in ascending order.
Ascending(n, S) ==
  LET upTo[k \in 0..n] == IF k = 0 THEN <<>>
                          ELSE IF k \in S THEN Append(upTo[k - 1], k)
                          ELSE upTo[k - 1]
  IN  upTo[n]

\* What belongs to the call that ends at e: all from the last end before it.
Body(s, e) == LET ends == Ends(s)
              IN  {i \in Kept(s) : i < e /\ \A f \in ends : f < e => f < i}

\* The calls of s, each the sequence of its positions in s, empty ones left out.
\* What follows the last ';' belongs to none.
Calls(s) ==
  LET ends == Ascending(Len(s), {e \in Ends(s) : Body(s, e) # {}})
  IN  [k \in DOMAIN ends |-> Ascending(Len(s), Body(s, ends[k]))]

TextOf(s, call) == [k \in DOMAIN call |-> s[call[k]]]

\* The places in the call where the character c is not part of a string.
Places(s, call, c) ==
  LET outside == Outside(s)
  IN  {k \in DOMAIN call : call[k] \in outside /\ s[call[k]] = c}

\* name(arg, ..., arg), with no parenthesis inside.
WellFormed(s, call) ==
  \E o \in DOMAIN call :
    /\ Places(s, call, "(") = {o}
    /\ Places(s, call, ")") = {Len(call)}
    /\ \A k \in Places(s, call, ",") : o < k

\* Where a well-formed call is cut into its name and its arguments.
Cuts(s, call) == UNION {Places(s, call, c) : c \in {"(", ",", ")"}}

\* The texts between the parentheses and the commas of a well-formed call.
ArgTexts(s, call) ==
  LET cuts == Ascending(Len(call), Cuts(s, call))
  IN  [k \in 1..(Len(cuts) - 1) |->
         SubSeq(TextOf(s, call), cuts[k] + 1, cuts[k + 1] - 1)]

\* The text before the parenthesis of a well-formed call.
NameText(s, call) ==
  LET o == CHOOSE k \in Places(s, call, "(") : TRUE
  IN  SubSeq(TextOf(s, call), 1, o - 1)

\* arg is the text cut in two at its first '='.  Without one, or with one in the
\* first place, there is no name and all of the text is the value.
IsCut(arg, text) ==
  \/ /\ arg.name_ = <<>> /\ arg.value_ = text
     /\ \A k \in DOMAIN text : text[k] = "=" => text[1] = "="
  \/ /\ arg.name_ # <<>> /\ \A k \in DOMAIN arg.name_ : arg.name_[k] # "="
     /\ text = arg.name_ \o <<"=">> \o arg.value_

\* func is what the parser should make of the call: one without a name goes by
\* its whole text.
Fits(s, call, func) ==
  /\ func.func_name_ = IF NameText(s, call) = <<>> THEN TextOf(s, call)
                                                   ELSE NameText(s, call)
  /\ DOMAIN func.as_vec_ = DOMAIN ArgTexts(s, call)
  /\ \A k \in DOMAIN func.as_vec_ : IsCut(func.as_vec_[k], ArgTexts(s, call)[k])

-------------------------------------------------------------------------------
\* When the parser returns, the functions are the calls of the input, in order,
\* none lost and none made up: a ';' inside a string ends nothing, the last call
\* needs no ';', and only a call with an unclosed string is left out.
FunctionsAreTheCalls ==
  mode = "returned" =>
    LET s == Ended(inStr)
        calls == Calls(s)
    IN  [i \in DOMAIN result |-> result[i].func_with_args_as_string_]
          = [i \in DOMAIN calls |-> TextOf(s, calls[i])]

\* Of every well-formed call the name is the text before the parenthesis and the
\* arguments are the texts between the commas, in order, each cut in two at its
\* first '=': a leading '=' stays in the value, against the note in
\* extract_func_arg.  The calls before it do not matter, not even one that never
\* closes its parenthesis and so leaves is_in_args set: nothing it collected is
\* taken over.  What becomes of a call with a parenthesis inside its arguments,
\* or with a comma outside of them, is not stated.
ArgumentsAreTheCalls ==
  mode = "returned" =>
    LET s == Ended(inStr)
        calls == Calls(s)
    IN  \A i \in DOMAIN calls :
          WellFormed(s, calls[i]) => Fits(s, calls[i], result[i])
===============================================================================
