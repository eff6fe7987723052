--------------------------- MODULE ClingInterpreter ---------------------------
(***************************************************************************)
(* ClingInterpreter: its constructor, which may return early and runs the  *)
(* tasks of the message loop half-way, and the functions that hand code to *)
(* Cling.  Code that Cling runs may call the interpreter again.            *)
(***************************************************************************)
EXTENDS Naturals, Sequences

CONSTANTS
  Threads,      \* the sequences there are
  NoSequence,   \* the sequence checker is detached
  MaxDepth      \* a bound: calls within calls

ASSUME SequenceAssumption == NoSequence \notin Threads

VARIABLES
  asserts,       \* the build has DCHECKs
  interpreter,   \* how far the constructor is, or what it has left
  sequence,      \* the sequence that the sequence checker is bound to
  calls,         \* for each sequence the functions that it is in, innermost first
  stopped        \* the process has ended

clingVars == <<asserts, interpreter, sequence, calls, stopped>>

ClingInit ==
  /\ asserts \in BOOLEAN
  /\ interpreter = "none"
  /\ sequence = NoSequence
  /\ calls = [s \in Threads |-> <<>>]
  /\ stopped = FALSE

Ends == stopped' = TRUE /\ UNCHANGED <<asserts, interpreter, sequence, calls>>

-------------------------------------------------------------------------------
(* The constructor. *)

Becomes(state) ==
  /\ interpreter' = state
  /\ UNCHANGED <<asserts, sequence, calls, stopped>>

\* CHECK(!interpreterArgs.empty()), PathService::Get, and the configuration.
BeginConstruct(obstacle) ==
  /\ interpreter = "none"
  /\ CASE obstacle = "no path"  -> IF asserts THEN Ends ELSE Becomes("null")
       [] obstacle = "none"     -> Becomes("idle loop")
       [] OTHER                 -> Ends

\* After RunUntilIdle, in which other tasks may run.
EndConstruct(defined) ==
  /\ interpreter = "idle loop"
  /\ IF asserts /\ ~defined THEN Ends ELSE Becomes("made")

-------------------------------------------------------------------------------
(* The functions. *)

\* Each begins with DCHECK_CALLED_ON_VALID_SEQUENCE; the first call binds it.
CalledOnValidSequence(s) == sequence \in {NoSequence, s}

\* A build with assertions has a sequence checker.
Bound(s) == IF asserts THEN s ELSE NoSequence

Running == {"loadFile", "processCodeWithResult", "executeCodeNoResult"}

\* Faulty: one function does not ask for the sequence.
MutRefused(s, function, isEmpty) ==
  asserts /\ (isEmpty \/ (function # "executeCodeNoResult" /\ ~CalledOnValidSequence(s)))

\* The DCHECKs with which the functions begin.
Refused(s, function, isEmpty) == asserts /\ (isEmpty \/ ~CalledOnValidSequence(s))

\* A function is called on a sequence, or by the code that Cling runs on it.
\* callFunctionByName itself does not use the interpreter.
Enter(s, function, isEmpty) ==
  IF \/ Refused(s, function, isEmpty)
     \/ interpreter = "null" /\ function \in Running
  THEN Ends
  ELSE /\ sequence' = Bound(s)
       /\ calls' = [calls EXCEPT ![s] = <<function>> \o @]
       /\ UNCHANGED <<asserts, interpreter, stopped>>

MayCall(s) ==
  /\ interpreter \in {"made", "null"}
  /\ Len(calls[s]) < MaxDepth
  /\ calls[s] # <<>> => Head(calls[s]) \in Running

Call(s) ==
  /\ MayCall(s)
  /\ \/ \E function \in Running, isEmpty \in BOOLEAN : Enter(s, function, isEmpty)
     \/ Enter(s, "callFunctionByName", FALSE)

\* callFunctionByName has put the code together and calls processCodeWithResult.
ProcessCall(s) ==
  /\ calls[s] # <<>> /\ Head(calls[s]) = "callFunctionByName"
  /\ Enter(s, "processCodeWithResult", FALSE)

\* Cling returns: -1 to loadFile if it was told to quit.  callFunctionByName does
\* nothing after the call.
Return(s) ==
  /\ calls[s] # <<>> /\ Head(calls[s]) \in Running
  /\ \E quit \in BOOLEAN :
       IF asserts /\ quit /\ Head(calls[s]) = "loadFile"
       THEN Ends
       ELSE LET rest == Tail(calls[s])
                byName == rest # <<>> /\ Head(rest) = "callFunctionByName"
            IN  /\ calls' = [calls EXCEPT ![s] = IF byName THEN Tail(rest) ELSE rest]
                /\ UNCHANGED <<asserts, interpreter, sequence, stopped>>

ClingStep ==
  \/ \E obstacle \in {"no arguments", "no path", "no configuration", "none"} :
       BeginConstruct(obstacle)
  \/ \E defined \in BOOLEAN : EndConstruct(defined)
  \/ \E s \in Threads : Call(s) \/ ProcessCall(s) \/ Return(s)

\* With assertions one sequence at most is ever inside the interpreter, however
\* its calls are nested and whichever of them came first: the checks at the
\* beginning of the functions are enough.
OneSequenceInside ==
  asserts => \A s, t \in Threads : calls[s] # <<>> /\ calls[t] # <<>> => s = t
===============================================================================
