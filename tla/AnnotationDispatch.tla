-------------------------- MODULE AnnotationDispatch --------------------------
(***************************************************************************)
(* What flexlib promises a tool that registers annotation methods: one     *)
(* source file after the other is processed; every annotated declaration   *)
(* that the file brings in has, once and in its place, the outcome that    *)
(* its annotation asks for; then the file is saved, once.  How that comes  *)
(* about is AnnotationPipeline.                                            *)
(***************************************************************************)
CONSTANT Files     \* the source files given to the tool

VARIABLES
  expected,        \* for each file, the outcome its declarations ask for
  trace,           \* for each saved file, the outcome they had
  saved,           \* the files saved
  aborted          \* the process ended before its time

dispatchVars == <<expected, trace, saved, aborted>>

Init ==
  /\ trace = [f \in Files |-> <<>>]
  /\ saved = {}
  /\ aborted = FALSE

\* The whole of a file: its declarations and its end.
Process(f) ==
  /\ ~aborted /\ f \notin saved
  /\ trace' = [trace EXCEPT ![f] = expected[f]]
  /\ saved' = saved \cup {f}
  /\ UNCHANGED <<expected, aborted>>

Abort ==
  /\ ~aborted /\ saved # Files
  /\ aborted' = TRUE
  /\ UNCHANGED <<expected, trace, saved>>

Next == Abort \/ \E f \in Files : Process(f)

Spec == Init /\ [][Next]_dispatchVars
===============================================================================
