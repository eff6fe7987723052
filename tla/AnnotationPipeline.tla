-------------------------- MODULE AnnotationPipeline --------------------------
(***************************************************************************)
(* The way of a source file through flexlib: AnnotationMatchFactory makes  *)
(* one AnnotationMatchAction per file, the action an AnnotateConsumer, the *)
(* consumer runs the matcher over the translation unit, and for every      *)
(* match AnnotateMatchCallback::run calls AnnotationMatchHandler, which    *)
(* looks the annotation up (AnnotationParser) and runs the method that is  *)
(* registered for it.  At the end of the file the action has it saved.     *)
(*                                                                         *)
(* The methods are code of plugins.  They are given by what they do to the *)
(* source: nothing, or a call of clang_utils::replaceWith with or without  *)
(* skip_rewrite_not_main_file.                                             *)
(***************************************************************************)
EXTENDS Integers, Sequences, RewriteBuffer

CONSTANTS
  Files,         \* the source files given to the tool
  Headers,       \* the files they include
  Length,        \* the number of tokens of every file
  Semicolons,    \* the positions of the ';' of every file
  Letter,        \* what annotations and method names are made of
  MethodMaps,    \* the maps of annotation methods to consider
  UnitMaps,      \* the declarations of every source file to consider
  Unreadable,    \* the source files the compiler cannot open
  Unbacked,      \* the source files with no clang::FileEntry
  NoFile,        \* no source manager is set
  CheckAsserts   \* TRUE for a build of flexlib and clang with assertions

Anywhere == Files \cup Headers
Effects  == {"report", "replace", "replaceInMain"}
Method   == [effect : Effects, replacement : Seq(Int)]

\* The string of an annotation: whether it starts with kRequiredAnnotationPrefix,
\* and what follows.
Annotation == [gen : BOOLEAN, text : Seq(Letter)]

\* A declaration the matcher finds: where it is, which annotations it has, what
\* kind it is, and its range.  outer is where a class template begins, with its
\* template<...>; macroFirst and macroLast tell of ends that a macro produces.
Decl ==
  [file : Anywhere, attrs : Seq(Annotation), invalid : BOOLEAN,
   kind : {"record", "template", "other"},
   outer : Nat, first : Nat, last : Nat,
   macroFirst : BOOLEAN, macroLast : {"no", "end", "inside"}]

\* A map of methods: their names and what they do.
IsMethodMap(m) == DOMAIN m \subseteq Seq(Letter) /\ m \in [DOMAIN m -> Method]

ASSUME FilesAssumption ==
  /\ NoFile \notin Anywhere /\ Files \cap Headers = {}
  /\ Unreadable \subseteq Files /\ Unbacked \subseteq Files
  /\ Length \in [Anywhere -> Nat]
  /\ Semicolons \in [Anywhere -> SUBSET Nat]
  /\ \A f \in Anywhere : Semicolons[f] \subseteq 1..Length[f]
  /\ CheckAsserts \in BOOLEAN

ASSUME InputAssumption ==
  /\ \A m \in MethodMaps : IsMethodMap(m)
  /\ UnitMaps \subseteq [Files -> Seq(Decl)]
  /\ \A u \in UnitMaps, f \in Files : \A i \in DOMAIN u[f] :
       LET d == u[f][i]
       IN  /\ d.file \in Headers \cup {f}
           /\ d.attrs # <<>>                        \* the matcher: hasAttr
           /\ 1 <= d.outer /\ d.outer <= d.first
           /\ d.kind # "template" => d.outer = d.first
           /\ d.first <= d.last /\ d.last <= Length[d.file]

VARIABLES
  annotationMethods,   \* shared by AnnotationParser and AnnotationMatchHandler
  units,               \* what the matcher finds in each file, in its order
  pending,             \* the files the tool has not come to
  phase,               \* what the tool is doing with the current file
  current,             \* the file, or NoFile between two files
  rewriter_,           \* of the action: its source manager and its buffers
  trace,               \* for each file, the outcomes of its matches so far
  saved,               \* for each file, the text given to the save handler
  finished             \* the files whose end has been reached

vars == <<annotationMethods, units, pending, phase, current, rewriter_, trace,
          saved, finished>>

Phases == {"idle", "created", "begun", "consumer", "matching", "aborted"}

NoBuffers == [sourceMgr |-> NoFile, buffers |-> [f \in Anywhere |-> Unedited(Length[f])]]

-------------------------------------------------------------------------------
(* AnnotationParser::parseToMethods and the outcome of a match.            *)

\* Faulty: the name is looked for anywhere in the text.
MutStartsWith(s, prefix) ==
  \E i \in 0..(Len(s) - Len(prefix)) :
    SubSeq(s, i + 1, i + Len(prefix)) = prefix

StartsWith(s, prefix) ==
  Len(prefix) <= Len(s) /\ SubSeq(s, 1, Len(prefix)) = prefix

\* tryRemovePrefix
Without(s, prefix) == SubSeq(s, Len(prefix) + 1, Len(s))

Candidates(methods, annotation) ==
  {key \in DOMAIN methods : annotation.gen /\ StartsWith(annotation.text, key)}

\* The loop goes through the flat_map in the order of its keys and stops at the
\* first that fits; of two prefixes of one string the shorter comes first.
FirstMethod(methods, annotation) ==
  CHOOSE key \in Candidates(methods, annotation) :
    \A other \in Candidates(methods, annotation) : Len(key) <= Len(other)

\* What becomes of a match.  method and argument are empty unless one is run.
Skipped      == [is |-> "skipped", method |-> <<>>, argument |-> <<>>]
Unregistered == [is |-> "unregistered", method |-> <<>>, argument |-> <<>>]
Outcomes     == [is : {"skipped", "unregistered", "run"},
                 method : Seq(Letter), argument : Seq(Letter)]

\* AnnotateMatchCallback::run and AnnotationMatchHandler::matchHandler up to the
\* call of the method: an invalid declaration is skipped, getAttr yields the
\* first annotation, the end iterator means that no method is registered.
Outcome(methods, d) ==
  LET annotation == d.attrs[1]
      key == FirstMethod(methods, annotation)
  IN  IF d.invalid THEN Skipped
      ELSE IF Candidates(methods, annotation) = {} THEN Unregistered
      ELSE [is |-> "run", method |-> key, argument |-> Without(annotation.text, key)]

-------------------------------------------------------------------------------
(* clang_utils::replaceWith                                                *)

Invalid == 0      \* an invalid source location

\* Faulty: goes on to the next ';' wherever it is.
MutSemiAfter(d) ==
  IF d.macroLast = "inside" \/ ~\E p \in Semicolons[d.file] : p > d.last THEN Invalid
  ELSE CHOOSE p \in Semicolons[d.file] :
         p > d.last /\ \A q \in Semicolons[d.file] : q > d.last => p <= q

\* findSemiAfterLocation: the ';' if it is the next token; nothing else will do.
SemiAfter(d) ==
  IF d.macroLast = "inside" \/ d.last + 1 \notin Semicolons[d.file] THEN Invalid
  ELSE d.last + 1

\* Faulty: template<...> is left behind.
MutRangeStart(d) == d.first

\* The range starts at the declaration, for a class template at its template<>;
\* expandLocations leads out of a macro, but its result is not used then.
RangeStart(d) == IF d.kind = "template" THEN d.outer ELSE d.first
StartIsRewritable(d) == ~(d.kind = "template" /\ d.macroFirst)

SkipsRewrite(d, skip) == skip /\ d.file # rewriter_.sourceMgr

\* getNodeAs<CXXRecordDecl>("bind_gen") yields no node, and node-> follows it.
ReplaceCrashes(d, skip) == ~SkipsRewrite(d, skip) /\ d.kind = "other"

SizeToReplace(d) ==
  IF SemiAfter(d) = Invalid THEN -1
  ELSE RangeSize(rewriter_.buffers[d.file], RangeStart(d), SemiAfter(d))

\* With assertions, clang stops at an invalid location or outside the text.
ReplaceAsserts(d, skip) ==
  /\ ~SkipsRewrite(d, skip) /\ d.kind # "other" /\ StartIsRewritable(d)
  /\ \/ CheckAsserts /\ SemiAfter(d) = Invalid
     \/ ~CanReplace(rewriter_.buffers[d.file], RangeStart(d), SizeToReplace(d))

ReplaceWith(d, skip, replacement) ==
  IF SkipsRewrite(d, skip) \/ ~StartIsRewritable(d) THEN UNCHANGED rewriter_
  ELSE rewriter_' = [rewriter_ EXCEPT !.buffers[d.file] =
         Replace(@, RangeStart(d), SizeToReplace(d), replacement)]

-------------------------------------------------------------------------------
Init ==
  /\ annotationMethods \in MethodMaps
  /\ units \in UnitMaps
  /\ pending = Files
  /\ phase = "idle"
  /\ current = NoFile
  /\ rewriter_ = NoBuffers
  /\ trace = [f \in Files |-> <<>>]
  /\ saved = [f \in Files |-> <<>>]
  /\ finished = {}

\* Faulty: the rewriter of the last file is used again.
MutFreshRewriter == UNCHANGED rewriter_

\* A new action has a rewriter of its own.
FreshRewriter == rewriter_' = NoBuffers

\* AnnotationMatchFactory::create, which clang calls for every file.
Create(f) ==
  /\ phase = "idle" /\ f \in pending
  /\ pending' = pending \ {f}
  /\ phase' = "created"
  /\ current' = f
  /\ FreshRewriter
  /\ UNCHANGED <<annotationMethods, units, trace, saved, finished>>

\* The compiler gives up on a file it cannot open; the action is deleted.
CannotOpen ==
  /\ phase = "created" /\ current \in Unreadable
  /\ phase' = "idle"
  /\ current' = NoFile
  /\ UNCHANGED <<annotationMethods, units, pending, rewriter_, trace, saved,
                 finished>>

BeginSourceFileAction ==
  /\ phase = "created" /\ current \notin Unreadable
  /\ phase' = "begun"
  /\ UNCHANGED <<annotationMethods, units, pending, current, rewriter_, trace,
                 saved, finished>>

\* Faulty: setSourceMgr is forgotten.
MutCreateASTConsumer ==
  /\ phase = "begun"
  /\ phase' = "consumer"
  /\ UNCHANGED <<annotationMethods, units, pending, current, rewriter_, trace,
                 saved, finished>>

\* Only now does the rewriter know the file.
CreateASTConsumer ==
  /\ phase = "begun"
  /\ phase' = "consumer"
  /\ rewriter_' = [rewriter_ EXCEPT !.sourceMgr = current]
  /\ UNCHANGED <<annotationMethods, units, pending, current, trace, saved,
                 finished>>

\* matchAST runs to its end inside the call: see Match and EndSourceFileAction.
HandleTranslationUnit ==
  /\ phase = "consumer"
  /\ phase' = "matching"
  /\ UNCHANGED <<annotationMethods, units, pending, current, rewriter_, trace,
                 saved, finished>>

NextDecl == units[current][Len(trace[current]) + 1]

\* The method that runs for d, or one that does nothing.
MethodFor(d) ==
  LET outcome == Outcome(annotationMethods, d)
  IN  IF outcome.is = "run" THEN annotationMethods[outcome.method]
      ELSE [effect |-> "report", replacement |-> <<>>]

\* AnnotateMatchCallback::run for one match, and all that it calls.
Match ==
  /\ phase = "matching"
  /\ Len(trace[current]) < Len(units[current])
  /\ LET d      == NextDecl
         method == MethodFor(d)
         skip   == method.effect = "replaceInMain"
     IN  /\ trace' = [trace EXCEPT ![current] =
                        Append(@, Outcome(annotationMethods, d))]
         /\ IF method.effect = "report"
            THEN UNCHANGED <<phase, rewriter_>>
            ELSE IF ReplaceCrashes(d, skip) \/ ReplaceAsserts(d, skip)
            THEN phase' = "aborted" /\ UNCHANGED rewriter_
            ELSE ReplaceWith(d, skip, method.replacement) /\ UNCHANGED phase
  /\ UNCHANGED <<annotationMethods, units, pending, current, saved, finished>>

\* Faulty: the file ends as soon as its first match is handled.
MutMatchesDone == Len(trace[current]) > 0 \/ Len(units[current]) = 0

MatchesDone == Len(trace[current]) = Len(units[current])

\* The end of a file whose matches have all been handled: endSourceFileHandler
\* gives the buffer of the main file to the save handler.
EndSourceFileAction ==
  /\ phase = "matching" /\ MatchesDone
  /\ current \notin Unbacked
  /\ saved' = [saved EXCEPT ![current] = rewriter_.buffers[current].text]
  /\ finished' = finished \cup {current}
  /\ phase' = "idle"
  /\ current' = NoFile
  /\ UNCHANGED <<annotationMethods, units, pending, rewriter_, trace>>

\* if(!fileEntry) NOTREACHED()
NoFileEntry ==
  /\ phase = "matching" /\ MatchesDone
  /\ current \in Unbacked /\ CheckAsserts
  /\ phase' = "aborted"
  /\ UNCHANGED <<annotationMethods, units, pending, current, rewriter_, trace,
                 saved, finished>>

\* Faulty: nothing is saved without an entry.
MutSaveWithoutEntry ==
  /\ phase = "matching" /\ MatchesDone
  /\ current \in Unbacked /\ ~CheckAsserts
  /\ phase' = "idle"
  /\ current' = NoFile
  /\ UNCHANGED <<annotationMethods, units, pending, rewriter_, trace, saved, finished>>

\* Without assertions the null pointer goes on to the save handler.
SaveWithoutEntry ==
  /\ phase = "matching" /\ MatchesDone
  /\ current \in Unbacked /\ ~CheckAsserts
  /\ finished' = finished \cup {current}
  /\ phase' = "idle"
  /\ current' = NoFile
  /\ UNCHANGED <<annotationMethods, units, pending, rewriter_, trace, saved>>

Done ==
  /\ phase = "aborted" \/ (phase = "idle" /\ pending = {})
  /\ UNCHANGED vars

Step ==
  \/ \E f \in Files : Create(f)
  \/ CannotOpen \/ BeginSourceFileAction \/ CreateASTConsumer
  \/ HandleTranslationUnit \/ Match
  \/ EndSourceFileAction \/ NoFileEntry \/ SaveWithoutEntry

Next == Step \/ Done

\* ClangTool::run goes through the files without waiting for anything.
Spec == Init /\ [][Next]_vars /\ WF_vars(Step)

-------------------------------------------------------------------------------
\* The types of the state.  Between files there is no current file and one that
\* is pending is untouched; every buffer knows where each position has gone; from
\* CreateASTConsumer on the rewriter is that of the current file.
TypeOK ==
  /\ annotationMethods \in MethodMaps
  /\ units \in UnitMaps
  /\ pending \subseteq Files /\ finished \subseteq Files
  /\ phase \in Phases
  /\ current \in Files \cup {NoFile}
  /\ phase = "idle" => current = NoFile
  /\ phase # "idle" => current \in Files \ (pending \cup finished)
  /\ rewriter_ \in [sourceMgr : Files \cup {NoFile},
                    buffers : [Anywhere -> [text : Seq(Int), shift : Seq(Int)]]]
  /\ \A f \in Anywhere : Len(rewriter_.buffers[f].shift) = Length[f] + 1
  /\ phase \in {"consumer", "matching"} => rewriter_.sourceMgr = current
  /\ pending \cap finished = {}
  /\ trace \in [Files -> Seq(Outcomes)]
  /\ \A f \in Files : Len(trace[f]) <= Len(units[f])
  /\ \A f \in pending : trace[f] = <<>>
  /\ phase \in {"created", "begun", "consumer"} => trace[current] = <<>>
  /\ saved \in [Files -> Seq(Int)]

\* The files that the compiler opens are all handled, and the tool comes to an
\* end, unless the process does: no file, match or method holds it up.
AllFilesHandled ==
  <>(phase = "aborted" \/ (phase = "idle" /\ finished = Files \ Unreadable))

\* No name of a method begins with another one.
PrefixFree(methods) ==
  \A k, l \in DOMAIN methods : StartsWith(k, l) => k = l

\* With such names an annotation fits one method at most, so which one runs
\* does not depend on what else is registered; the method is given the rest.
AnnotationPicksOneMethod ==
  \A f \in Files : \A i \in DOMAIN trace[f] :
    LET annotation == units[f][i].attrs[1]
        outcome == trace[f][i]
    IN  /\ PrefixFree(annotationMethods) /\ outcome.is = "run" =>
             Candidates(annotationMethods, annotation) = {outcome.method}
        /\ outcome.is = "run" =>
             annotation.text = outcome.method \o outcome.argument

\* What the pipeline promises: see AnnotationDispatch.
Dispatch == INSTANCE AnnotationDispatch WITH
  expected <- [f \in Files |-> [i \in DOMAIN units[f] |->
                                  Outcome(annotationMethods, units[f][i])]],
  trace    <- [f \in Files |-> IF f \in finished THEN trace[f] ELSE <<>>],
  saved    <- finished,
  aborted  <- phase = "aborted"

\* Every declaration of every file gets the outcome its annotation asks for,
\* exactly once, in the order of the matches, before the file is saved; no file
\* is saved twice, and none before its last match is handled.
ImplementsDispatch == Dispatch!Spec
===============================================================================
