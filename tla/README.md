# flexlib in TLA+

flexlib is a C++ library for source-to-source tools built on Clang. A tool that
uses it parses source files, finds declarations that carry an annotation
`{gen};{method};...`, runs the method that a plugin has registered under that
name, and saves the edited files. Around that there are a parser for lists of
calls (the text of an annotation), a reflection layer that turns Clang's
declarations into plain info structures, and helpers for command lines and
plugin settings.

Paths below are those of the repository. Line numbers are in `PROJECT.json`
(`map`), for every definition of every module.

## The system

| part | code | state | operations | what makes it correct |
|---|---|---|---|---|
| function-list parser | `src/funcParser.cpp`, `include/flexlib/funcParser.hpp` | the stream, six accumulators, the result | `split_to_funcs`, `extract_func_arg` | the calls of the text are reported, none lost or made up; the list of arguments and the map by name agree; the loop ends |
| annotation pipeline | `src/matchers/annotation_matcher.cc`, `src/annotation_match_handler.cc`, `src/annotation_parser.cc`, `src/parser_constants.cc` | the map of methods; for each file an action with a rewriter | `create`, `BeginSourceFileAction`, `CreateASTConsumer`, `HandleTranslationUnit`, `run`, `matchHandler`, `parseToMethods`, `EndSourceFileAction`, `endSourceFileHandler` | each match has its outcome once, in order, before the one save; edits stay in their file |
| source rewriting | `src/clangUtils.cpp` (`replaceWith` and helpers) | the buffers of the rewriter | `replaceWith`, `expandLocations`, `findSemiAfterLocation` | the declaration goes, its replacement comes, the rest stays |
| method printer | `src/clangUtils.cpp` (the rest), `include/flexlib/clangUtils.hpp` | none | `forEachDeclaredMethod`, `printMethodDecl`, `printMethodForwarding`, `printMethodTrailing`, `forwardMethodParamNames` | the printed declaration is that of the method; generated calls move only what may be moved |
| namespace tree | `include/flexlib/reflect/ReflTypes.hpp` | map from contexts to infos, the root, the lists of inner namespaces | `GetNamespace` (recursive) | one info per block of a namespace (Clang's contexts), linked once, under the right parent; the recursion ends |
| AST reflection | `src/reflect/ReflectAST.cpp` | the infos listed in the tree | `ReflectClass`, `ReflectEnum`, `ReflectTypedef`, `ReflectMethod`, `ReflectImplicitSpecialMembers` | one info per name; the info is that of the declaration asked for |
| reflected types | `src/reflect/TypeInfo.cpp`, `include/flexlib/reflect/TypeInfo.hpp` | the `TypeInfo`s being filled in | `TypeInfo::Create` (recursive), `getTypeDescr`, `canBeMoved` | a type is classified as what it is and keeps its qualifiers; taken apart and put together it is the same |
| command-line paths | `src/boost_command_line.cpp` | none; the file system | `getAsPath`, `cmdKeyToDirectory`, `cmdKeyToFile` | what is returned exists and is of its kind |
| command-line parser | `src/boost_command_line.cpp` | `vm_`, `parsed_options_`, `desc_` | `init`, `count`, `getAs`, `unregisteredOptions` | the first value given stays, whether a later `init` fails or not; what is no option is reported |
| plugin settings | `src/per_plugin_settings.cpp` | a map of maps; references callers keep | `setPluginSettings`, `setPluginOption`, `getPluginOption`, `getAllPluginOptions`, `hasPluginOptions` | what a caller has been told or given stays true |
| Cling interpreter | `src/ClingInterpreterModule.cpp` | the interpreter, the sequence checker | the constructor, `loadFile`, `processCodeWithResult`, `callFunctionByName`, `executeCodeNoResult` | one sequence at a time |
| plugin interface, transform rules | `ToolPlugin.hpp`, `clangPipeline.hpp` | none | events, a map of rules | - |
| demo application | `test_package/test_package.cpp` | `is_running_`, `run_loop_` | `Run`, `RenderFrame`, `OnCloseRequest` | the loop ends |

Several files (`DispatchQueue`, `inputThread`, `utils`, `ctp_registry`, ...) hold
one line or none.

How they interact. Clang's tooling calls the factory once per source file and the
action's callbacks in a fixed order; the matcher calls `AnnotateMatchCallback::run`
for each annotated declaration, headers included; that calls, through callbacks of
the `AnnotationMatchOptions`, the handler, the parser and the plugin's method.
`AnnotationParser` and `AnnotationMatchHandler` are given the same map of methods.
A method may call `replaceWith` on the action's rewriter, `split_to_funcs` on the
rest of the annotation, and `AstReflector` on the declaration, with a
`NamespacesTree` it keeps. Everything runs on one sequence
(`DCHECK_CALLED_ON_VALID_SEQUENCE`), so what is hard here is less concurrency than
order and state: accumulators that are reset one by one, iterators into shared
maps, positions that move with every edit, results that depend on which
declaration was asked for first, steps that fail half-way, and a build with
assertions that ends where the one without goes on. The exceptions are the file
system, which other processes change under `cmdKeyToFile`, and the interpreter,
which may be called from any sequence, and by the code it runs.

A `ClassInfo` lists `MethodInfo`s, each with a `TypeInfo` for every parameter; a
plugin goes through the list with `forEachDeclaredMethod` and prints the methods
into generated code. Plugins keep their settings in `PerPluginSettings`, and some
are scripts that `ClingInterpreter` runs.

`PROJECT.json` lists the hazards line by line with the properties that cover them.

## The modules

| module | what it is |
|---|---|
| `FuncParser` | the parser, one action per turn of the loop (per character inside `std::quoted` and `std::ws`); types, `ViewsAgree`, `GarbageStaysInside`, `Terminates` |
| `FuncReference` | what a list of calls means, defined on the whole string, and the parser's result compared with it |
| `MCFuncParser` | all strings of an alphabet up to a length |
| `FuncParserProofs`, `NaturalLemmas` | theorems |
| `RewriteBuffer` | the external part: a buffer of `clang::Rewriter`, as `replaceWith` uses it |
| `AnnotationDispatch` | abstract: files are processed whole, one after the other, or the process ends |
| `AnnotationPipeline` | detailed: factory, action, consumer, match callback, handler, parser and `replaceWith`; states that it implements `AnnotationDispatch` |
| `AnnotationProperties` | what the edits do to the text, against definitions that do not follow the code |
| `MCAnnotationPipeline` | two source files, a header, and the declarations in them |
| `AnnotationPipelineProofs` | theorems |
| `NamespacesTree` | `GetNamespace`, one step per call or return |
| `NamespacesTreeProofs` | lemmas: every step keeps the tree |
| `AstReflector` | `ReflectClass`, `ReflectEnum`, `ReflectTypedef` over the tree |
| `MCAstReflector` | a translation unit with reopened, anonymous, inline and nested namespaces, linkage blocks, redeclarations and specialisations |
| `AstReflectorProofs` | theorems |
| `SpecialMembers` | which methods a `ClassInfo` lists |
| `TypeInfo` | `TypeInfo::Create`, one action per Visit function, and what is done with the result |
| `MethodPrinter` | a method as Clang knows it, the `MethodInfo` made of it, and the text printed of that |
| `ClassMethods` | composes the three: a class's methods are listed, then one of them is looked at and printed |
| `MCClassMethods` | types, methods declared in all ways, and the classes whose methods are printed |
| `ClassMethodsProofs` | theorems |
| `PluginSettings` | `PerPluginSettings` and what its callers hold |
| `ClingInterpreter` | the constructor, and calls within calls on several sequences |
| `PluginHost` | composes the two |
| `PluginHostProofs` | theorems |
| `CmdParser` | `BoostCmdParser`: `init` any number of times, and what the map holds then |
| `CmdPaths` | the functions that read a key, over `CmdParser` and a changing file system |
| `MCCmdPaths` | an option for a path, one for a number, and command lines |
| `CmdPathsProofs` | theorems |

Operators whose comment starts with "Faulty" are variants of the operator below
them, with one plausible mistake each. Nothing uses them; put in place of that
operator they break the property that `PROJECT.json` names under `mutants`.

### FuncParser

Variables have the names of the code's locals; `stream` is what is left of `ss`,
`mode` tells where the loop is. Characters are members of a small set: `Letter`
stands for all that the parser treats alike. The last turn of the loop, after
`std::ws` has only set `eofbit`, appends a `char` that nothing was read into:
`PastEnd` appends `Garbage`, a value that is no character (since C++11 a failed
`>>` of a `char` assigns nothing). `std::quoted` drops the escapes, and the code
puts the text back between plain quotes (`Requoted`).

### AnnotationPipeline, RewriteBuffer

A file is a row of tokens, and the token at position p is called p, so that a
buffer shows what became of each piece of the original. A declaration has its
file, its annotations, its range, and what `replaceWith` distinguishes: whether it
is a class, a class template or something else, whether it is followed by `;`,
and whether a macro produces one of its ends. A method is what it does to the
rewriter: nothing, `replaceWith`, or `replaceWith` with
`skip_rewrite_not_main_file`. Which annotations start with which names is a
question of prefixes of short texts; that the order of keys in the `flat_map` puts
the shorter of two prefixes first is used in `FirstMethod`.

One action per callback; `Match` is all of `AnnotateMatchCallback::run` with the
handler, the parser and the method, which run in one call. `CheckAsserts`
distinguishes builds: with it a `DCHECK`, a `NOTREACHED` or an assertion inside
Clang ends the process.

Deviations: `expandLocations` moves the start of a range in a macro to a place in
the file; the model keeps the token's position for it. Instances of a template,
which the matcher finds too, are not among the inputs.

### NamespacesTree, AstReflector

A context is a block of the translation unit; an info is called by the context it
was made for. `calls` is the stack of `GetNamespace`. A call of the reflector is
`Reflect` (up to `GetNamespace`), then `FoundExisting`, `MakeInfo` or
`InnerClassAborts`. An info keeps the declaration, the namespace it names and, for
a class, the data members and inner declarations. `ReflectMethod` also calls
`GetNamespace`, with a context that the call before it has entered, so this has no
effect and is left out. A typedef in an `extern "C"` block, for which
`GetNamespace` casts a block that is no namespace, is undefined behaviour and
not among the inputs.

### SpecialMembers

A class is what it declares and what Clang has declared for it: Clang adds
implicit members when they are first used. The rules for when it would add one
are external. `methods` counts the entries of the list: the order has no bearing on
the properties.

### TypeInfo

A type is the sequence of its layers: a pointer to a const typedef of a record is
`<<Pointer, Typedef, Record>>`, each with its own qualifiers. `frames` is the stack
of TypeInfos that are being filled in: `VisitNesting` is the call of `Create` for
the element of an array or for what an alias template stands for, and
`ReturnToVisitor` its end. `VisitQualType` comes before every other Visit function
(`Qualified`), so a qualifier is noted on the TypeInfo of the innermost call,
whichever layer it stands at: `const T*` and `T* const` have one TypeInfo.
`inner` is what is inside of a TypeInfo: the item type or what the alias stands for,
what is inside of that, and so on (`Item`). `isConstQualified` looks at the canonical
type (`CanonicalQuals`): through typedefs and parentheses, and at the elements of an
array.

Many types of Clang have no Visit function (`Unvisited`, `VisitOther`). Some have
others inside: `ParenType`, which is written in every pointer or reference to an
array, `IncompleteArrayType`, which is below `char* argv[]`, and
`MemberPointerType`; each also stands for those that Clang treats alike. For them the
visitor returns false and stops, and what is inside is lost: of `X* (*p)[3]` the
TypeInfo is a `NoType` with one pointer. `LayersKept` says this: every pointer up to the
layer at which the visitor stops is kept, every qualifier seen from there
(`Reached`, `Shown`), and nothing else. It does not say where in the TypeInfos they are.
It names another exception: an array whose elements are pointers to arrays, written with
a typedef, becomes an array of what these have inside, without the pointers. Names are
sequences of identifiers and `::`, so that `find_last` can find a name in the
wrong place. `IsType` says which sequences are types: as in C++ nothing points to a
reference and no array holds any, so that a reference is the outermost layer or below
typedefs, parentheses and alias templates only, and what decays is the whole type of a
parameter. Of a builtin type the kind is kept, of a template its name and, of a string,
what its first argument is. `VisitBuiltinType` sorts `wchar_t` with the characters
(`BuiltinClass`), so the branch that makes a `StdWstring` is never taken.

### MethodPrinter, ClassMethods

`declared` is a method as Clang knows it, `methodInfo` what `ReflectMethod` or
`ReflectImplicitSpecialMembers` has made of it, `printed` what each function has
printed since, with the masks given. The text is a sequence of words, with those
that end it (`Ending`: the semicolon, braces) included; names and parameter lists
are left out. A method has one parameter at most: the functions go through the
parameters one by one. `specifiers` and `trailing` are the words a method is written
with; `implied` is what Clang's `isVirtual`, `isConstexpr` and the like answer
without the word: of one that overrides, of a defaulted member, of an `operator
new`. The flags of a `MethodInfo` are both together (`Flags`). `FullQualifiedName`
of what has no name is empty, so that an implicit member of an unnamed class has
another scope than that of a named one (`NamedAlike`). Conversion functions that are
`explicit`, and templates, are left out. The faults that the functions have are part
of the properties: `PrintedSaysTheSame`, `MovedLvalues` and `NamedAlike` say in
which cases, and in no other, the result differs from the declaration. `IsListed`
ties the method to the list that `SpecialMembers` has made, so that a method printed
is one of the class.

### PluginSettings, ClingInterpreter, PluginHost

An entry of a `std::map` stays where it is, so `storage` maps plugins to places and
`contents` places to options; a reference that `getAllPluginOptions` returns is a
place in `held`. Nothing in `PerPluginSettings` is locked or checked, so its calls
are modelled as the code can rightly be used: one after the other, of whatever
task. `setPluginSettings` needs a free place for a new plugin; running out of
memory is left out.

`calls` is, for each sequence, the functions of the interpreter it is in. Code that
Cling runs may call the interpreter again (`Call` in a call); `callFunctionByName`
uses the interpreter only through `processCodeWithResult` (`ProcessCall`). Whether
the sequence checker is there is the build's matter (`Bound`, `Refused`); without it
nothing keeps two sequences apart, and the property does not say so. The
constructor runs the message loop (`idle loop`), in which settings may change, but
nobody can reach the interpreter yet. `null` is what is left if the constructor
returns early, in a build without assertions.

### CmdParser, CmdPaths

`CmdPaths` EXTENDS `CmdParser`: the parser and the functions run on one thread, so
that a call of either is over before the next begins. `vm_` is a function from the
options that have an entry to the values; an entry whose value is `None` is the
empty `boost::any` that a value leaves that could not be read, and `<<>>` is
`boost::none`. `InitUnparsable` (the parser throws), `InitStores` (`store` goes
through the arguments and may throw at any) and `InitAborts` (a `DCHECK`) are the
ways `init` ends; the last is kept in `last` as an outcome of its own, so that
`WellFormedIsAccepted` says when it happens. What `store` does is external
(`StoreArgument`, `WithDefaults`); that `init` neither clears the map nor looks
whether it was called before is the code's. `checkAsserts` is the build, chosen at
the start, so that one run sees both. `unregisteredOptions` ends the process in
every build for a comma in the key of an argument, as in `--a,b`, and for an empty
map (`Reportable`). Options that are registered under a key with an alias (`"a,b"`),
`getAs` for a type the option does not have, and options registered with
`composing()` or `required()` are not among the inputs.

A function is `getAs` (`Missing`, `BadCast`, `IntGiven`, `PathGiven`,
`LookForPath`) and then its sequence of questions to the file system; between any
two of them another process may change what is at the path (`Change`). An
exception is the caller's to catch: the program goes on after `threw`.

## What the runs show

| run | shows |
|---|---|
| `FuncParser_chars` | all strings of up to 4 of 9 kinds of characters, asserts on: `FunctionsAreTheCalls`, `GarbageStaysInside`, `Terminates`, `TypeOK` |
| `FuncParser_calls` | all strings of up to 6 of the 6 characters that make calls, asserts off: `ViewsAgree`, `ArgumentsAreTheCalls` |
| `Annotation_files` | two files, a header, and a third file without a file entry, where the process ends, asserts on: `BuffersHoldTheReplacements`, `AnnotationPicksOneMethod`, the refinement `ImplementsDispatch`, `TypeOK` |
| `Annotation_release` | no asserts, an unreadable file and one without an entry: `BuffersHoldTheReplacements`, `EditsStayInside`, `AllFilesHandled` |
| `Reflector` | any order of calls on redeclared, reopened, nested and specialised declarations in all kinds of contexts, asserts on: `TreeOK`, `PlacedWhereDeclared`, `OneInfoPerName`, `AnsweredAlike`, `InfoIsOfTheDecl`, `EveryCallReturns`, `TypeOK` |
| `Methods` | every class of the model listed: `ExactlyTheMembers`, `TwiceOnlyThen`; the methods of two of them looked at, both builds: `LayersKept`, `DescribedAgain` (types), `NamedAlike`, `PrintedSaysTheSame`, `DeclAgreesWithParts`, `MovedLvalues` (printing) |
| `Plugins` | two plugins and two sequences, both builds: `FoundStaysFound`, `OneSequenceInside` |
| `CmdPaths_race` | any number of calls of `init` and of the functions, both builds, changes by others: `UnregisteredAreUnknown`, `WellFormedIsAccepted`, `FirstValueStays`, `WhenCallsFail`, `DirectoryWasThere`, `FileWasThere`, `TypeOK` |

Each of the following runs checks one sentence of the repository, and TLC finds a
behaviour of the code that contradicts it (`findings` quotes the sentences):

| run | sentence | what happens |
|---|---|---|
| `Annotation_variable` | usage in `parser_constants.cc` | null pointer for what is no class |
| `Annotation_nested` | comment of `replaceWith` | text in front of an outer class that was replaced is erased |
| `Reflector_tree` | `DCHECK(nsTree)` | a class inside a class |
| `CmdPaths_assert` | comments of both functions | a `DCHECK` ends the process |

Other sentences that the modules contradict, without a run of their own: the example
above `functionArgument` (`b` becomes a value without a name, as the tests in the
same file say); `assert(is_in_args)` for a `,` outside parentheses (`CommaAsserts`);
the note in `extract_func_arg` that an empty argument name results in an empty value
(`=a` is a value of its own, see `IsCut`); the comment in
`AnnotateMatchCallback::run` that declarations of included files are to be told
apart (they are only logged); `replaceWith` for a declaration that is not followed
by `;` (`struct S { } s;` keeps its text, see `SemiAfter`); the comment of
`cmdKeyToFile` (a directory that is gone only while `DirectoryExists` looks passes
for a file; `FileWasThere` says what remains); and that of `cmdKeyToInt`, which
promises the greatest int for what cannot be converted (`init` returns false for it,
and `getAs` throws after that, see `WhenCallsFail`); the comment of
`MethodInfo::isImplicit`, "whether the declaration was implicitly generated" (a
default constructor declared with `= default`, and a move assignment declared in a
class without a move constructor, are listed once more as implicit, see
`TwiceOnlyThen`); the order `printMethodTrailing` is said to print, with `override`
and `final` (there is no flag for them, see `PrintedSaysTheSame`); `StdWstring`,
which no type is (see `BuiltinClass`).

### Bounds

* `FuncParser`: `MaxLen`. Four characters are enough for a quoted `;`, an escape,
  an unterminated quote, an empty argument, each after any other character; six
  for two calls with arguments, or one with two named arguments of the same name,
  or an unclosed call followed by another.
* `AnnotationPipeline`: two files with declarations are what it takes for edits to
  leak from one to the next, one header what it takes for a declaration to be seen
  twice; up to three declarations in a file, before, inside and behind one another,
  with replacements shorter and longer than the text. The declarations that
  `replaceWith` has trouble with come one at a time. Three maps of methods: names
  that hide each other, and names that do not.
* `AstReflector`: the unit in the head of `MCAstReflector`; `Asked` selects the
  declarations a run asks for, to keep the orders of calls few.
* `CmdPaths`: two options, one with a default; command lines of up to two of six
  arguments, one of them with a comma in its key, which is what it takes for an
  option to be given twice, or to be stored before another fails; `init` may be
  called without bound. `MaxChanges = 2` in a call: two changes are what it takes to
  pass a directory for a file.
* `SpecialMembers`: none, the set of classes is finite.
* `TypeInfo`: one type of every kind of leaf, names that repeat the name of a class
  in its scope and namespace, and up to five layers above, enough for an array of
  arrays of arrays, with pointers or a typedef in between or under a reference, or a
  reference or an array behind an alias template. What stops the visitor stands alone,
  and below and above each kind of layer. `MethodPrinter`: every set of flags that C++
  allows on a method, with a word that Clang implies or none; on special members the ways
  to define them, with the words implied by `= default`; named and unnamed classes, in
  a namespace and in a class or not.
* `ClassMethods`: `Watched`, the classes of which methods are printed: one that
  declares every special member and one that declares none, of which Clang has
  declared two. Between them every maker of a `MethodInfo` has its turn for every
  special member.
* `PluginHost`: `Entries`, one more than the plugins that can have settings; one
  option, since options do not touch each other; `MaxDepth = 3`, which is what a
  script that calls `callFunctionByName` takes.

### Fairness

The parser and the pipeline are straight code on one thread that waits for nothing:
weak fairness of their steps says that the program runs.
`AllFilesHandled` counts the end of the process as an end, and ClangTool goes
through its list without outside help. In `AstReflector` only `GetNamespace` is
fair: a call that has begun goes on, but nobody has to make calls. `CmdPaths`,
`ClassMethods` and `PluginHost` state no fairness: their functions have no loop whose
end is in question, nobody has to call them, and a script that Cling runs may never
return.

## What is proved

`FuncParserProofs`, for every alphabet, every set of inputs of any length and both
kinds of build:

* `TypeCorrect`: `Spec => []TypeOK`. That names hold no `=` rests on a lemma about
  `ExtractFuncArg`: the first `=` exists if any does (`SmallestInt`, the
  least-number principle, derived in `NaturalLemmas`).
* `ViewsAlwaysAgree`: `Spec => []ViewsAgree`. The invariant is inductive together
  with `TypeOK`; the core is the lemma that one more argument keeps `Groups`, where
  the positions of a name's values are extended by the new one.
* `GarbageNeverReported`: `Spec => []GarbageStaysInside`. Not inductive: the
  accumulators do hold garbage at the end. The strengthening says that until the
  loop has ended they hold none, and that nothing is reported after it.
* `FunctionsMatch`: `Spec => []FunctionsAreTheCalls`, for strings of any length. The
  inductive invariant `ReadInv` says where the parser is after `i` characters: its
  `mode` is what `Lexed` says of them, what it has read of the open call is the text
  of `Open` (the characters kept since the last end), and what it has reported is
  `Texts`, the texts of the calls that end among them (`CallsBy`). One more character
  changes both sides alike (`OpenCallNext`, `OpenCallEnds`). They rest on lemmas about
  `Ascending`: it satisfies its equation (`RecursionUpTo`, `TellsAlike`), so it can be
  continued by one element and cut off after the last.
* `ArgumentsMatch`: `Spec => []ArgumentsAreTheCalls`, for strings of any length.
  `ArgsInv` adds to `ReadInv` what has been collected of the open call (`Collected`):
  nothing while it is bare, all arguments but the last behind its `(`, all of them
  behind its `)`. It says nothing of `is_in_args` between calls, which is not reset: a
  call that is not closed leaves it set, and the next `(` clears what was collected by
  then. What one more
  character does to the places where a call is cut is in `PlacesAppend`,
  `ArgTextsPlain` and `ArgTextsCut`; `ArgTextOfExtract` says that `ExtractFuncArg` loses
  nothing but the `=`, `CutOfExtract` that it cuts at the first.

`AnnotationPipelineProofs`, for any files, headers, declarations and methods that
satisfy `FilesAssumption` and `InputAssumption`:

* `TypeCorrect`: `Spec => []TypeOK`, with the rewriter's buffers: `ReplaceText`
  keeps a buffer a buffer.
* `OneMethodPicked`: `Spec => []AnnotationPicksOneMethod`. If no name begins with
  another one, two names that both begin a text are equal.
* `PipelineImplementsDispatch`: `Spec => ImplementsDispatch`. A step of the pipeline
  is a step of `AnnotationDispatch` (the end of a file, or of the process) or
  leaves it unchanged. The inductive invariant adds to `TypeOK` that the outcomes
  so far are those the annotations ask for (`TraceOK`); at the end of a file its
  trace is then the expected one.
* `EditsStay`: `Spec => []EditsStayInside`, for files of any length and any number of
  replacements of any size. The invariant `InPlace` says where the positions of the
  file have gone: their order is kept for those outside the declarations and at the ends
  of these (within a declaration that was replaced it is not), and every token
  outside is found where its position has gone. The core is `EditKeeps`: one
  replacement keeps it, also with the size -1 of an invalid end.
* `BuffersHold`: `Spec => []BuffersHoldTheReplacements`. `TextInv` says of the middle of
  a file: the text is its tokens with the declarations handled so far exchanged
  (`Pieces`), and every token and declaration outside them begins and ends where its
  position has gone (`Holds`). The core is `TextEdit`: one replacement exchanges the
  pieces of its declaration, whatever is before and behind it and whether it has been
  replaced before. It rests on lemmas about texts put together of pieces
  (`ExchangedText`). A `;` belongs to its file (`FilesAssumption`).

`PluginHostProofs`, for any plugins, options, values, sequences and depth of calls:

* `SettingsFoundStay`: `HostSpec => []FoundStaysFound`. The invariant says that a
  plugin that has been found, or whose entry is held, has that entry still, and
  that before the first `getInstance` nobody holds anything; the core is the lemma
  that setting the settings of a plugin moves no entry.
* `OneSequenceAtATime`: `HostSpec => []OneSequenceInside`. Not inductive: a sequence
  may enter while another is inside unless the checker is bound to that one. The
  strengthening says that it is (`BoundToCaller`); it needs that "detached" is no
  sequence (`SequenceAssumption`).

`NamespacesTreeProofs` and `AstReflectorProofs`, for any translation unit: contexts
nested in any way, declarations of any names and bodies, calls in any order.

* `ReflectInvariance`: `Spec => []ReflectInv`. `TreeOK` is not inductive: in the
  middle of the recursion it depends on who waits for whom. `TreeInv` adds that the
  contexts on the stack are a path upwards in which none occurs twice (so none is
  entered twice), that none of those waiting has an info yet, and that what has been
  returned is the info of the parent of the one that goes on. `ReflectInv` adds what
  the running call asks for, that infos have the names of their contexts, that lists
  are those of their namespaces, and that what a caller was given is still listed.
* `TypeCorrect`, `TreeCorrect`, `OneInfo`, `Placed`, `Alike` and `InfoOfTheDecl` are
  the properties of the run `Reflector`. `Placed` compares two recursions, one
  up the contexts and one down the tree; they agree because the first context of a
  namespace lies in the same namespace as the others.
  `Alike` is about declarations in one namespace: those of a class or an enum share an
  info in whichever of its blocks they stand, those of a typedef within one block only,
  since `ReflectTypedef` asks for the block, and in two blocks they never do.
* Assumed of Clang: parents lead up to the unit (`ContextAssumption`); the contexts
  that open one namespace share its name, kind and parent namespace
  (`PrimaryAssumption`, `NamespaceAssumption`); the definition of a class defines
  itself and has its name (`DefinitionAssumption`).

`CmdPathsProofs`, for any options, values, command lines of any length and any number
of changes to the file system:

* `PathInvariance`: `Spec => []PathInv`. The core is the loop of `store`: the lemmas
  `StageStep` and `StagesFacts` say what is in the map after each argument, by the
  principle for loops in `NaturalLemmas`. Not one of the properties of the parser is
  inductive without knowing what an init that failed can have left (`NothingLeft`,
  `JustTheOptions`). `FileWasThere` needs what has been seen before each of the
  questions to the file system (`NoFileSoFar`), and `WhenCallsFail` that something
  was there at one of them (`LookedOK`).
* `Accepted` says of a well-formed command line which of the three ends `init` comes
  to; `UnregisteredOnes` what `unregisteredOptions` returns if it does, and what keeps
  it from returning; `Throws` when the functions throw and when they end the process.
* `TypeCorrect`, `Directory`, `File`, `Throws`, `Accepted` and `UnregisteredOnes` are
  invariants of the run `CmdPaths_race`, `FirstValue` its action property.
* Assumed: an option is an int or a path, no argument that is empty can be read as a
  number, defaults are values, and no registered key has a comma (`CmdParserAssumption`).

`ClassMethodsProofs`, for every class, types of any depth and any names:

* `Members`, `Twice`: `ExactlyTheMembers` and `TwiceOnlyThen`. The invariant counts
  each member: once if its statement has been passed and lists it, once more if the
  loop over the methods has met it.
* `MethodInvariance`: `ClassSpec => []MethodInv`. While `Create` runs, the TypeInfo of
  the outermost call describes the layers it has seen (`Describes`), there
  is a second one only below the first array or alias template, and all are infos
  (`IsInfo`): their three names are those of one declaration.
* `Described` is about names alone: where `find_last` finds the name again when it
  occurs more than once. `Moved` and `QualifiedNames` follow from the
  invariant; the last compares lengths, for any namespaces and scopes.
* `Layers`: `ClassSpec => []LayersKept`, by `LayersInvariance`. `LayersInv` says of the
  stack of TypeInfos (`Stacked`) where each call of `Create` has begun: the one at the
  top knows the qualifiers and pointers of the layers from there to the one visited
  (`Visits`, `Tells`), those below it of the layers up to the array or the alias at
  which they wait (`Waits`), and what has been returned knows all layers inside that
  are not `Flattened` (`Keeps`). The core is `ReturnNext`: the layers of one call are
  dropped either all or not at all (`FlattenedSegment`), so that `Item` drops just
  those. The visitor stops at the leaf or at a layer before it (`Stop`); what is
  behind that is never visited, and its qualifiers are known only as far as they are seen
  from there. That the qualifiers of a dropped TypeInfo are known outside (`ToldAll`)
  needs that no reference and nothing that decays is behind an array, and that none of
  the layers between the two arrays is one at which the visitor stops: they are then
  sugar, which `isConstQualified` looks through, or pointers.
* `SaysTheSame`, `DeclsAgree`: `PrintedSaysTheSame` and `DeclAgreesWithParts`, by
  `PrintInvariance`: what has been printed is what each function prints of the method
  that is looked at, with options that it was given. The words of a text are then known
  place by place, so that they can be compared with those of the declaration, or of the
  other text, for any set of specifiers and trailing words.
* Assumed of Clang: `IsType`, that names are sequences of identifiers, which words
  a declaration is written with, and which Clang may imply (`DeclsAssumption`).

What a recursive function computes is proved where it is needed by a minimal
counterexample (`RecursionUpTo` in `NaturalLemmas` for numbers, `RecursionOnContexts`
for contexts): where a value differs from the body at all, it does so at a least place.

Model-checked only: the liveness properties (`Terminates`, `AllFilesHandled`,
`EveryCallReturns`), which are out of this prover's reach. Every invariant and
action property of the passing runs is stated by a theorem.

## What is not modelled

* The text helpers of `clangUtils.cpp`: `joinWithSeparator`, the header guards,
  `normalizeFileName`, `buildIncludeDirective`, `extractTypeName`; and the names,
  parameter lists and separators that the method printer puts between its words.
  They turn one string into another with no state.
* Of a `TypeInfo` the printed name (which Clang makes), the number of bits and the
  sign of builtin types, the dimensions of arrays, and the arguments of templates
  other than the first of a string. `CreateForDescr` leaves the printed name out for
  the same reason.
* Of a method its access, locations and template parameters.
* The text that `callFunctionByName` assembles, and what Cling makes of any text.
* The plugin interface (`ToolPlugin`), the struct of transform rules
  (`clangPipeline`): no control flow of their own, and nothing in the repository runs
  them. The demo application uses nothing of flexlib.
* Clang, base, Boost and Cling are external; so are the methods of plugins, which
  live outside the repository.

## Plan

1. done: `FuncParser`, then `AnnotationPipeline` with `AnnotationDispatch`,
   `NamespacesTree` with `AstReflector`, `SpecialMembers`, `CmdParser` with
   `CmdPaths`; proofs of the first two.
2. done: `TypeInfo`, `MethodPrinter`, `ClassMethods`; `PluginSettings`,
   `ClingInterpreter`, `PluginHost` and its proofs.
3. done: proofs about the tree and the reflector, the command line and the paths, the
   special members, types and names; the parser's results compared with their
   reference; what the rewriting does to the text.
4. done: proofs of `PrintedSaysTheSame` and `DeclAgreesWithParts`, for any method
   C++ allows, and of `LayersKept`, by counting layers along the visit.
