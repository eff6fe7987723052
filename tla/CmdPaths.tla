-------------------------------- MODULE CmdPaths -------------------------------
(***************************************************************************)
(* The functions of boost_command_line.cpp: they look a key up in the      *)
(* parser of CmdParser, and cmdKeyToDirectory and cmdKeyToFile make an     *)
(* absolute path of its value, if there is a directory or a file of that   *)
(* name.  The file system is asked several times over, and other processes *)
(* go on changing it meanwhile.                                            *)
(***************************************************************************)
EXTENDS CmdParser

CONSTANT MaxChanges   \* how often the others change what is at the path in a call

ASSUME CmdPathsAssumption == MaxChanges \in Nat

VARIABLES
  entry,      \* what there is at the path: "nothing", "file" or "directory"
  changes,    \* how often that has changed in a call
  function,   \* the function that is running or None
  key,        \* the option it was called for
  step,       \* what the function does next
  path,       \* what it has made of the argument
  seen        \* what has been at the path since the function looks

pathVars == <<entry, changes, function, key, step, path, seen>>
vars     == <<parserVars, pathVars>>

Entries   == {"nothing", "file", "directory"}
Functions == {"cmdKeyToDirectory", "cmdKeyToFile", "getAsPath", "cmdKeyToInt"}
Steps     == {"idle", "getAs", "makeAbsolute", "dcheck", "pathExists",
              "directoryExists", "getFileInfo", "returned", "threw", "aborted"}

Init ==
  /\ ParserInit
  /\ entry = "nothing" /\ changes = 0 /\ seen = {}
  /\ function = None /\ key = None
  /\ step = "idle" /\ path = "empty"

\* A function that looks for a directory or a file.
Looks   == function \in {"cmdKeyToDirectory", "cmdKeyToFile"}
Idle    == step = "idle" /\ ~dead
Looking == step \in {"makeAbsolute", "dcheck", "pathExists", "directoryExists",
                     "getFileInfo"}

\* A function is called for an option of its type, registered or not.
Call(f, o) ==
  /\ Idle
  /\ Type[o] = IF f = "cmdKeyToInt" THEN "int" ELSE "path"
  /\ function' = f /\ key' = o
  /\ step' = "getAs"
  /\ UNCHANGED <<parserVars, entry, changes, path, seen>>

\* The caller goes on, after an exception too.
Return ==
  /\ step \in {"returned", "threw"}
  /\ entry' = "nothing" /\ changes' = 0 /\ seen' = {}
  /\ function' = None /\ key' = None
  /\ step' = "idle" /\ path' = "empty"
  /\ UNCHANGED parserVars

\* Another process makes, removes or replaces what is there.
Change(e) ==
  /\ changes < MaxChanges /\ Looking /\ e # entry
  /\ entry' = e
  /\ changes' = changes + 1
  /\ seen' = seen \cup {e}
  /\ UNCHANGED <<parserVars, function, key, step, path>>

Go(s, p) ==
  /\ step' = s /\ path' = p
  /\ UNCHANGED <<parserVars, entry, changes, function, key, seen>>

Count == key \in DOMAIN vm_

\* Faulty: the option is read without being counted.
MutMissing ==
  step = "getAs" /\ ~Count /\ Go("aborted", "empty")

\* Without an entry for the key the result is empty, or the greatest int.
Missing ==
  step = "getAs" /\ ~Count /\ Go("returned", "empty")

\* What is left of a value that could not be read.
Unread == Count /\ vm_[key].value = None

\* variable_value::as for an entry without a value.
BadCast ==
  step = "getAs" /\ Unread /\ Go("threw", "empty")

Stored == step = "getAs" /\ Count /\ ~Unread

IntGiven ==
  /\ Stored /\ function = "cmdKeyToInt"
  /\ Go("returned", "empty")

\* Faulty: an empty value is a path as well.
MutIsPath == vm_[key].value # <<>>

\* A value that is boost::none or empty is no path.
IsPath == vm_[key].value \notin {<<>>, <<"empty">>}

PathGiven ==
  /\ Stored /\ function # "cmdKeyToInt"
  /\ ~IsPath \/ function = "getAsPath"
  /\ Go("returned", IF IsPath THEN "given" ELSE "empty")

\* From here on the file system is asked, which is in any state by then.
LookForPath ==
  /\ Stored /\ Looks /\ IsPath
  /\ step' = "makeAbsolute" /\ path' = "given"
  /\ entry' \in Entries /\ seen' = {entry'}
  /\ UNCHANGED <<parserVars, changes, function, key>>

\* MakeAbsoluteFilePath fails if there is nothing.
MakeAbsolute ==
  /\ step = "makeAbsolute"
  /\ Go("dcheck", IF entry = "nothing" THEN "empty" ELSE "absolute")

Dcheck ==
  /\ step = "dcheck"
  /\ IF path = "empty" /\ checkAsserts THEN Go("aborted", path)
     ELSE Go("pathExists", path)

\* There is nothing at the empty path.
ExistsNow == path = "absolute" /\ entry # "nothing"

PathExists ==
  /\ step = "pathExists"
  /\ IF ExistsNow THEN Go("directoryExists", path) ELSE Go("returned", "empty")

\* Faulty: what is not a directory is returned as well.
MutDirectoryExists ==
  /\ step = "directoryExists"
  /\ IF function = "cmdKeyToDirectory" THEN Go("returned", path)
     ELSE IF entry = "directory" THEN Go("returned", "empty")
     ELSE Go("getFileInfo", path)

DirectoryExists ==
  /\ step = "directoryExists"
  /\ IF function = "cmdKeyToDirectory"
     THEN Go("returned", IF entry = "directory" THEN path ELSE "empty")
     ELSE IF entry = "directory" THEN Go("returned", "empty")
     ELSE Go("getFileInfo", path)

\* Faulty: that there is nothing goes unnoticed.
MutGetFileInfo ==
  /\ step = "getFileInfo"
  /\ Go("returned", path)

\* stat succeeds for a directory as well.
GetFileInfo ==
  /\ step = "getFileInfo"
  /\ Go("returned", IF entry = "nothing" THEN "empty" ELSE path)

FunctionStep ==
  \/ Missing \/ BadCast \/ IntGiven \/ PathGiven \/ LookForPath
  \/ MakeAbsolute \/ Dcheck \/ PathExists \/ DirectoryExists \/ GetFileInfo

\* The parser and the functions run on one thread.
Parser == Idle /\ ParserNext /\ UNCHANGED pathVars

Finished == (dead \/ step = "aborted") /\ UNCHANGED vars

Next ==
  \/ Parser
  \/ \E f \in Functions, o \in Option : Call(f, o)
  \/ FunctionStep
  \/ \E e \in Entries : Change(e)
  \/ Return
  \/ Finished

Spec == Init /\ [][Next]_vars

-------------------------------------------------------------------------------
Answered == step = "returned" /\ path = "absolute"

\* The types of the variables; only a value that is a path becomes one.
TypeOK ==
  /\ ParserTypeOK
  /\ entry \in Entries /\ changes \in 0..MaxChanges /\ seen \subseteq Entries
  /\ function \in Functions \cup {None} /\ key \in Option \cup {None}
  /\ step \in Steps /\ path \in {"empty", "given", "absolute"}
  /\ Looking \/ Answered => entry \in seen
  /\ path # "empty" => Count /\ vm_[key].value \notin {None, <<>>, <<"empty">>}

\* cmdKeyToDirectory: whatever the others do, a path that is returned was that of
\* a directory while the function was looking.
DirectoryWasThere ==
  Answered /\ function = "cmdKeyToDirectory" => "directory" \in seen

\* cmdKeyToFile cannot promise as much: what it returns there was when it looked
\* last, and if the path changed less than twice it was a file at some time.
FileWasThere ==
  Answered /\ function = "cmdKeyToFile" =>
    entry # "nothing" /\ (changes < 2 => "file" \in seen)

\* The functions return whatever init has stored, with two exceptions.  They throw
\* exactly for an option whose value an init could not read, cmdKeyToInt too, that is
\* to return the greatest int then; and with assertions they end the process, which
\* they always do if there is nothing at the path as long as they look.
WhenCallsFail ==
  /\ step \in {"returned", "threw"} =>
       (step = "threw" <=> Unread)
  /\ step = "threw" => Failed
  /\ step = "aborted" => checkAsserts /\ Looks /\ "nothing" \in seen
  /\ step = "returned" /\ checkAsserts => seen # {"nothing"}

\* The comments of both functions: an empty path is returned for a path that is
\* not valid.  Nothing ends the process.
InvalidGivesEmpty == step # "aborted"
===============================================================================
