------------------------------ MODULE CmdParser ------------------------------
(***************************************************************************)
(* cmd::BoostCmdParser: options are registered, and init parses the        *)
(* command line and stores what it finds in vm_.  Nothing keeps a program  *)
(* from calling init again, after it has failed or to add a second command *)
(* line; vm_ is not cleared then.                                          *)
(*                                                                         *)
(* An option holds a boost::optional<int> or a boost::optional<string>,    *)
(* the two types that the functions of boost_command_line.cpp read.  What  *)
(* boost::program_options does is external.                                *)
(***************************************************************************)
EXTENDS Naturals, SequencesExt

CONSTANTS
  Option,         \* what may be registered
  Type,           \* of an option: "int" or "path"
  Default,        \* of an option: <<value>>, <<>> for boost::none, or None
  Unknown,        \* the keys of arguments that are no options
  WithComma,      \* those of them that have a comma in them
  Value,          \* what may be given for an option, "empty" for no text
  Numbers,        \* the values that can be read as an int
  Argument,       \* what a command line is made of: keys with values
  MaxArguments,   \* the length of a command line
  Builds,         \* TRUE is a build in which DCHECK ends the process, FALSE one
                  \* in which it does nothing
  None

ASSUME CmdParserAssumption ==
  /\ Type \in [Option -> {"int", "path"}]
  /\ Default \in [Option -> {None, <<>>} \cup {<<v>> : v \in Value}]
  /\ Unknown \cap Option = {} /\ WithComma \subseteq Unknown
  /\ None \notin Option \cup Value /\ None \notin {<<>>} \cup {<<v>> : v \in Value}
  /\ Numbers \subseteq Value \ {"empty"}
  /\ Argument \subseteq [key : Option \cup Unknown, value : Value]
  /\ MaxArguments \in Nat /\ Builds \subseteq BOOLEAN

VARIABLES
  checkAsserts,     \* the build that is running
  desc_,            \* the registered options
  vm_,              \* what is stored, by option
  m_final,          \* the options of vm_ that store passes over
  parsed_options_,  \* the command line that was parsed last, or None
  last,             \* of the last init: the arguments, the options registered
                    \* then, the outcome, whether one before it had failed and
                    \* what such an init had left
  dead              \* a check of the parser has ended the process

parserVars == <<checkAsserts, desc_, vm_, m_final, parsed_options_, last, dead>>

CommandLines == SeqOf(Argument, MaxArguments)

\* A command line that the style does not allow: the parser throws.
Unparsable == None

\* It returns true or false, or ends the process.
Outcomes == {"accepted", "refused", "ended"}

\* What is known of an init.
Inits == [arguments : {Unparsable} \cup CommandLines, known : SUBSET Option,
          outcome : Outcomes, failedBefore : BOOLEAN, left : SUBSET Option]

ASSUME InitsAssumption == None \notin Inits \cup CommandLines

-------------------------------------------------------------------------------
(* boost::program_options::store.                                          *)

\* An entry without a value is what a value that could not be read leaves.
Entry(value, defaulted) == [value |-> value, defaulted |-> defaulted]

Convertible(a) == Type[a.key] = "int" => a.value \in Numbers

\* One argument: passed over, stored, or the reason to throw.
StoreArgument(s, a) ==
  IF s.threw \/ a.key \notin desc_ \/ a.key \in m_final THEN s
  ELSE LET given  == a.key \in DOMAIN s.vm /\ ~s.vm[a.key].defaulted
           twice  == given /\ s.vm[a.key].value # None
           stored == IF twice THEN s.vm[a.key]
                     ELSE Entry(IF Convertible(a) THEN <<a.value>> ELSE None, FALSE)
       IN  [vm |-> [o \in DOMAIN s.vm \cup {a.key} |->
                      IF o = a.key THEN stored ELSE s.vm[o]],
            threw |-> twice \/ ~Convertible(a)]

\* The defaults come last, for the options that have no entry.
WithDefaults(vm) ==
  [o \in DOMAIN vm \cup {p \in desc_ : Default[p] # None} |->
     IF o \in DOMAIN vm THEN vm[o] ELSE Entry(Default[o], TRUE)]

\* What is in the map after each of the arguments; vm is what is in it before.
Stages(vm, arguments) ==
  LET s[k \in 0..Len(arguments)] ==
        IF k = 0 THEN [vm |-> vm, threw |-> FALSE]
        ELSE StoreArgument(s[k - 1], arguments[k])
  IN  s

Store(vm, arguments) ==
  LET s == Stages(vm, arguments)[Len(arguments)]
  IN  IF s.threw THEN s ELSE [s EXCEPT !.vm = WithDefaults(@)]

Final(arguments) == {a \in desc_ : \E i \in DOMAIN arguments : arguments[i].key = a}

-------------------------------------------------------------------------------
ParserInit ==
  /\ checkAsserts \in Builds
  /\ desc_ = {} /\ m_final = {}
  /\ vm_ = <<>>
  /\ parsed_options_ = None
  /\ last = None
  /\ dead = FALSE

Failed == last # None /\ (last.failedBefore \/ last.outcome = "refused")

\* The options whose value an init that failed has left behind: none that
\* succeeded has made them final.
Left == {o \in DOMAIN vm_ : ~vm_[o].defaulted /\ vm_[o].value # None} \ m_final

Register(o) ==
  /\ ~dead /\ o \notin desc_
  /\ desc_' = desc_ \cup {o}
  /\ UNCHANGED <<checkAsserts, vm_, m_final, parsed_options_, last, dead>>

Initialized(arguments, outcome) ==
  last' = [arguments |-> arguments, known |-> desc_, outcome |-> outcome,
           failedBefore |-> Failed, left |-> Left]

\* DCHECK(!desc_.options().empty()).
NothingRegistered == checkAsserts /\ desc_ = {}

\* The parser throws before the result is assigned.
InitUnparsable ==
  /\ ~dead /\ ~NothingRegistered
  /\ Initialized(Unparsable, "refused")
  /\ UNCHANGED <<checkAsserts, desc_, vm_, m_final, parsed_options_, dead>>

\* Faulty: the assertion comes before the arguments are stored.
MutNothingStored(s) == checkAsserts /\ ~s.threw /\ DOMAIN vm_ = {}

\* DCHECK(!vm_.empty()): no option was given, now or before, and none has a default.
NothingStored(s) == checkAsserts /\ ~s.threw /\ DOMAIN s.vm = {}

\* Faulty: an init begins with an empty map.
MutInitStores(arguments) ==
  /\ ~dead /\ ~NothingRegistered
  /\ LET s == Store(<<>>, arguments)
     IN  /\ ~NothingStored(s)
         /\ vm_' = s.vm
         /\ m_final' = IF s.threw THEN m_final ELSE m_final \cup Final(arguments)
         /\ Initialized(arguments, IF s.threw THEN "refused" ELSE "accepted")
  /\ parsed_options_' = arguments
  /\ UNCHANGED <<checkAsserts, desc_, dead>>

\* An exception is caught, and what was stored before remains.
InitStores(arguments) ==
  /\ ~dead /\ ~NothingRegistered
  /\ LET s == Store(vm_, arguments)
     IN  /\ ~NothingStored(s)
         /\ vm_' = s.vm
         /\ m_final' = IF s.threw THEN m_final ELSE m_final \cup Final(arguments)
         /\ Initialized(arguments, IF s.threw THEN "refused" ELSE "accepted")
  /\ parsed_options_' = arguments
  /\ UNCHANGED <<checkAsserts, desc_, dead>>

\* One of the two assertions fails: before the arguments are parsed, or after
\* nothing of them was stored.
InitAborts(arguments) ==
  /\ ~dead
  /\ \/ NothingRegistered /\ parsed_options_' = parsed_options_
     \/ /\ ~NothingRegistered /\ arguments # Unparsable
        /\ NothingStored(Store(vm_, arguments)) /\ parsed_options_' = arguments
  /\ dead' = TRUE
  /\ Initialized(arguments, "ended")
  /\ UNCHANGED <<checkAsserts, desc_, vm_, m_final>>

\* The arguments with other keys, in their order.
Without(arguments, keys) ==
  LET f[k \in 0..Len(arguments)] ==
        IF k = 0 THEN <<>>
        ELSE IF arguments[k].key \in keys THEN f[k - 1]
        ELSE Append(f[k - 1], arguments[k])
  IN  f[Len(arguments)]

\* Faulty: what is not registered is reported.
MutUnregistered == Without(parsed_options_, desc_)

\* What unregisteredOptions returns: the arguments that are not in the map.
Unregistered == Without(parsed_options_, DOMAIN vm_)

\* CHECK(parsed_options_), CHECK(!vm_.empty()) and, for every argument, that there
\* is no comma in its key, in every build.
Reportable ==
  /\ parsed_options_ # None /\ DOMAIN vm_ # {}
  /\ \A i \in DOMAIN parsed_options_ : parsed_options_[i].key \notin WithComma

UnregisteredOptions ==
  /\ ~dead
  /\ IF Reportable THEN UNCHANGED parserVars
     ELSE dead' = TRUE /\ UNCHANGED <<checkAsserts, desc_, vm_, m_final, parsed_options_, last>>

ParserNext ==
  \/ \E o \in Option : Register(o)
  \/ \E arguments \in CommandLines : InitStores(arguments)
  \/ \E arguments \in {Unparsable} \cup CommandLines : InitAborts(arguments)
  \/ InitUnparsable \/ UnregisteredOptions

-------------------------------------------------------------------------------
ParserTypeOK ==
  /\ checkAsserts \in Builds
  /\ desc_ \subseteq Option /\ m_final \subseteq DOMAIN vm_
  /\ DOMAIN vm_ \subseteq desc_
  /\ \A o \in DOMAIN vm_ :
       \/ vm_[o] \in [value : {<<v>> : v \in Value}, defaulted : {FALSE}]
       \/ vm_[o] = Entry(None, FALSE) \/ vm_[o] = Entry(Default[o], TRUE)
  /\ parsed_options_ \in {None} \cup CommandLines
  /\ last \in {None} \cup Inits
  /\ dead \in BOOLEAN

\* BoostCmdParser::unregisteredOptions looks the arguments up in vm_, which is
\* not the work of the last init alone.  After an init that succeeded it returns,
\* if it returns, just what was no option at that time, in the order of the command
\* line, even if an init before failed or more options have been registered since.
\* In a build with assertions only an argument with a comma in its key keeps it from
\* returning; without them an empty map does as well.
UnregisteredAreUnknown ==
  last # None /\ last.outcome = "accepted" =>
    /\ Reportable => Unregistered = Without(last.arguments, last.known)
    /\ checkAsserts => (Reportable <=> \A i \in DOMAIN last.arguments :
                                         last.arguments[i].key \notin WithComma)

\* No option is given twice, and every value can be read.
WellFormed(arguments, known) ==
  /\ arguments # Unparsable
  /\ \A i \in DOMAIN arguments : arguments[i].key \in known =>
       /\ Convertible(arguments[i])
       /\ \A j \in DOMAIN arguments : arguments[i].key = arguments[j].key => i = j

\* No argument is for an option, and no option has a default.
NothingGiven(arguments, known) ==
  /\ \A i \in DOMAIN arguments : arguments[i].key \notin known
  /\ \A o \in known : Default[o] = None

\* BoostCmdParser::init refuses a well-formed command line exactly if it gives an
\* option whose value an init that failed has left: to try again with corrected
\* arguments fails for good, if they repeat what was right.  It ends the process
\* exactly if there are assertions and neither this command line nor one before nor
\* a default puts anything into the map.  It accepts all others.
WellFormedIsAccepted ==
  last # None =>
    /\ last.left # {} => last.failedBefore
    /\ WellFormed(last.arguments, last.known) =>
         /\ last.outcome = "refused" <=>
              \E i \in DOMAIN last.arguments : last.arguments[i].key \in last.left
         /\ last.outcome = "ended" <=>
              /\ checkAsserts /\ DOMAIN vm_ = {}
              /\ NothingGiven(last.arguments, last.known)

\* vm_ keeps the first value that is given for an option, whatever later calls of
\* init are given and whether they fail.
FirstValueStays ==
  [][\A o \in DOMAIN vm_ : ~vm_[o].defaulted /\ vm_[o].value # None =>
       o \in DOMAIN vm_' /\ vm_'[o] = vm_[o]]_parserVars
===============================================================================
