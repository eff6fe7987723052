---------------------------- MODULE PluginSettings ----------------------------
(***************************************************************************)
(* PerPluginSettings: one map from plugins to their options, made when it  *)
(* is first asked for.  An entry of a std::map stays where it is, so the   *)
(* model has the map of entries and apart from it what the entries hold;   *)
(* callers keep references to entries.                                     *)
(***************************************************************************)
EXTENDS Functions

CONSTANTS
  Plugins,   \* names of plugins, the empty one included
  NoName,    \* the empty name
  Options, Values,
  NoValue,   \* the empty value
  Entries    \* a bound: places in memory where entries may be

ASSUME SettingsAssumption == NoName \in Plugins /\ NoValue \in Values

VARIABLES
  instance,   \* PerPluginSettings::instance is not null
  storage,    \* storage_: the entry of each plugin that has one
  contents,   \* what an entry holds
  held,       \* references that getAllPluginOptions has returned, and for what
  found,      \* plugins for which hasPluginOptions has returned true
  ended       \* the process has ended

settingsVars == <<instance, storage, contents, held, found, ended>>

OptionKVs == UNION {[O -> Values] : O \in SUBSET Options}
NoOptions == [o \in {} |-> NoValue]

SettingsInit ==
  /\ instance = FALSE
  /\ storage = [p \in {} |-> NoName]
  /\ contents = [e \in Entries |-> NoOptions]
  /\ held = {} /\ found = {}
  /\ ended = FALSE

\* CHECK, which every build has.
CheckFails ==
  /\ ended' = TRUE
  /\ UNCHANGED <<instance, storage, contents, held, found>>

getInstance ==
  /\ instance' = TRUE
  /\ storage' = IF instance THEN storage ELSE [p \in {} |-> NoName]
  /\ UNCHANGED <<contents, held, found, ended>>

Free == Entries \ Range(storage)

\* Faulty: the old entry is erased and another one inserted.
MutEntryOf(p) == CHOOSE e \in Free : TRUE

\* storage_[pluginName].
EntryOf(p) == IF p \in DOMAIN storage THEN storage[p] ELSE CHOOSE e \in Free : TRUE

\* map[key] = value.
Put(map, key, value) ==
  [k \in DOMAIN map \cup {key} |-> IF k = key THEN value ELSE map[k]]

setPluginSettings(p, optionKV) ==
  IF p = NoName \/ DOMAIN optionKV = {}
  THEN CheckFails
  ELSE /\ p \in DOMAIN storage \/ Free # {}
       /\ storage' = Put(storage, p, EntryOf(p))
       /\ contents' = [contents EXCEPT ![EntryOf(p)] = optionKV]
       /\ UNCHANGED <<instance, held, found, ended>>

ValueIn(optionKV, o) == IF o \in DOMAIN optionKV THEN optionKV[o] ELSE NoValue

\* What getPluginOption returns.
PluginOption(p, o) ==
  IF p \in DOMAIN storage THEN ValueIn(contents[storage[p]], o) ELSE NoValue

\* It returns false for a plugin without settings, and changes nothing.
setPluginOption(p, o, value) ==
  /\ contents' = IF p \in DOMAIN storage
                 THEN [contents EXCEPT ![storage[p]] = Put(@, o, value)]
                 ELSE contents
  /\ UNCHANGED <<instance, storage, held, found, ended>>

getAllPluginOptions(p) ==
  IF p \notin DOMAIN storage
  THEN CheckFails
  ELSE /\ held' = held \cup {[plugin |-> p, entry |-> storage[p]]}
       /\ UNCHANGED <<instance, storage, contents, found, ended>>

hasPluginOptions(p) ==
  /\ found' = IF p \in DOMAIN storage THEN found \cup {p} ELSE found
  /\ UNCHANGED <<instance, storage, contents, held, ended>>

\* Nothing is called but through the instance.
SettingsStep ==
  \/ getInstance
  \/ /\ instance
     /\ \E p \in Plugins :
          \/ \E optionKV \in OptionKVs : setPluginSettings(p, optionKV)
          \/ \E o \in Options, value \in Values : setPluginOption(p, o, value)
          \/ getAllPluginOptions(p)
          \/ hasPluginOptions(p)

\* What a caller has been told holds later on, whatever others set in between: a
\* plugin that has options still has some, so that asking for all of them does not
\* end the process, and a reference shows what getPluginOption answers, also after
\* the plugin's settings have been replaced as a whole.
FoundStaysFound ==
  /\ \A p \in found : p \in DOMAIN storage
  /\ \A h \in held : \A o \in Options :
       ValueIn(contents[h.entry], o) = PluginOption(h.plugin, o)
===============================================================================
