--------------------------- MODULE PluginHostProofs ---------------------------
(***************************************************************************)
(* For any plugins, options and threads: what a caller has been told of a  *)
(* plugin's settings stays true, and the sequence checker keeps the        *)
(* interpreter to one sequence.                                            *)
(***************************************************************************)
EXTENDS PluginHost, TLAPS

-------------------------------------------------------------------------------
(* The settings. *)

\* No entry moves once it is there, and what callers hold are entries.
HeldOK ==
  /\ found \subseteq DOMAIN storage
  /\ \A h \in held : h.plugin \in DOMAIN storage /\ h.entry = storage[h.plugin]

SettingsInv == HeldOK /\ (~instance => found = {} /\ held = {})

\* Nothing that is told is untold as long as the entries there are stay.
LEMMA HeldStays ==
  ASSUME HeldOK, found' = found, held' = held,
         DOMAIN storage \subseteq DOMAIN storage',
         \A p \in DOMAIN storage : storage'[p] = storage[p]
  PROVE  HeldOK'
BY DEF HeldOK

\* Setting the settings of a plugin gives it an entry, or leaves it the one it has.
LEMMA EntriesStay ==
  ASSUME NEW p, storage' = Put(storage, p, EntryOf(p))
  PROVE  /\ DOMAIN storage \subseteq DOMAIN storage'
         /\ \A q \in DOMAIN storage : storage'[q] = storage[q]
BY DEF EntryOf, Put

LEMMA SettingsInvariance ==
  SettingsInv /\ [HostNext]_hostVars => SettingsInv'
<1> SUFFICES ASSUME SettingsInv, [HostNext]_hostVars
             PROVE  SettingsInv'
  OBVIOUS
<1>1. CASE UNCHANGED settingsVars
  BY <1>1 DEF SettingsInv, HeldOK, settingsVars
<1>2. CASE getInstance
  BY <1>2 DEF SettingsInv, HeldOK, getInstance
<1>3. CASE CheckFails
  BY <1>3 DEF SettingsInv, HeldOK, CheckFails
<1>4. ASSUME instance, NEW p \in Plugins, NEW optionKV \in OptionKVs,
             setPluginSettings(p, optionKV)
      PROVE  SettingsInv'
  <2>1. CASE p = NoName \/ DOMAIN optionKV = {}
    BY <1>3, <1>4, <2>1 DEF setPluginSettings
  <2>2. CASE ~(p = NoName \/ DOMAIN optionKV = {})
    <3>1. /\ instance' /\ held' = held /\ found' = found
          /\ storage' = Put(storage, p, EntryOf(p))
      BY <1>4, <2>2 DEF setPluginSettings
    <3>2. HeldOK'
      BY <3>1, EntriesStay, HeldStays DEF SettingsInv
    <3>3. QED
      BY <3>1, <3>2 DEF SettingsInv
  <2>3. QED
    BY <2>1, <2>2
<1>5. ASSUME instance, NEW p \in Plugins, NEW o \in Options, NEW value \in Values,
             setPluginOption(p, o, value)
      PROVE  SettingsInv'
  BY <1>5 DEF SettingsInv, HeldOK, setPluginOption
<1>6. ASSUME instance, NEW p \in Plugins, getAllPluginOptions(p)
      PROVE  SettingsInv'
  <2>1. CASE p \notin DOMAIN storage
    BY <1>3, <1>6, <2>1 DEF getAllPluginOptions
  <2>2. CASE p \in DOMAIN storage
    BY <1>6, <2>2 DEF SettingsInv, HeldOK, getAllPluginOptions
  <2>3. QED
    BY <2>1, <2>2
<1>7. ASSUME instance, NEW p \in Plugins, hasPluginOptions(p)
      PROVE  SettingsInv'
  BY <1>7 DEF SettingsInv, HeldOK, hasPluginOptions
<1>8. QED
  BY <1>1, <1>2, <1>4, <1>5, <1>6, <1>7 DEF HostNext, SettingsStep, hostVars

\* For any plugins and options: a plugin that has been found to have options keeps
\* some, and a reference to them shows what getPluginOption answers, whoever
\* replaces them.
THEOREM SettingsFoundStay == HostSpec => []FoundStaysFound
<1>1. HostInit => SettingsInv
  BY DEF HostInit, SettingsInit, SettingsInv, HeldOK
<1>2. SettingsInv => FoundStaysFound
  BY DEF SettingsInv, HeldOK, FoundStaysFound, PluginOption
<1>3. QED
  BY <1>1, <1>2, SettingsInvariance, PTL DEF HostSpec

-------------------------------------------------------------------------------
(* The interpreter. *)

\* The sequence that is inside is the one the checker is bound to.
BoundToCaller ==
  /\ calls = [s \in Threads |-> calls[s]]
  /\ asserts => \A s \in Threads : calls[s] # <<>> => sequence = s

\* A function is entered on the bound sequence only, which is then the caller's.
LEMMA EnterKeeps ==
  ASSUME BoundToCaller, NEW s \in Threads, NEW function, NEW isEmpty,
         Enter(s, function, isEmpty)
  PROVE  BoundToCaller'
<1>1. CASE Ends
  BY <1>1 DEF Ends, BoundToCaller
<1>2. CASE ~Ends
  <2>1. /\ asserts => CalledOnValidSequence(s)
        /\ sequence' = Bound(s)
        /\ calls' = [calls EXCEPT ![s] = <<function>> \o @]
        /\ asserts' = asserts
    BY <1>2 DEF Enter, Refused
  <2>2. calls' = [t \in Threads |-> calls'[t]]
    BY <2>1 DEF BoundToCaller
  <2>3. ASSUME asserts', NEW t \in Threads, calls'[t] # <<>>
        PROVE  sequence' = t
    <3>1. sequence' = s
      BY <2>1, <2>3 DEF Bound
    <3>2. CASE t # s
      <4>1. calls[t] # <<>>
        BY <2>1, <2>3, <3>2 DEF BoundToCaller
      <4>2. sequence = t
        BY <2>1, <2>3, <4>1 DEF BoundToCaller
      <4>3. QED
        BY <2>1, <2>3, <3>2, <4>2, SequenceAssumption DEF CalledOnValidSequence
    <3>3. QED
      BY <3>1, <3>2
  <2>4. QED
    BY <2>2, <2>3 DEF BoundToCaller
<1>3. QED
  BY <1>1, <1>2

\* A return leaves nothing behind on a sequence that was not inside.
LEMMA ReturnKeeps ==
  ASSUME BoundToCaller, NEW s \in Threads, Return(s)
  PROVE  BoundToCaller'
<1>1. CASE Ends
  BY <1>1 DEF Ends, BoundToCaller
<1>2. CASE ~Ends
  <2>1. PICK rest : /\ calls' = [calls EXCEPT ![s] = rest]
                    /\ UNCHANGED <<asserts, sequence>>
    BY <1>2 DEF Return
  <2>2. calls[s] # <<>>
    BY DEF Return
  <2>3. QED
    BY <2>1, <2>2 DEF BoundToCaller
<1>3. QED
  BY <1>1, <1>2

LEMMA BoundInvariance ==
  BoundToCaller /\ [HostNext]_hostVars => BoundToCaller'
<1> SUFFICES ASSUME BoundToCaller, [HostNext]_hostVars
             PROVE  BoundToCaller'
  OBVIOUS
<1>1. CASE UNCHANGED clingVars
  BY <1>1 DEF BoundToCaller, clingVars
<1>2. ASSUME NEW obstacle, BeginConstruct(obstacle)
      PROVE  BoundToCaller'
  BY <1>2 DEF BeginConstruct, Becomes, Ends, BoundToCaller
<1>3. ASSUME NEW defined, EndConstruct(defined)
      PROVE  BoundToCaller'
  BY <1>3 DEF EndConstruct, Becomes, Ends, BoundToCaller
<1>4. ASSUME NEW s \in Threads, Call(s)
      PROVE  BoundToCaller'
  BY <1>4, EnterKeeps DEF Call
<1>5. ASSUME NEW s \in Threads, ProcessCall(s)
      PROVE  BoundToCaller'
  BY <1>5, EnterKeeps DEF ProcessCall
<1>6. ASSUME NEW s \in Threads, Return(s)
      PROVE  BoundToCaller'
  BY <1>6, ReturnKeeps
<1>7. QED
  BY <1>1, <1>2, <1>3, <1>4, <1>5, <1>6 DEF HostNext, ClingStep, hostVars

\* For any number of sequences and any depth of calls: in a build with assertions
\* one sequence at most is inside the interpreter.
THEOREM OneSequenceAtATime == HostSpec => []OneSequenceInside
<1>1. HostInit => BoundToCaller
  BY DEF HostInit, ClingInit, BoundToCaller
<1>2. BoundToCaller => OneSequenceInside
  BY DEF BoundToCaller, OneSequenceInside
<1>3. QED
  BY <1>1, <1>2, BoundInvariance, PTL DEF HostSpec
===============================================================================
