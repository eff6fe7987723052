------------------------------ MODULE PluginHost ------------------------------
(***************************************************************************)
(* A process that loads plugins: scripts are run by the interpreter, and   *)
(* settings are read and written by tasks and by those scripts, also while *)
(* the constructor of the interpreter runs the message loop.               *)
(***************************************************************************)
EXTENDS PluginSettings, ClingInterpreter

hostVars == <<settingsVars, clingVars>>

HostInit == SettingsInit /\ ClingInit

Over == ended \/ stopped

HostNext ==
  \/ ~Over /\ SettingsStep /\ UNCHANGED clingVars
  \/ ~Over /\ ClingStep /\ UNCHANGED settingsVars
  \/ Over /\ UNCHANGED hostVars

HostSpec == HostInit /\ [][HostNext]_hostVars
===============================================================================
