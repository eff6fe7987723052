------------------------------ MODULE MCCmdPaths ------------------------------
(***************************************************************************)
(* An option for a path that has boost::none for its default, and one for  *)
(* a number that has no default.  A number will do as a path, and no text  *)
(* at all will not do as a number.  Of two arguments that are no options    *)
(* one has a comma in its key.                                             *)
(***************************************************************************)
EXTENDS CmdPaths

MCType    == [o \in Option |-> IF o = "jobs" THEN "int" ELSE "path"]
MCDefault == [o \in Option |-> IF o = "dir" THEN <<>> ELSE None]

MCArgument ==
  {[key |-> o, value |-> v] : o \in Option, v \in Value}
    \cup [key : Unknown, value : {"number"}]
===============================================================================
