------------------------------ MODULE Options -------------------------------
(***************************************************************************)
(* options_process_or_abort of options.c: the command line through getopt, *)
(* then the configuration file line by line.  A number that does not parse *)
(* is zero (strtol); a loglevel that does not parse is passed over; the    *)
(* option disable is for the file only and its lines add up.               *)
(*                                                                         *)
(* The path of the file (--configfile) is left out: file and lines are     *)
(* what is found at whatever path is used.  getopt's abbreviations and its *)
(* permutation of the arguments make no difference to what is accepted.    *)
(*                                                                         *)
(* A definition whose name ends in an underscore and a remark is a mutated *)
(* form of the one that follows it; nothing uses it.                       *)
(***************************************************************************)
EXTENDS OptionInput

CONSTANTS
  MaxArgs, MaxLines   \* bounds on the input

Numbers == {"i2c-bus", "poll-cycle"}   \* i2c-delay is treated like them
Settable == Numbers \cup {"loglevel"}
Flags == {"help", "version", "info"}

VARIABLES
  args, file, lines,  \* the input
  phase,
  pos,                \* the entry to parse next
  opts,               \* the values in Options
  set,                \* options with their _set flag
  flags,              \* help, version, info
  disable             \* functions to disable

input == <<args, file, lines>>
vars == <<input, phase, pos, opts, set, flags, disable>>

(* options_load_defaults *)
Init ==
  /\ args \in UpTo(MaxArgs, Entries(Settable, Flags \cup {"junk"}))
  /\ \/ /\ file = "text"
        /\ lines \in UpTo(MaxLines, Entries(Settable \cup {"disable"},
                                            {"comment", "junk"}))
     \/ file \in {"absent", "unreadable"} /\ lines = <<>>
  /\ phase = "cmdline"
  /\ pos = 1
  /\ opts = [o \in Settable |-> "default"]
  /\ set = {} /\ flags = {} /\ disable = {}

GoTo(next) ==
  /\ phase' = next /\ pos' = 1
  /\ UNCHANGED <<input, opts, set, flags, disable>>

strtol(value) == IF value = "bad" THEN "zero" ELSE value

(* Every option but loglevel is set by whatever follows it. *)
AssignNumber(entry) ==
  /\ entry.option \in Numbers
  /\ opts' = [opts EXCEPT ![entry.option] = strtol(entry.value)]
  /\ set' = set \cup {entry.option}

(* loglevel_set is the result of the conversion. *)
AssignLoglevel(entry) ==
  /\ entry.option = "loglevel"
  /\ \/ /\ entry.value # "bad"
        /\ opts' = [opts EXCEPT !["loglevel"] = entry.value]
        /\ set' = set \cup {"loglevel"}
     \/ /\ entry.value = "bad"
        /\ set' = set \ {"loglevel"}
        /\ UNCHANGED opts

Assign(entry) == AssignNumber(entry) \/ AssignLoglevel(entry)

-----------------------------------------------------------------------------

Arg == args[pos]
AtArg == phase = "cmdline" /\ pos <= Len(args)

ParseFlag ==
  /\ AtArg
  /\ Arg.option \in Flags
  /\ flags' = flags \cup {Arg.option}
  /\ pos' = pos + 1
  /\ UNCHANGED <<input, phase, opts, set, disable>>

ParseArg ==
  /\ AtArg
  /\ Assign(Arg)
  /\ pos' = pos + 1
  /\ UNCHANGED <<input, phase, flags, disable>>

RejectArg == AtArg /\ Arg.option = "junk" /\ GoTo("aborted")

(* Both messages exit. *)
EndOfArgs ==
  /\ phase = "cmdline"
  /\ pos > Len(args)
  /\ GoTo(IF flags \cap {"help", "version"} # {} THEN "aborted" ELSE "open")

(* An absent file is tolerated. *)
OpenConfigfile ==
  /\ phase = "open"
  /\ \/ file = "absent" /\ GoTo("done")
     \/ file = "unreadable" /\ GoTo("aborted")
     \/ file = "text" /\ GoTo("configfile")

-----------------------------------------------------------------------------

Line == lines[pos]
AtLine == phase = "configfile" /\ pos <= Len(lines)

Free(option) == option \notin set

SkipComment ==
  /\ AtLine
  /\ Line.option = "comment"
  /\ pos' = pos + 1
  /\ UNCHANGED <<input, phase, opts, set, flags, disable>>

(* A line whose option is set already is read over. *)
ParseLine ==
  /\ AtLine
  /\ Line.option \in Settable
  /\ \/ Free(Line.option) /\ Assign(Line)
     \/ ~Free(Line.option) /\ UNCHANGED <<opts, set>>
  /\ pos' = pos + 1
  /\ UNCHANGED <<input, phase, flags, disable>>

Disables(functions) == disable' = disable \cup functions

(* A name that is no function disables nothing. *)
ParseDisable ==
  /\ AtLine
  /\ Line.option = "disable"
  /\ Disables({Line.value} \ {"bad"})
  /\ pos' = pos + 1
  /\ UNCHANGED <<input, phase, opts, set, flags>>

RejectLine_setToo ==
  /\ AtLine
  /\ Line.option = "junk" \/ Line.option \in set
  /\ GoTo("aborted")

RejectLine == AtLine /\ Line.option = "junk" /\ GoTo("aborted")

EndOfFile == phase = "configfile" /\ pos > Len(lines) /\ GoTo("done")

Next ==
  \/ ParseFlag \/ ParseArg \/ RejectArg \/ EndOfArgs
  \/ OpenConfigfile
  \/ SkipComment \/ ParseLine \/ ParseDisable \/ RejectLine \/ EndOfFile

Spec == Init /\ [][Next]_vars

-----------------------------------------------------------------------------

(* Command line options take precedence over configuration file options,   *)
(* however often they are given, with the exception of a loglevel that is  *)
(* given next to one that is not understood.                               *)
PrecedenceKept ==
  LET value(o) == ByPrecedence(args, lines, o)
      clear(o) == o \in Numbers \/ ~HasBad(args \o lines)
  IN  phase = "done" =>
        \A o \in Settable : clear(o) => opts[o] = strtol(value(o))

(* The parser refuses options it does not know and files it cannot read,   *)
(* and nothing else; help and version end it too.                          *)
AbortsExactly ==
  LET wrong == \/ Has(args, "junk") \/ Has(args, "help") \/ Has(args, "version")
               \/ file = "unreadable" \/ Has(lines, "junk")
  IN  phase \in {"done", "aborted"} => (phase = "aborted" <=> wrong)
=============================================================================
