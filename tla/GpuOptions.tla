----------------------------- MODULE GpuOptions -----------------------------
(***************************************************************************)
(* gpu_options_process_or_abort of gpu-options.c: the command line is      *)
(* parsed argument by argument, then the configuration file line by line,  *)
(* and the process exits at the first one it does not accept.              *)
(*                                                                         *)
(* The path of the file (--configfile) is left out: file and lines are     *)
(* what is found at whatever path is used.                                 *)
(*                                                                         *)
(* A definition whose name ends in an underscore and a remark is a mutated *)
(* form of the one that follows it; nothing uses it.                       *)
(***************************************************************************)
EXTENDS OptionInput

CONSTANTS
  MaxArgs, MaxLines   \* bounds on the input

Settable == {"temp-limit", "power-limit", "loglevel"}

VARIABLES
  args, file, lines,  \* the input
  phase,
  pos,                \* the entry to parse next
  opts,               \* the values in GPUOptions
  set,                \* options with their _set flag
  help

input == <<args, file, lines>>
vars == <<input, phase, pos, opts, set, help>>

(* options_load_defaults *)
Init ==
  /\ args \in UpTo(MaxArgs, Entries(Settable, {"help", "junk"}))
  /\ \/ file = "text" /\ lines \in UpTo(MaxLines,
                                        Entries(Settable, {"comment", "junk"}))
     \/ file \in {"absent", "unreadable"} /\ lines = <<>>
  /\ phase = "cmdline"
  /\ pos = 1
  /\ opts = [o \in Settable |-> "default"]
  /\ set = {}
  /\ help = FALSE

GoTo(next) == phase' = next /\ pos' = 1 /\ UNCHANGED <<input, opts, set, help>>

Skip == pos' = pos + 1 /\ UNCHANGED <<input, phase, opts, set, help>>

Assign(entry) ==
  /\ opts' = [opts EXCEPT ![entry.option] = entry.value]
  /\ set' = set \cup {entry.option}
  /\ pos' = pos + 1
  /\ UNCHANGED <<input, phase, help>>

-----------------------------------------------------------------------------

Arg == args[pos]
AtArg == phase = "cmdline" /\ pos <= Len(args)

(* The value could be converted. *)
Converts(entry) == entry.option \in Settable /\ entry.value # "bad"

ParseHelp ==
  /\ AtArg
  /\ Arg.option = "help"
  /\ help' = TRUE
  /\ pos' = pos + 1
  /\ UNCHANGED <<input, phase, opts, set>>

ParseArg == AtArg /\ Converts(Arg) /\ Assign(Arg)

(* "something that does not match any pattern" *)
RejectArg ==
  AtArg /\ Arg.option # "help" /\ ~Converts(Arg) /\ GoTo("aborted")

EndOfArgs ==
  /\ phase = "cmdline"
  /\ pos > Len(args)
  /\ GoTo(IF help THEN "aborted" ELSE "open")

(* An absent file is tolerated. *)
OpenConfigfile ==
  /\ phase = "open"
  /\ \/ file = "absent" /\ GoTo("done")
     \/ file = "unreadable" /\ GoTo("aborted")
     \/ file = "text" /\ GoTo("configfile")

-----------------------------------------------------------------------------

Line == lines[pos]
AtLine == phase = "configfile" /\ pos <= Len(lines)

SkipComment == AtLine /\ Line.option = "comment" /\ Skip

(* A line counts only while its option is not set. *)
Accepts_anyTime(line) == Converts(line)
Accepts(line) == Converts(line) /\ line.option \notin set

ParseLine == AtLine /\ Accepts(Line) /\ Assign(Line)

(* Everything else, an option that is set already included. *)
RejectLine ==
  AtLine /\ Line.option # "comment" /\ ~Accepts(Line) /\ GoTo("aborted")

EndOfFile == phase = "configfile" /\ pos > Len(lines) /\ GoTo("done")

Next ==
  \/ ParseHelp \/ ParseArg \/ RejectArg \/ EndOfArgs
  \/ OpenConfigfile
  \/ SkipComment \/ ParseLine \/ RejectLine \/ EndOfFile

Spec == Init /\ [][Next]_vars

-----------------------------------------------------------------------------

(* Command line options take precedence over configuration file options,   *)
(* in every run of the parser that does not abort.                         *)
PrecedenceKept ==
  phase = "done" => \A o \in Settable : opts[o] = ByPrecedence(args, lines, o)

(* Something in the input is wrong, or help is asked for.                  *)
InputWrong ==
  \/ Has(args, "help") \/ Has(args, "junk") \/ HasBad(args)
  \/ file = "unreadable"
  \/ Has(lines, "junk") \/ HasBad(lines)

(* An option of the file is given on the command line too, or twice.       *)
Repeated ==
  \E o \in Settable :
    \/ Has(args, o) /\ Has(lines, o)
    \/ \E i, k \in Given(lines, o) : i # k

(* The parser refuses wrong input and options of the file that are set     *)
(* already, and nothing else.                                              *)
AbortsExactly ==
  /\ phase = "aborted" => InputWrong \/ Repeated
  /\ phase = "done" => ~InputWrong /\ ~Repeated

(***************************************************************************)
(* "Command line options take precedence over configuration file options": *)
(* a configuration file that is right by itself is accepted with every     *)
(* command line that is.                                                   *)
(***************************************************************************)
CommandLineOverrides ==
  phase = "aborted" =>
    \/ InputWrong
    \/ \E o \in Settable : \E i, k \in Given(lines, o) : i # k
=============================================================================
