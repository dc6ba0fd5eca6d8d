--------------------------- MODULE OptionParsers ----------------------------
(***************************************************************************)
(* The options parsers of the two daemons side by side: each run is one of *)
(* them on one input, so that their promises can be compared.              *)
(***************************************************************************)
EXTENDS OptionInput

CONSTANTS
  MaxArgs, MaxLines   \* bounds on the input

VARIABLES
  daemon,
  args, file, lines, phase, pos, opts, set,   \* of both parsers
  flags, disable,                             \* of the service's
  help                                        \* of the GPU daemon's

Service == INSTANCE Options
GPU == INSTANCE GpuOptions

vars == <<daemon, Service!vars, help>>

Init ==
  \/ daemon = "airtop-fpsvc" /\ Service!Init /\ help = FALSE
  \/ daemon = "gpu-thermald" /\ GPU!Init /\ flags = {} /\ disable = {}

ServiceStep ==
  daemon = "airtop-fpsvc" /\ Service!Next /\ UNCHANGED <<daemon, help>>
GPUStep ==
  daemon = "gpu-thermald" /\ GPU!Next /\ UNCHANGED <<daemon, flags, disable>>

Next == ServiceStep \/ GPUStep

Spec == Init /\ [][Next]_vars

-----------------------------------------------------------------------------

(* The value that counts is the last one of the command line, else the     *)
(* first one of the file, for each option of each daemon that starts.      *)
PrecedenceKept ==
  \/ daemon = "airtop-fpsvc" /\ Service!PrecedenceKept
  \/ daemon = "gpu-thermald" /\ GPU!PrecedenceKept

(* A daemon refuses to start for the inputs its parser calls wrong, for    *)
(* the GPU daemon repeated options too, and for no others.                 *)
AbortsExactly ==
  \/ daemon = "airtop-fpsvc" /\ Service!AbortsExactly
  \/ daemon = "gpu-thermald" /\ GPU!AbortsExactly
=============================================================================
