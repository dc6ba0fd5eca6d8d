------------------------------ MODULE CpuFreq ------------------------------
(***************************************************************************)
(* cpu-freq.c: the frequencies of the cores, parsed from /proc/cpuinfo     *)
(* line by line into a table that malloc has returned.                     *)
(*                                                                         *)
(* Of a line its kind and number matter; the end of the file is the line   *)
(* that cannot be read any more.  Frequencies are in tenths of MHz.        *)
(*                                                                         *)
(* A definition whose name ends in an underscore and a remark is a mutated *)
(* form of the one that follows it; nothing uses it.                       *)
(***************************************************************************)
EXTENDS Machine, SequencesExt

IntSize == 4   \* sizeof(int)

Line(kind, number) == [kind |-> kind, number |-> number]

roundf(tenths) == (tenths + 5) \div 10

(* What a block has told before its end; nothing is reset but what is missing. *)
MissingData == {"core id", "cpu MHz"}

(* memset counts bytes, the table holds ints. *)
Cleared(memory, num_cores) ==
  [core \in DOMAIN memory |->
     IF core < num_cores \div IntSize THEN 0 ELSE memory[core]]

(* The end of a block sets the entry of its core, unless one before did. *)
EndOfBlock_last(parser, num_cores) ==
  IF parser.missing = {} /\ parser.core < num_cores
  THEN [parser EXCEPT !.missing = MissingData,
          !.table[parser.core] = roundf(parser.mhz),
          !.real_num_cores = IF parser.table[parser.core] = 0 THEN @ + 1 ELSE @]
  ELSE [parser EXCEPT !.missing = MissingData]
EndOfBlock(parser, num_cores) ==
  IF /\ parser.missing = {}
     /\ parser.core < num_cores
     /\ parser.table[parser.core] = 0
  THEN [parser EXCEPT !.missing = MissingData,
          !.table[parser.core] = roundf(parser.mhz),
          !.real_num_cores = @ + 1]
  ELSE [parser EXCEPT !.missing = MissingData]

ParseLine(parser, line, num_cores) ==
  CASE ~parser.inBlock ->
         IF line.kind = "processor"
         THEN [parser EXCEPT !.inBlock = TRUE, !.missing = MissingData]
         ELSE parser
    [] parser.inBlock /\ line.kind = "core id" ->
         [parser EXCEPT !.core = line.number, !.missing = @ \ {"core id"}]
    [] parser.inBlock /\ line.kind = "cpu MHz" ->
         [parser EXCEPT !.mhz = line.number, !.missing = @ \ {"cpu MHz"}]
    [] parser.inBlock /\ line.kind \in {"processor", "end of file"} ->
         EndOfBlock(parser, num_cores)

NewParser(memory, num_cores) ==
  [inBlock |-> FALSE, missing |-> {}, core |-> 0, mhz |-> 0,
   table |-> Cleared(memory, num_cores), real_num_cores |-> 0]

(* The lines of one processor; its core id may be missing. *)
ParseBlock(parser, thread, num_cores) ==
  LET begun == ParseLine(parser, Line("processor", 0), num_cores)
      timed == ParseLine(begun, Line("cpu MHz", thread.mhz), num_cores)
  IN  IF thread.core = NoCore THEN timed
      ELSE ParseLine(timed, Line("core id", thread.core), num_cores)

parse_cpuinfo(threads, num_cores, memory) ==
  LET parsed[n \in 0 .. Len(threads)] ==
        IF n = 0 THEN NewParser(memory, num_cores)
        ELSE ParseBlock(parsed[n - 1], threads[n], num_cores)
  IN  ParseLine(parsed[Len(threads)], Line("end of file", 0), num_cores)

(***************************************************************************)
(* cpu_freq_get_list: the frequencies of cores 0, 1, ... as get_frequency  *)
(* hands them over.  A file that cannot be opened leaves the number of     *)
(* cores at the size of the table, and the table as malloc returned it.    *)
(***************************************************************************)
cpu_freq_get_list(threads, opened, memory) ==
  LET parser == parse_cpuinfo(threads, TableSize, memory)
      num    == IF opened THEN parser.real_num_cores ELSE TableSize
  IN  [i \in 1 .. num |-> IF opened THEN parser.table[i - 1] ELSE memory[i - 1]]

=============================================================================
