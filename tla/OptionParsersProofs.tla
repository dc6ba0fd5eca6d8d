------------------------ MODULE OptionParsersProofs -------------------------
(***************************************************************************)
(* For inputs of every length: the value an option ends up with is the one *)
(* precedence gives it, and a daemon starts exactly when its input is      *)
(* right.  Both parsers go through their input in the same way, so that    *)
(* most of the invariant speaks of either.                                 *)
(***************************************************************************)
EXTENDS OptionParsers, TLAPS, SequenceTheorems

OfService == daemon = "airtop-fpsvc"
OfGPU == daemon = "gpu-thermald"

Settable == IF OfService THEN Service!Settable ELSE GPU!Settable

(* How far the parser has come, but for one that has aborted.              *)
ArgsRead == IF phase = "cmdline" THEN pos - 1 ELSE Len(args)
LinesRead == IF phase = "configfile" THEN pos - 1
             ELSE IF phase = "done" THEN Len(lines) ELSE 0

(* One of the first n entries matches the option. *)
Among(entries, n, o) == \E i \in 1 .. n : entries[i].option = o
BadAmong(entries, n) == \E i \in 1 .. n : entries[i].value = "bad"

Meaning(value) == IF value = "bad" THEN "zero" ELSE value

(* The value is the one of the last, or the first, of these entries.       *)
OfLast(entries, n, o, value) ==
  \E i \in 1 .. n : /\ entries[i].option = o
                    /\ \A k \in i + 1 .. n : entries[k].option # o
                    /\ value = Meaning(entries[i].value)
OfFirst(entries, n, o, value) ==
  \E i \in 1 .. n : /\ entries[i].option = o
                    /\ \A k \in 1 .. i - 1 : entries[k].option # o
                    /\ value = Meaning(entries[i].value)

-----------------------------------------------------------------------------
(* The inductive invariant.                                                *)

Words == {"i2c-bus", "poll-cycle", "loglevel", "temp-limit", "power-limit",
          "help", "version", "info", "disable", "comment", "junk"}
AnyEntry == [option : Words, value : Values]

Input ==
  /\ OfService \/ OfGPU
  /\ args \in Seq(AnyEntry) /\ lines \in Seq(AnyEntry)
  /\ file \in {"text", "absent", "unreadable"}
  /\ file # "text" => lines = <<>>
  /\ OfService =>
       /\ \A i \in 1 .. Len(args) : args[i].option
            \in Service!Settable \cup Service!Flags \cup {"junk"}
       /\ \A i \in 1 .. Len(lines) : lines[i].option
            \in Service!Settable \cup {"disable", "comment", "junk"}
  /\ OfGPU =>
       /\ \A i \in 1 .. Len(args) : args[i].option
            \in GPU!Settable \cup {"help", "junk"}
       /\ \A i \in 1 .. Len(lines) : lines[i].option
            \in GPU!Settable \cup {"comment", "junk"}
       /\ \A i \in 1 .. Len(args) : args[i].option = "help" => args[i].value # "bad"
       /\ \A i \in 1 .. Len(lines) : lines[i].option = "comment" => lines[i].value # "bad"

Position ==
  /\ phase \in {"cmdline", "open", "configfile", "done", "aborted"}
  /\ pos \in Nat \ {0}
  /\ phase = "cmdline" => pos <= Len(args) + 1
  /\ phase = "configfile" => pos <= Len(lines) + 1 /\ file = "text"
  /\ phase = "done" => file # "unreadable"
  /\ DOMAIN opts = Settable

(* All but a loglevel that is given next to one that is not understood.    *)
Clear(o) == OfGPU \/ o # "loglevel" \/ ~(BadAmong(args, Len(args))
                                         \/ BadAmong(lines, Len(lines)))

(* What has been read of an option so far is what it has become.           *)
ValuesKept ==
  phase # "aborted" =>
    \A o \in Settable : Clear(o) =>
      /\ o \in set <=> Among(args, ArgsRead, o) \/ Among(lines, LinesRead, o)
      /\ Among(args, ArgsRead, o) => OfLast(args, ArgsRead, o, opts[o])
      /\ ~Among(args, ArgsRead, o) /\ Among(lines, LinesRead, o) =>
           OfFirst(lines, LinesRead, o, opts[o])
      /\ ~Among(args, ArgsRead, o) /\ ~Among(lines, LinesRead, o) =>
           opts[o] = "default"

(* What has been read contains nothing to abort for.                       *)
NothingWrong ==
  phase # "aborted" =>
    /\ ~Among(args, ArgsRead, "junk") /\ ~Among(lines, LinesRead, "junk")
    /\ OfService =>
         /\ flags = {f \in Service!Flags : Among(args, ArgsRead, f)}
         /\ phase # "cmdline" => flags \cap {"help", "version"} = {}
    /\ OfGPU =>
         /\ help <=> Among(args, ArgsRead, "help")
         /\ phase # "cmdline" => ~help
         /\ ~BadAmong(args, ArgsRead) /\ ~BadAmong(lines, LinesRead)

(* No line the GPU daemon has read repeats an option. *)
NothingRepeated ==
  OfGPU /\ phase # "aborted" =>
    \A k \in 1 .. LinesRead : lines[k].option \in GPU!Settable =>
      /\ ~Among(args, Len(args), lines[k].option)
      /\ ~Among(lines, k - 1, lines[k].option)

AbortedRightly ==
  phase = "aborted" =>
    IF OfService
    THEN \/ Service!Has(args, "junk") \/ Service!Has(args, "help")
         \/ Service!Has(args, "version")
         \/ file = "unreadable" \/ Service!Has(lines, "junk")
    ELSE GPU!InputWrong \/ GPU!Repeated

IInv ==
  /\ Input /\ Position /\ ValuesKept
  /\ NothingWrong /\ NothingRepeated /\ AbortedRightly

-----------------------------------------------------------------------------
(* One entry more.                                                         *)

LEMMA OneMore ==
  ASSUME NEW entries, NEW n \in Nat, NEW o, NEW v
  PROVE  /\ Among(entries, n + 1, o) <=> Among(entries, n, o) \/ entries[n + 1].option = o
         /\ BadAmong(entries, n + 1) <=> BadAmong(entries, n) \/ entries[n + 1].value = "bad"
         /\ entries[n + 1].option = o =>
              OfLast(entries, n + 1, o, Meaning(entries[n + 1].value))
         /\ entries[n + 1].option # o /\ OfLast(entries, n, o, v) =>
              OfLast(entries, n + 1, o, v)
         /\ OfFirst(entries, n, o, v) => OfFirst(entries, n + 1, o, v)
         /\ entries[n + 1].option = o /\ ~Among(entries, n, o) =>
              OfFirst(entries, n + 1, o, Meaning(entries[n + 1].value))
<1>1. /\ \A i \in 1 .. n + 1 : i \in 1 .. n \/ i = n + 1
      /\ 1 .. n \subseteq 1 .. n + 1 /\ n + 1 \in 1 .. n + 1
  OBVIOUS
<1>2. /\ Among(entries, n + 1, o) <=> Among(entries, n, o) \/ entries[n + 1].option = o
      /\ BadAmong(entries, n + 1) <=> BadAmong(entries, n) \/ entries[n + 1].value = "bad"
  BY <1>1 DEF Among, BadAmong
<1>3. ASSUME entries[n + 1].option = o
      PROVE  OfLast(entries, n + 1, o, Meaning(entries[n + 1].value))
  <2>1. \A k \in (n + 1) + 1 .. n + 1 : entries[k].option # o
    OBVIOUS
  <2> QED BY <1>1, <1>3, <2>1, Zenon DEF OfLast
<1>4. ASSUME entries[n + 1].option # o, OfLast(entries, n, o, v)
      PROVE  OfLast(entries, n + 1, o, v)
  <2>1. PICK i \in 1 .. n : /\ entries[i].option = o
                            /\ \A k \in i + 1 .. n : entries[k].option # o
                            /\ v = Meaning(entries[i].value)
    BY <1>4 DEF OfLast
  <2>2. \A k \in i + 1 .. n + 1 : k \in i + 1 .. n \/ k = n + 1
    OBVIOUS
  <2>3. i \in 1 .. n + 1 /\ \A k \in i + 1 .. n + 1 : entries[k].option # o
    BY <1>1, <1>4, <2>1, <2>2
  <2> QED BY <2>1, <2>3 DEF OfLast
<1>5. OfFirst(entries, n, o, v) => OfFirst(entries, n + 1, o, v)
  BY <1>1 DEF OfFirst
<1>6. ASSUME entries[n + 1].option = o, ~Among(entries, n, o)
      PROVE  OfFirst(entries, n + 1, o, Meaning(entries[n + 1].value))
  <2>1. \A k \in 1 .. (n + 1) - 1 : entries[k].option # o
    BY <1>6 DEF Among
  <2> QED BY <1>1, <1>6, <2>1, Zenon DEF OfFirst
<1> QED BY <1>2, <1>3, <1>4, <1>5, <1>6

LEMMA NoneYet ==
  ASSUME NEW entries, NEW o
  PROVE  ~Among(entries, 0, o) /\ ~BadAmong(entries, 0)
BY DEF Among, BadAmong

(* What the invariant says of the input. *)
LEMMA InputIs ==
  ASSUME IInv
  PROVE  /\ Len(args) \in Nat /\ Len(lines) \in Nat
         /\ ArgsRead \in Nat /\ LinesRead \in Nat
         /\ ArgsRead <= Len(args) /\ LinesRead <= Len(lines)
         /\ \A i \in 1 .. Len(args) : args[i].value \in Values
         /\ \A i \in 1 .. Len(lines) : lines[i].value \in Values
<1>1. Len(args) \in Nat /\ Len(lines) \in Nat
  BY DEF IInv, Input
<1>2. pos \in Nat /\ pos >= 1
  BY DEF IInv, Position
<1>3. /\ \A i \in 1 .. Len(args) : args[i] \in AnyEntry
      /\ \A i \in 1 .. Len(lines) : lines[i] \in AnyEntry
  BY ElementOfSeq DEF IInv, Input
<1>4. /\ ArgsRead \in Nat /\ LinesRead \in Nat
      /\ ArgsRead <= Len(args) /\ LinesRead <= Len(lines)
  BY <1>1, <1>2 DEF IInv, Position, ArgsRead, LinesRead
<1> QED BY <1>1, <1>3, <1>4 DEF AnyEntry

-----------------------------------------------------------------------------
(* What both parsers do.                                                   *)

input == <<args, file, lines>>

(* An argument that is accepted and counts. *)
LEMMA ArgTaken ==
  ASSUME IInv, phase = "cmdline", pos <= Len(args), pos' = pos + 1,
         UNCHANGED <<daemon, input, phase>>,
         \A o \in Settable : Clear(o) =>
           IF args[pos].option = o
           THEN o \in set' /\ opts'[o] = Meaning(args[pos].value)
           ELSE (o \in set' <=> o \in set) /\ opts'[o] = opts[o]
  PROVE  /\ ValuesKept' /\ Input' /\ NothingRepeated' /\ AbortedRightly'
         /\ pos' \in Nat \ {0} /\ (phase' = "cmdline" => pos' <= Len(args') + 1)
         /\ ArgsRead \in Nat /\ ArgsRead + 1 = pos
         /\ ArgsRead' = ArgsRead + 1 /\ LinesRead' = 0 /\ LinesRead = 0
<1>1. /\ ArgsRead = pos - 1 /\ ArgsRead' = ArgsRead + 1
      /\ LinesRead = 0 /\ LinesRead' = 0 /\ pos \in Nat \ {0}
      /\ ArgsRead \in Nat /\ ArgsRead + 1 = pos
  BY DEF ArgsRead, LinesRead, IInv, Position
<1>2. Input'
  BY DEF IInv, Input, input, OfService, OfGPU
<1>3. Settable' = Settable /\ \A o \in Settable : Clear(o)' <=> Clear(o)
  BY DEF Settable, Clear, OfService, OfGPU, BadAmong, input
<1>4. ValuesKept'
  <2>1. ASSUME NEW o \in Settable, Clear(o)
        PROVE  /\ o \in set' <=> Among(args, ArgsRead + 1, o) \/ Among(lines, 0, o)
               /\ Among(args, ArgsRead + 1, o) =>
                    OfLast(args, ArgsRead + 1, o, opts'[o])
               /\ ~Among(args, ArgsRead + 1, o) => opts'[o] = "default"
               /\ ~Among(lines, 0, o)
    <3>1. /\ o \in set <=> Among(args, ArgsRead, o)
          /\ Among(args, ArgsRead, o) => OfLast(args, ArgsRead, o, opts[o])
          /\ ~Among(args, ArgsRead, o) => opts[o] = "default"
          /\ ~Among(lines, 0, o)
      BY <1>1, <2>1, NoneYet, Zenon DEF IInv, ValuesKept
    <3>2. /\ Among(args, ArgsRead + 1, o) <=>
               Among(args, ArgsRead, o) \/ args[pos].option = o
          /\ args[pos].option = o =>
               OfLast(args, ArgsRead + 1, o, Meaning(args[pos].value))
          /\ args[pos].option # o /\ OfLast(args, ArgsRead, o, opts[o]) =>
               OfLast(args, ArgsRead + 1, o, opts[o])
      BY <1>1, OneMore
    <3>3. CASE args[pos].option = o
      <4>1. o \in set' /\ opts'[o] = Meaning(args[pos].value)
        BY <2>1, <3>3
      <4> QED BY <3>1, <3>2, <3>3, <4>1
    <3>4. CASE args[pos].option # o
      <4>1. (o \in set' <=> o \in set) /\ opts'[o] = opts[o]
        BY <2>1, <3>4
      <4> QED BY <3>1, <3>2, <3>4, <4>1
    <3> QED BY <3>3, <3>4
  <2>2. args' = args /\ lines' = lines
    BY DEF input
  <2> QED BY <1>1, <1>3, <2>1, <2>2, Zenon DEF ValuesKept
<1>5. NothingRepeated'
  BY <1>1 DEF NothingRepeated
<1>6. AbortedRightly'
  BY DEF AbortedRightly
<1>7. pos' \in Nat \ {0} /\ (phase' = "cmdline" => pos' <= Len(args') + 1)
  BY <1>1, InputIs DEF input
<1> QED BY <1>1, <1>2, <1>4, <1>5, <1>6, <1>7

(* A line that is accepted; it counts if its option is not set. *)
LEMMA LineTaken ==
  ASSUME IInv, phase = "configfile", pos <= Len(lines), pos' = pos + 1,
         UNCHANGED <<daemon, input, phase>>,
         \A o \in Settable : Clear(o) =>
           IF lines[pos].option = o /\ o \notin set
           THEN o \in set' /\ opts'[o] = Meaning(lines[pos].value)
           ELSE (o \in set' <=> o \in set) /\ opts'[o] = opts[o]
  PROVE  /\ ValuesKept' /\ Input' /\ AbortedRightly'
         /\ pos' \in Nat \ {0} /\ (phase' = "configfile" => pos' <= Len(lines') + 1)
         /\ LinesRead \in Nat /\ LinesRead + 1 = pos
         /\ LinesRead' = LinesRead + 1 /\ ArgsRead' = ArgsRead
         /\ ArgsRead = Len(args)
<1>1. /\ LinesRead = pos - 1 /\ LinesRead' = LinesRead + 1
      /\ ArgsRead = Len(args) /\ ArgsRead' = ArgsRead /\ pos \in Nat \ {0}
      /\ LinesRead \in Nat /\ LinesRead + 1 = pos
  BY DEF ArgsRead, LinesRead, IInv, Position, input
<1>2. Input'
  BY DEF IInv, Input, input, OfService, OfGPU
<1>3. Settable' = Settable /\ \A o \in Settable : Clear(o)' <=> Clear(o)
  BY DEF Settable, Clear, OfService, OfGPU, BadAmong, input
<1>4. ValuesKept'
  <2> DEFINE A == ArgsRead
  <2>1. ASSUME NEW o \in Settable, Clear(o)
        PROVE  /\ o \in set' <=> Among(args, A, o) \/ Among(lines, LinesRead + 1, o)
               /\ Among(args, A, o) => OfLast(args, A, o, opts'[o])
               /\ ~Among(args, A, o) /\ Among(lines, LinesRead + 1, o) =>
                    OfFirst(lines, LinesRead + 1, o, opts'[o])
               /\ ~Among(args, A, o) /\ ~Among(lines, LinesRead + 1, o) =>
                    opts'[o] = "default"
    <3>1. /\ o \in set <=> Among(args, A, o) \/ Among(lines, LinesRead, o)
          /\ Among(args, A, o) => OfLast(args, A, o, opts[o])
          /\ ~Among(args, A, o) /\ Among(lines, LinesRead, o) =>
               OfFirst(lines, LinesRead, o, opts[o])
          /\ ~Among(args, A, o) /\ ~Among(lines, LinesRead, o) => opts[o] = "default"
      BY <1>1, <2>1, Zenon DEF IInv, ValuesKept
    <3>2. /\ Among(lines, LinesRead + 1, o) <=>
               Among(lines, LinesRead, o) \/ lines[pos].option = o
          /\ OfFirst(lines, LinesRead, o, opts[o]) =>
               OfFirst(lines, LinesRead + 1, o, opts[o])
          /\ lines[pos].option = o /\ ~Among(lines, LinesRead, o) =>
               OfFirst(lines, LinesRead + 1, o, Meaning(lines[pos].value))
      BY <1>1, OneMore
    <3>3. CASE lines[pos].option = o /\ o \notin set
      <4>1. o \in set' /\ opts'[o] = Meaning(lines[pos].value)
        BY <2>1, <3>3
      <4> QED BY <3>1, <3>2, <3>3, <4>1
    <3>4. CASE ~(lines[pos].option = o /\ o \notin set)
      <4>1. (o \in set' <=> o \in set) /\ opts'[o] = opts[o]
        BY <2>1, <3>4
      <4> QED BY <3>1, <3>2, <3>4, <4>1
    <3> QED BY <3>3, <3>4
  <2>2. args' = args /\ lines' = lines /\ A' = A
    BY <1>1 DEF input
  <2> QED BY <1>1, <1>3, <2>1, <2>2, Zenon DEF ValuesKept
<1>6. AbortedRightly'
  BY DEF AbortedRightly
<1>7. pos' \in Nat \ {0} /\ (phase' = "configfile" => pos' <= Len(lines') + 1)
  BY <1>1, InputIs DEF input
<1> QED BY <1>1, <1>2, <1>4, <1>6, <1>7

(* From one part of the input to the next, without a change.               *)
LEMMA MovedOn ==
  ASSUME IInv, phase # "aborted", phase' # "aborted",
         UNCHANGED <<daemon, input, opts, set, flags, help>>,
         ArgsRead' = ArgsRead, LinesRead' = LinesRead,
         Position',
         phase' # "cmdline" =>
           /\ OfService => flags \cap {"help", "version"} = {}
           /\ OfGPU => ~help
  PROVE  IInv'
<1>1. Input'
  BY DEF IInv, Input, input, OfService, OfGPU
<1>2. Settable' = Settable /\ \A o \in Settable : Clear(o)' <=> Clear(o)
  BY DEF Settable, Clear, OfService, OfGPU, BadAmong, input
<1>3. args' = args /\ lines' = lines
  BY DEF input
<1>4. ValuesKept'
  BY <1>2, <1>3, Zenon DEF IInv, ValuesKept
<1>5. NothingWrong'
  <2>1. /\ (OfService' <=> OfService) /\ (OfGPU' <=> OfGPU)
        /\ flags' = flags /\ help' = help
    BY DEF OfService, OfGPU
  <2>2. /\ ~Among(args', ArgsRead', "junk") /\ ~Among(lines', LinesRead', "junk")
        /\ OfService' => flags' = {f \in Service!Flags : Among(args', ArgsRead', f)}
    BY <1>3, <2>1 DEF IInv, NothingWrong
  <2>3. OfGPU' => /\ (help' <=> Among(args', ArgsRead', "help"))
                  /\ ~BadAmong(args', ArgsRead') /\ ~BadAmong(lines', LinesRead')
    BY <1>3, <2>1 DEF IInv, NothingWrong
  <2>4. phase' # "cmdline" =>
          /\ OfService' => flags' \cap {"help", "version"} = {}
          /\ OfGPU' => ~help'
    <3>1. phase' # "cmdline" /\ OfService' => flags' \cap {"help", "version"} = {}
      BY <2>1
    <3>2. phase' # "cmdline" /\ OfGPU' => ~help'
      BY <2>1
    <3> QED BY <3>1, <3>2, Zenon
  <2> QED BY <2>2, <2>3, <2>4, Zenon DEF NothingWrong
<1>6. NothingRepeated'
  BY <1>3 DEF IInv, NothingRepeated, OfGPU
<1>7. AbortedRightly'
  BY DEF AbortedRightly
<1> QED BY <1>1, <1>4, <1>5, <1>6, <1>7 DEF IInv

LEMMA Aborts ==
  ASSUME IInv, phase' = "aborted", pos' = 1, UNCHANGED <<daemon, input, opts>>,
         AbortedRightly'
  PROVE  IInv'
<1>1. Input'
  BY DEF IInv, Input, input, OfService, OfGPU
<1>2. Position'
  BY DEF IInv, Position, Settable, OfService
<1> QED BY <1>1, <1>2 DEF IInv, ValuesKept, NothingWrong, NothingRepeated

(* A word is in the input when it is among its entries.                    *)
LEMMA HasIsAmong ==
  ASSUME IInv, NEW o
  PROVE  /\ Service!Has(args, o) <=> Among(args, Len(args), o)
         /\ Service!Has(lines, o) <=> Among(lines, Len(lines), o)
         /\ GPU!Has(args, o) <=> Among(args, Len(args), o)
         /\ GPU!Has(lines, o) <=> Among(lines, Len(lines), o)
         /\ GPU!HasBad(args) <=> BadAmong(args, Len(args))
         /\ GPU!HasBad(lines) <=> BadAmong(lines, Len(lines))
<1>1. DOMAIN args = 1 .. Len(args) /\ DOMAIN lines = 1 .. Len(lines)
  BY DEF IInv, Input
<1> QED BY <1>1 DEF Service!Has, Service!Given, GPU!Has, GPU!Given, GPU!HasBad,
                    Among, BadAmong

-----------------------------------------------------------------------------
(* The options of the service.                                             *)

LEMMA ServiceParseFlag ==
  ASSUME IInv, OfService, Service!ParseFlag, UNCHANGED <<daemon, help>>
  PROVE  IInv'
<1>1. /\ phase = "cmdline" /\ pos <= Len(args) /\ pos' = pos + 1
      /\ UNCHANGED <<daemon, input, phase>> /\ UNCHANGED <<opts, set>>
      /\ args[pos].option \in Service!Flags
      /\ flags' = flags \cup {args[pos].option}
  BY DEF Service!ParseFlag, Service!AtArg, Service!Arg, Service!input, input
<1>2. \A o \in Settable : args[pos].option # o
  BY <1>1 DEF Settable, Service!Settable, Service!Numbers, Service!Flags
<1>3. /\ ValuesKept' /\ Input' /\ NothingRepeated' /\ AbortedRightly'
      /\ pos' \in Nat \ {0} /\ (phase' = "cmdline" => pos' <= Len(args') + 1)
      /\ ArgsRead \in Nat /\ ArgsRead + 1 = pos
      /\ ArgsRead' = ArgsRead + 1 /\ LinesRead' = 0 /\ LinesRead = 0
  BY <1>1, <1>2, ArgTaken
<1>4. Position'
  BY <1>1, <1>3 DEF IInv, Position, Settable, OfService
<1>5. NothingWrong'
  <2>1. \A f : Among(args, ArgsRead + 1, f) <=>
                 Among(args, ArgsRead, f) \/ args[pos].option = f
    BY <1>3, OneMore
  <2>2. /\ ~Among(args, ArgsRead, "junk")
        /\ flags = {f \in Service!Flags : Among(args, ArgsRead, f)}
    BY <1>1 DEF IInv, NothingWrong
  <2>3. args[pos].option # "junk"
    BY <1>1 DEF Service!Flags
  <2>4. args' = args /\ lines' = lines /\ ~OfGPU'
    BY <1>1 DEF input, OfService, OfGPU
  <2> QED BY <1>1, <1>3, <2>1, <2>2, <2>3, <2>4, NoneYet DEF NothingWrong
<1> QED BY <1>3, <1>4, <1>5 DEF IInv

LEMMA ServiceParseArg ==
  ASSUME IInv, OfService, Service!ParseArg, UNCHANGED <<daemon, help>>
  PROVE  IInv'
<1>1. /\ phase = "cmdline" /\ pos <= Len(args) /\ pos' = pos + 1
      /\ UNCHANGED <<daemon, input, phase>> /\ UNCHANGED flags
      /\ Service!Assign(args[pos])
  BY DEF Service!ParseArg, Service!AtArg, Service!Arg, Service!input, input
<1>2. args[pos].option \in Service!Settable
  BY <1>1 DEF Service!Assign, Service!AssignNumber, Service!AssignLoglevel,
     Service!Settable
<1>3. DOMAIN opts = Settable /\ Settable = Service!Settable
  BY DEF IInv, Position, Settable
<1>4. ASSUME NEW o \in Settable, Clear(o)
      PROVE  IF args[pos].option = o
             THEN o \in set' /\ opts'[o] = Meaning(args[pos].value)
             ELSE (o \in set' <=> o \in set) /\ opts'[o] = opts[o]
  <2>1. CASE Service!AssignNumber(args[pos])
    BY <1>3, <2>1 DEF Service!AssignNumber, Service!strtol, Meaning
  <2>2. CASE Service!AssignLoglevel(args[pos])
    <3>1. o = "loglevel" => args[pos].value # "bad"
      <4>1. pos \in 1 .. Len(args) /\ ~OfGPU
        BY <1>1 DEF IInv, Position, OfService, OfGPU
      <4> QED BY <1>4, <4>1 DEF Clear, BadAmong
    <3> QED BY <1>3, <2>2, <3>1 DEF Service!AssignLoglevel, Meaning
  <2> QED BY <1>1, <2>1, <2>2 DEF Service!Assign
<1>5. /\ ValuesKept' /\ Input' /\ NothingRepeated' /\ AbortedRightly'
      /\ pos' \in Nat \ {0} /\ (phase' = "cmdline" => pos' <= Len(args') + 1)
      /\ ArgsRead \in Nat /\ ArgsRead + 1 = pos
      /\ ArgsRead' = ArgsRead + 1 /\ LinesRead' = 0 /\ LinesRead = 0
  BY <1>1, <1>4, ArgTaken
<1>6. DOMAIN opts' = DOMAIN opts
  BY <1>1 DEF Service!Assign, Service!AssignNumber, Service!AssignLoglevel
<1>7. Position'
  BY <1>1, <1>5, <1>6 DEF IInv, Position, Settable, OfService
<1>8. NothingWrong'
  <2>1. \A f : Among(args, ArgsRead + 1, f) <=>
                 Among(args, ArgsRead, f) \/ args[pos].option = f
    BY <1>5, OneMore
  <2>2. /\ ~Among(args, ArgsRead, "junk")
        /\ flags = {f \in Service!Flags : Among(args, ArgsRead, f)}
    BY <1>1 DEF IInv, NothingWrong
  <2>3. args[pos].option \notin Service!Flags \cup {"junk"}
    BY <1>2 DEF Service!Flags, Service!Settable, Service!Numbers
  <2>4. args' = args /\ lines' = lines /\ ~OfGPU'
    BY <1>1 DEF input, OfService, OfGPU
  <2> QED BY <1>1, <1>5, <2>1, <2>2, <2>3, <2>4, NoneYet DEF NothingWrong
<1> QED BY <1>5, <1>7, <1>8 DEF IInv

LEMMA ServiceRejects ==
  ASSUME IInv, OfService, Service!RejectArg \/ Service!RejectLine,
         UNCHANGED <<daemon, help>>
  PROVE  IInv'
<1>1. phase' = "aborted" /\ pos' = 1 /\ UNCHANGED <<daemon, input, opts>>
  BY DEF Service!RejectArg, Service!RejectLine, Service!GoTo, Service!input, input
<1>2. \/ pos <= Len(args) /\ args[pos].option = "junk"
      \/ pos <= Len(lines) /\ lines[pos].option = "junk"
  BY DEF Service!RejectArg, Service!RejectLine, Service!AtArg, Service!AtLine,
     Service!Arg, Service!Line
<1>3. Service!Has(args, "junk") \/ Service!Has(lines, "junk")
  BY <1>2, HasIsAmong, InputIs DEF Among, IInv, Position
<1>4. AbortedRightly'
  BY <1>1, <1>3 DEF AbortedRightly, OfService, input, Service!Has, Service!Given
<1> QED BY <1>1, <1>4, Aborts

LEMMA ServiceTurns ==
  ASSUME IInv, OfService,
         Service!EndOfArgs \/ Service!OpenConfigfile \/ Service!EndOfFile,
         UNCHANGED <<daemon, help>>
  PROVE  IInv'
<1>1. /\ UNCHANGED <<daemon, input, opts, set, flags, help>> /\ pos' = 1
      /\ ~OfGPU /\ args' = args /\ lines' = lines
  BY DEF Service!EndOfArgs, Service!OpenConfigfile, Service!EndOfFile, Service!GoTo,
     Service!input, input, OfService, OfGPU
<1>2. CASE Service!EndOfArgs
  <2>1. /\ phase = "cmdline" /\ pos > Len(args)
        /\ phase' = IF flags \cap {"help", "version"} # {} THEN "aborted" ELSE "open"
    BY <1>2 DEF Service!EndOfArgs, Service!GoTo
  <2>2. ArgsRead = Len(args)
    BY <2>1, InputIs DEF ArgsRead, IInv, Position
  <2>3. CASE flags \cap {"help", "version"} # {}
    <3>1. Among(args, Len(args), "help") \/ Among(args, Len(args), "version")
      BY <2>1, <2>2, <2>3 DEF IInv, NothingWrong
    <3>2. Service!Has(args, "help") \/ Service!Has(args, "version")
      BY <3>1, HasIsAmong
    <3>3. AbortedRightly'
      BY <1>1, <3>2 DEF AbortedRightly, OfService, Service!Has, Service!Given
    <3> QED BY <1>1, <2>1, <2>3, <3>3, Aborts
  <2>4. CASE flags \cap {"help", "version"} = {}
    <3>1. phase' = "open"
      BY <2>1, <2>4
    <3>2. ArgsRead' = ArgsRead /\ LinesRead' = LinesRead
      BY <1>1, <2>1, <2>2, <3>1 DEF ArgsRead, LinesRead
    <3>3. Position'
      BY <1>1, <3>1 DEF IInv, Position, Settable, OfService
    <3> QED BY <1>1, <2>1, <2>4, <3>1, <3>2, <3>3, MovedOn
  <2> QED BY <2>3, <2>4
<1>3. CASE Service!OpenConfigfile
  <2>1. /\ phase = "open"
        /\ \/ file = "absent" /\ phase' = "done"
           \/ file = "unreadable" /\ phase' = "aborted"
           \/ file = "text" /\ phase' = "configfile"
    BY <1>3 DEF Service!OpenConfigfile, Service!GoTo
  <2>2. CASE phase' = "aborted"
    <3>1. AbortedRightly'
      BY <1>1, <2>1, <2>2 DEF AbortedRightly, OfService, input
    <3> QED BY <1>1, <2>2, <3>1, Aborts
  <2>3. CASE phase' # "aborted"
    <3>1. file # "text" => Len(lines) = 0
      BY DEF IInv, Input
    <3>2. ArgsRead' = ArgsRead /\ LinesRead' = LinesRead
      BY <1>1, <2>1, <2>3, <3>1 DEF ArgsRead, LinesRead
    <3>3. Position'
      BY <1>1, <2>1, <2>3, InputIs DEF IInv, Position, Settable, OfService, input
    <3>4. flags \cap {"help", "version"} = {}
      BY <2>1 DEF IInv, NothingWrong
    <3> QED BY <1>1, <2>1, <2>3, <3>2, <3>3, <3>4, MovedOn
  <2> QED BY <2>2, <2>3
<1>4. CASE Service!EndOfFile
  <2>1. phase = "configfile" /\ pos > Len(lines) /\ phase' = "done"
    BY <1>4 DEF Service!EndOfFile, Service!GoTo
  <2>2. ArgsRead' = ArgsRead /\ LinesRead' = LinesRead
    BY <1>1, <2>1, InputIs DEF ArgsRead, LinesRead, IInv, Position
  <2>3. Position'
    BY <1>1, <2>1 DEF IInv, Position, Settable, OfService, input
  <2>4. flags \cap {"help", "version"} = {}
    BY <2>1 DEF IInv, NothingWrong
  <2> QED BY <1>1, <2>1, <2>2, <2>3, <2>4, MovedOn
<1> QED BY <1>2, <1>3, <1>4

LEMMA ServiceLine ==
  ASSUME IInv, OfService,
         Service!SkipComment \/ Service!ParseLine \/ Service!ParseDisable,
         UNCHANGED <<daemon, help>>
  PROVE  IInv'
<1>1. /\ phase = "configfile" /\ pos <= Len(lines) /\ pos' = pos + 1
      /\ UNCHANGED <<daemon, input, phase>> /\ UNCHANGED flags
      /\ lines[pos].option # "junk"
  BY DEF Service!SkipComment, Service!ParseLine, Service!ParseDisable, Service!AtLine,
     Service!Line, Service!input, input, Service!Settable, Service!Numbers
<1>2. DOMAIN opts = Settable /\ Settable = Service!Settable
  BY DEF IInv, Position, Settable
<1>3. ASSUME NEW o \in Settable, Clear(o)
      PROVE  IF lines[pos].option = o /\ o \notin set
             THEN o \in set' /\ opts'[o] = Meaning(lines[pos].value)
             ELSE (o \in set' <=> o \in set) /\ opts'[o] = opts[o]
  <2>1. CASE Service!SkipComment \/ Service!ParseDisable
    <3>1. UNCHANGED <<opts, set>> /\ lines[pos].option \in {"comment", "disable"}
      BY <2>1 DEF Service!SkipComment, Service!ParseDisable, Service!Line
    <3> QED BY <1>2, <3>1 DEF Service!Settable, Service!Numbers
  <2>2. CASE Service!ParseLine /\ ~Service!Free(lines[pos].option)
    BY <2>2 DEF Service!ParseLine, Service!Free, Service!Line
  <2>3. CASE Service!ParseLine /\ Service!Free(lines[pos].option)
    <3>1. Service!Assign(lines[pos]) /\ lines[pos].option \notin set
      BY <2>3 DEF Service!ParseLine, Service!Free, Service!Line
    <3>2. CASE Service!AssignNumber(lines[pos])
      BY <1>2, <3>1, <3>2 DEF Service!AssignNumber, Service!strtol, Meaning
    <3>3. CASE Service!AssignLoglevel(lines[pos])
      <4>1. o = "loglevel" => lines[pos].value # "bad"
        <5>1. pos \in 1 .. Len(lines) /\ ~OfGPU
          BY <1>1 DEF IInv, Position, OfService, OfGPU
        <5> QED BY <1>3, <5>1 DEF Clear, BadAmong
      <4> QED BY <1>2, <3>1, <3>3, <4>1 DEF Service!AssignLoglevel, Meaning
    <3> QED BY <3>1, <3>2, <3>3 DEF Service!Assign
  <2> QED BY <2>1, <2>2, <2>3
<1>4. /\ ValuesKept' /\ Input' /\ AbortedRightly'
      /\ pos' \in Nat \ {0} /\ (phase' = "configfile" => pos' <= Len(lines') + 1)
      /\ LinesRead \in Nat /\ LinesRead + 1 = pos
      /\ LinesRead' = LinesRead + 1 /\ ArgsRead' = ArgsRead
      /\ ArgsRead = Len(args)
  BY <1>1, <1>3, LineTaken
<1>5. DOMAIN opts' = DOMAIN opts
  BY DEF Service!SkipComment, Service!ParseLine, Service!ParseDisable,
     Service!Assign, Service!AssignNumber, Service!AssignLoglevel
<1>6. Position'
  BY <1>1, <1>4, <1>5 DEF IInv, Position, Settable, OfService, input
<1>7. NothingWrong'
  <2>1. Among(lines, LinesRead + 1, "junk") <=>
          Among(lines, LinesRead, "junk") \/ lines[pos].option = "junk"
    BY <1>4, OneMore
  <2>2. /\ ~Among(args, ArgsRead, "junk") /\ ~Among(lines, LinesRead, "junk")
        /\ flags = {f \in Service!Flags : Among(args, ArgsRead, f)}
        /\ flags \cap {"help", "version"} = {}
    BY <1>1 DEF IInv, NothingWrong
  <2>3. args' = args /\ lines' = lines /\ ~OfGPU'
    BY <1>1 DEF input, OfService, OfGPU
  <2> QED BY <1>1, <1>4, <2>1, <2>2, <2>3 DEF NothingWrong
<1>8. NothingRepeated'
  BY <1>1 DEF NothingRepeated, OfService, OfGPU
<1> QED BY <1>4, <1>6, <1>7, <1>8 DEF IInv

-----------------------------------------------------------------------------
(* The options of the GPU thermal daemon.                                  *)

LEMMA GPUArg ==
  ASSUME IInv, OfGPU, GPU!ParseHelp \/ GPU!ParseArg,
         UNCHANGED <<daemon, flags, disable>>
  PROVE  IInv'
<1>1. /\ phase = "cmdline" /\ pos <= Len(args) /\ pos' = pos + 1
      /\ UNCHANGED <<daemon, input, phase>>
  BY DEF GPU!ParseHelp, GPU!ParseArg, GPU!AtArg, GPU!Assign, GPU!input, input
<1>2. DOMAIN opts = Settable /\ Settable = GPU!Settable /\ ~OfService
  BY DEF IInv, Position, Settable, OfService, OfGPU
<1>3. \/ /\ GPU!ParseHelp /\ args[pos].option = "help" /\ UNCHANGED <<opts, set>>
      \/ /\ GPU!ParseArg /\ args[pos].option \in GPU!Settable
         /\ args[pos].value # "bad"
         /\ opts' = [opts EXCEPT ![args[pos].option] = args[pos].value]
         /\ set' = set \cup {args[pos].option}
  BY DEF GPU!ParseHelp, GPU!ParseArg, GPU!Converts, GPU!Assign, GPU!Arg
<1>4. ASSUME NEW o \in Settable
      PROVE  IF args[pos].option = o
             THEN o \in set' /\ opts'[o] = Meaning(args[pos].value)
             ELSE (o \in set' <=> o \in set) /\ opts'[o] = opts[o]
  BY <1>2, <1>3 DEF GPU!Settable, Meaning
<1>5. /\ ValuesKept' /\ Input' /\ NothingRepeated' /\ AbortedRightly'
      /\ pos' \in Nat \ {0} /\ (phase' = "cmdline" => pos' <= Len(args') + 1)
      /\ ArgsRead \in Nat /\ ArgsRead + 1 = pos
      /\ ArgsRead' = ArgsRead + 1 /\ LinesRead' = 0 /\ LinesRead = 0
  BY <1>1, <1>4, ArgTaken
<1>6. DOMAIN opts' = DOMAIN opts
  BY <1>3
<1>7. Position'
  BY <1>1, <1>5, <1>6 DEF IInv, Position, Settable, OfService
<1>8. args[pos].value # "bad"
  <2>1. args[pos].option = "help" => args[pos].value # "bad"
    BY <1>1, <1>2 DEF IInv, Input, Position
  <2> QED BY <1>3, <2>1
<1>9. NothingWrong'
  <2>1. /\ \A f : Among(args, ArgsRead + 1, f) <=>
                    Among(args, ArgsRead, f) \/ args[pos].option = f
        /\ BadAmong(args, ArgsRead + 1) <=>
             BadAmong(args, ArgsRead) \/ args[pos].value = "bad"
    BY <1>5, OneMore
  <2>2. ~Among(args, ArgsRead, "junk") /\ ~BadAmong(args, ArgsRead)
    BY <1>1 DEF IInv, NothingWrong
  <2>3. help <=> Among(args, ArgsRead, "help")
    BY <1>1, Zenon DEF IInv, NothingWrong
  <2>4. args' = args /\ lines' = lines /\ ~OfService'
    BY <1>1, <1>2 DEF input, OfService
  <2>5. args[pos].option # "junk"
    BY <1>3 DEF GPU!Settable
  <2>6. help' <=> Among(args, ArgsRead + 1, "help")
    <3>1. CASE GPU!ParseHelp
      BY <1>3, <2>1, <3>1 DEF GPU!ParseHelp, GPU!Arg
    <3>2. CASE GPU!ParseArg
      <4>1. help' = help /\ args[pos].option # "help"
        BY <3>2 DEF GPU!ParseArg, GPU!Assign, GPU!Converts, GPU!Settable, GPU!Arg
      <4>2. Among(args, ArgsRead + 1, "help") <=> Among(args, ArgsRead, "help")
        BY <2>1, <4>1
      <4> QED BY <2>3, <4>1, <4>2
    <3> QED BY <3>1, <3>2
  <2>7. /\ ~Among(args', ArgsRead', "junk") /\ ~Among(lines', LinesRead', "junk")
        /\ ~BadAmong(args', ArgsRead') /\ ~BadAmong(lines', LinesRead')
    BY <1>5, <1>8, <2>1, <2>2, <2>4, <2>5, NoneYet
  <2>8. help' <=> Among(args', ArgsRead', "help")
    BY <1>5, <2>4, <2>6, Zenon
  <2> QED BY <1>1, <2>4, <2>7, <2>8, Zenon DEF NothingWrong
<1> QED BY <1>5, <1>7, <1>9 DEF IInv

LEMMA GPURejects ==
  ASSUME IInv, OfGPU, GPU!RejectArg \/ GPU!RejectLine,
         UNCHANGED <<daemon, flags, disable>>
  PROVE  IInv'
<1>1. phase' = "aborted" /\ pos' = 1 /\ UNCHANGED <<daemon, input, opts>>
  BY DEF GPU!RejectArg, GPU!RejectLine, GPU!GoTo, GPU!input, input
<1>2. ~OfService /\ Settable = GPU!Settable /\ pos \in Nat \ {0}
  BY DEF IInv, Position, Settable, OfService, OfGPU
<1>3. GPU!InputWrong \/ GPU!Repeated
  <2>1. CASE GPU!RejectArg
    <3>1. /\ pos \in 1 .. Len(args)
          /\ args[pos].option # "help"
          /\ args[pos].option \notin GPU!Settable \/ args[pos].value = "bad"
      BY <1>2, <2>1, InputIs DEF GPU!RejectArg, GPU!AtArg, GPU!Arg, GPU!Converts
    <3>2. args[pos].option = "junk" \/ args[pos].value = "bad"
      BY <3>1 DEF IInv, Input
    <3>3. Among(args, Len(args), "junk") \/ BadAmong(args, Len(args))
      BY <3>1, <3>2 DEF Among, BadAmong
    <3> QED BY <3>3, HasIsAmong DEF GPU!InputWrong
  <2>2. CASE GPU!RejectLine
    <3>1. /\ pos \in 1 .. Len(lines) /\ phase = "configfile"
          /\ lines[pos].option # "comment"
          /\ \/ lines[pos].option \notin GPU!Settable \/ lines[pos].value = "bad"
             \/ lines[pos].option \in set
      BY <1>2, <2>2, InputIs
      DEF GPU!RejectLine, GPU!AtLine, GPU!Line, GPU!Accepts, GPU!Converts
    <3>2. \/ lines[pos].option = "junk" \/ lines[pos].value = "bad"
          \/ lines[pos].option \in set /\ lines[pos].option \in GPU!Settable
      BY <3>1 DEF IInv, Input
    <3>3. CASE lines[pos].option = "junk" \/ lines[pos].value = "bad"
      <4>1. Among(lines, Len(lines), "junk") \/ BadAmong(lines, Len(lines))
        BY <3>1, <3>3 DEF Among, BadAmong
      <4> QED BY <4>1, HasIsAmong DEF GPU!InputWrong
    <3>4. CASE lines[pos].option \in set /\ lines[pos].option \in GPU!Settable
      <4> DEFINE o == lines[pos].option
      <4>1. o \in set /\ o \in Settable /\ ArgsRead = Len(args) /\ LinesRead = pos - 1
        BY <1>2, <3>1, <3>4 DEF ArgsRead, LinesRead
      <4>2. Among(args, Len(args), o) \/ Among(lines, pos - 1, o)
        BY <3>1, <4>1 DEF IInv, ValuesKept, Clear
      <4>3. CASE Among(args, Len(args), o)
        <5>1. Among(lines, Len(lines), o)
          BY <3>1 DEF Among
        <5> QED BY <1>2, <4>1, <4>3, <5>1, HasIsAmong DEF GPU!Repeated
      <4>4. CASE Among(lines, pos - 1, o)
        <5>1. PICK k \in 1 .. pos - 1 : lines[k].option = o
          BY <4>4 DEF Among
        <5>2. k \in 1 .. Len(lines) /\ k # pos /\ DOMAIN lines = 1 .. Len(lines)
          BY <1>2, <3>1, InputIs DEF IInv, Input
        <5>3. k \in GPU!Given(lines, o) /\ pos \in GPU!Given(lines, o)
          BY <3>1, <5>1, <5>2 DEF GPU!Given
        <5> QED BY <1>2, <4>1, <5>2, <5>3 DEF GPU!Repeated
      <4> QED BY <4>2, <4>3, <4>4
    <3> QED BY <3>2, <3>3, <3>4
  <2> QED BY <2>1, <2>2
<1>4. AbortedRightly'
  <2>1. (GPU!InputWrong \/ GPU!Repeated)' <=> GPU!InputWrong \/ GPU!Repeated
    BY <1>1 DEF input, GPU!InputWrong, GPU!Repeated, GPU!Has, GPU!HasBad, GPU!Given
  <2> QED BY <1>1, <1>2, <1>3, <2>1 DEF AbortedRightly, OfService
<1> QED BY <1>1, <1>4, Aborts

LEMMA GPUTurns ==
  ASSUME IInv, OfGPU, GPU!EndOfArgs \/ GPU!OpenConfigfile \/ GPU!EndOfFile,
         UNCHANGED <<daemon, flags, disable>>
  PROVE  IInv'
<1>1. /\ UNCHANGED <<daemon, input, opts, set, flags, help>> /\ pos' = 1
      /\ ~OfService /\ args' = args /\ lines' = lines /\ file' = file
  BY DEF GPU!EndOfArgs, GPU!OpenConfigfile, GPU!EndOfFile, GPU!GoTo,
     GPU!input, input, OfService, OfGPU
<1>2. (GPU!InputWrong \/ GPU!Repeated)' <=> GPU!InputWrong \/ GPU!Repeated
  BY <1>1 DEF GPU!InputWrong, GPU!Repeated, GPU!Has, GPU!HasBad, GPU!Given
<1>3. CASE GPU!EndOfArgs
  <2>1. /\ phase = "cmdline" /\ pos > Len(args)
        /\ phase' = IF help THEN "aborted" ELSE "open"
    BY <1>3 DEF GPU!EndOfArgs, GPU!GoTo
  <2>2. ArgsRead = Len(args)
    BY <2>1, InputIs DEF ArgsRead, IInv, Position
  <2>3. CASE help
    <3>1. Among(args, Len(args), "help")
      BY <2>1, <2>2, <2>3, Zenon DEF IInv, NothingWrong
    <3>2. GPU!InputWrong
      BY <3>1, HasIsAmong DEF GPU!InputWrong
    <3>3. AbortedRightly'
      BY <1>1, <1>2, <3>2 DEF AbortedRightly, OfService
    <3>4. phase' = "aborted"
      BY <2>1, <2>3
    <3> QED BY <1>1, <3>3, <3>4, Aborts
  <2>4. CASE ~help
    <3>1. phase' = "open"
      BY <2>1, <2>4
    <3>2. ArgsRead' = ArgsRead /\ LinesRead' = LinesRead
      BY <1>1, <2>1, <2>2, <3>1 DEF ArgsRead, LinesRead
    <3>3. Position'
      BY <1>1, <3>1 DEF IInv, Position, Settable, OfService
    <3> QED BY <1>1, <2>1, <2>4, <3>1, <3>2, <3>3, MovedOn
  <2> QED BY <2>3, <2>4
<1>4. CASE GPU!OpenConfigfile
  <2>1. /\ phase = "open"
        /\ \/ file = "absent" /\ phase' = "done"
           \/ file = "unreadable" /\ phase' = "aborted"
           \/ file = "text" /\ phase' = "configfile"
    BY <1>4 DEF GPU!OpenConfigfile, GPU!GoTo
  <2>2. CASE phase' = "aborted"
    <3>1. AbortedRightly'
      BY <1>1, <1>2, <2>1, <2>2 DEF AbortedRightly, OfService, GPU!InputWrong
    <3> QED BY <1>1, <2>2, <3>1, Aborts
  <2>3. CASE phase' # "aborted"
    <3>1. file # "text" => Len(lines) = 0
      BY DEF IInv, Input
    <3>2. ArgsRead' = ArgsRead /\ LinesRead' = LinesRead
      BY <1>1, <2>1, <2>3, <3>1 DEF ArgsRead, LinesRead
    <3>3. Position'
      BY <1>1, <2>1, <2>3, InputIs DEF IInv, Position, Settable, OfService
    <3>4. ~help
      BY <2>1, Zenon DEF IInv, NothingWrong
    <3> QED BY <1>1, <2>1, <2>3, <3>2, <3>3, <3>4, MovedOn
  <2> QED BY <2>2, <2>3
<1>5. CASE GPU!EndOfFile
  <2>1. phase = "configfile" /\ pos > Len(lines) /\ phase' = "done"
    BY <1>5 DEF GPU!EndOfFile, GPU!GoTo
  <2>2. ArgsRead' = ArgsRead /\ LinesRead' = LinesRead
    BY <1>1, <2>1, InputIs DEF ArgsRead, LinesRead, IInv, Position
  <2>3. Position'
    BY <1>1, <2>1 DEF IInv, Position, Settable, OfService
  <2>4. ~help
    BY <2>1, Zenon DEF IInv, NothingWrong
  <2> QED BY <1>1, <2>1, <2>2, <2>3, <2>4, MovedOn
<1> QED BY <1>3, <1>4, <1>5

(* A line that is accepted has an option that is not set, that of no line  *)
(* before it and of no argument.                                           *)
LEMMA GPULine ==
  ASSUME IInv, OfGPU, GPU!SkipComment \/ GPU!ParseLine,
         UNCHANGED <<daemon, flags, disable>>
  PROVE  IInv'
<1>1. /\ phase = "configfile" /\ pos <= Len(lines) /\ pos' = pos + 1
      /\ UNCHANGED <<daemon, input, phase>> /\ help' = help
  BY DEF GPU!SkipComment, GPU!ParseLine, GPU!AtLine, GPU!Assign, GPU!Skip,
     GPU!input, input
<1>2. DOMAIN opts = Settable /\ Settable = GPU!Settable /\ ~OfService
  BY DEF IInv, Position, Settable, OfService, OfGPU
<1>3. \/ lines[pos].option = "comment" /\ UNCHANGED <<opts, set>>
      \/ /\ lines[pos].option \in GPU!Settable
         /\ lines[pos].value # "bad" /\ lines[pos].option \notin set
         /\ opts' = [opts EXCEPT ![lines[pos].option] = lines[pos].value]
         /\ set' = set \cup {lines[pos].option}
  BY DEF GPU!SkipComment, GPU!ParseLine, GPU!Accepts, GPU!Converts, GPU!Assign,
     GPU!Skip, GPU!Line
<1>4. ASSUME NEW o \in Settable
      PROVE  IF lines[pos].option = o /\ o \notin set
             THEN o \in set' /\ opts'[o] = Meaning(lines[pos].value)
             ELSE (o \in set' <=> o \in set) /\ opts'[o] = opts[o]
  BY <1>2, <1>3 DEF GPU!Settable, Meaning
<1>5. /\ ValuesKept' /\ Input' /\ AbortedRightly'
      /\ pos' \in Nat \ {0} /\ (phase' = "configfile" => pos' <= Len(lines') + 1)
      /\ LinesRead \in Nat /\ LinesRead + 1 = pos
      /\ LinesRead' = LinesRead + 1 /\ ArgsRead' = ArgsRead
      /\ ArgsRead = Len(args)
  BY <1>1, <1>4, LineTaken
<1>6. DOMAIN opts' = DOMAIN opts
  BY <1>3
<1>7. Position'
  BY <1>1, <1>5, <1>6 DEF IInv, Position, Settable, OfService, input
<1>8. lines[pos].value # "bad" /\ lines[pos].option # "junk"
  <2>1. lines[pos].option = "comment" => lines[pos].value # "bad"
    BY <1>1, <1>2 DEF IInv, Input, Position
  <2> QED BY <1>3, <2>1 DEF GPU!Settable
<1>9. args' = args /\ lines' = lines /\ ~OfService'
  BY <1>1, <1>2 DEF input, OfService
<1>10. NothingWrong'
  <2>1. /\ Among(lines, LinesRead + 1, "junk") <=>
             Among(lines, LinesRead, "junk") \/ lines[pos].option = "junk"
        /\ BadAmong(lines, LinesRead + 1) <=>
             BadAmong(lines, LinesRead) \/ lines[pos].value = "bad"
    BY <1>5, OneMore
  <2>2. /\ ~Among(args, ArgsRead, "junk") /\ ~Among(lines, LinesRead, "junk")
        /\ ~BadAmong(args, ArgsRead) /\ ~BadAmong(lines, LinesRead)
    BY <1>1 DEF IInv, NothingWrong
  <2>3. (help <=> Among(args, ArgsRead, "help")) /\ ~help
    BY <1>1, Zenon DEF IInv, NothingWrong
  <2>4. /\ ~Among(args', ArgsRead', "junk") /\ ~Among(lines', LinesRead', "junk")
        /\ ~BadAmong(args', ArgsRead') /\ ~BadAmong(lines', LinesRead')
    BY <1>5, <1>8, <1>9, <2>1, <2>2
  <2>5. (help' <=> Among(args', ArgsRead', "help")) /\ ~help'
    <3>1. args' = args /\ ArgsRead' = ArgsRead /\ help' = help
      BY <1>1, <1>5, <1>9
    <3> QED BY <2>3, <3>1
  <2> QED BY <1>9, <2>4, <2>5, Zenon DEF NothingWrong
<1>11. NothingRepeated'
  <2>1. \A k \in 1 .. LinesRead + 1 : k \in 1 .. LinesRead \/ k = pos
    BY <1>5
  <2>2. \A k \in 1 .. LinesRead : lines[k].option \in GPU!Settable =>
          /\ ~Among(args, Len(args), lines[k].option)
          /\ ~Among(lines, k - 1, lines[k].option)
    BY <1>1 DEF IInv, NothingRepeated
  <2>3. ASSUME lines[pos].option \in GPU!Settable
        PROVE  /\ ~Among(args, Len(args), lines[pos].option)
               /\ ~Among(lines, pos - 1, lines[pos].option)
    <3>1. lines[pos].option \notin set /\ pos - 1 = LinesRead
      BY <1>3, <1>5, <2>3 DEF GPU!Settable
    <3> QED BY <1>1, <1>2, <1>5, <2>3, <3>1 DEF IInv, ValuesKept, Clear
  <2> QED BY <1>5, <1>9, <2>1, <2>2, <2>3 DEF NothingRepeated
<1> QED BY <1>5, <1>7, <1>10, <1>11 DEF IInv

-----------------------------------------------------------------------------
(* Both.                                                                   *)

(* A sequence of at most n entries is one. *)
LEMMA UpToIsSeq ==
  ASSUME NEW n, NEW S, NEW s \in UNION {[1 .. k -> S] : k \in 0 .. n}
  PROVE  s \in Seq(S) /\ \A i \in 1 .. Len(s) : s[i] \in S
<1>1. PICK k \in 0 .. n : s \in [1 .. k -> S]
  OBVIOUS
<1>2. k \in Nat
  OBVIOUS
<1>3. s \in Seq(S)
  BY <1>1, <1>2, SeqDef, Zenon
<1> QED BY <1>3, ElementOfSeq

LEMMA InitIInv == Init => IInv
<1> SUFFICES ASSUME Init PROVE IInv
  OBVIOUS
<1>1. /\ phase = "cmdline" /\ pos = 1 /\ set = {} /\ flags = {} /\ ~help
      /\ opts = [o \in Settable |-> "default"]
      /\ file \in {"text", "absent", "unreadable"} /\ (file # "text" => lines = <<>>)
  <2>1. CASE daemon = "airtop-fpsvc" /\ Service!Init /\ help = FALSE
    BY <2>1 DEF Service!Init, Settable, OfService
  <2>2. CASE daemon = "gpu-thermald" /\ GPU!Init /\ flags = {} /\ disable = {}
    BY <2>2 DEF GPU!Init, Settable, OfService
  <2> QED BY <2>1, <2>2 DEF Init
<1>2. ASSUME NEW S, NEW s \in Seq(S), S \subseteq AnyEntry
      PROVE  s \in Seq(AnyEntry)
  BY <1>2, SeqMonotonic
<1>3. <<>> \in Seq(AnyEntry) /\ Len(<<>>) = 0
  OBVIOUS
<1>4. ASSUME daemon = "airtop-fpsvc", Service!Init PROVE Input
  <2> DEFINE A == Service!Entries(Service!Settable, Service!Flags \cup {"junk"})
             L == Service!Entries(Service!Settable \cup {"disable"},
                                  {"comment", "junk"})
  <2>1. A \subseteq AnyEntry /\ L \subseteq AnyEntry
    BY DEF Service!Entries, Service!Values, AnyEntry, Words, Values,
           Service!Settable, Service!Numbers, Service!Flags
  <2>2. args \in Seq(A) /\ \A i \in 1 .. Len(args) : args[i] \in A
    BY <1>4, UpToIsSeq DEF Service!Init, Service!UpTo
  <2>3. \/ lines \in Seq(L) /\ \A i \in 1 .. Len(lines) : lines[i] \in L
        \/ lines = <<>>
    BY <1>4, UpToIsSeq DEF Service!Init, Service!UpTo
  <2>4. /\ \A e \in A : e.option \in Service!Settable \cup Service!Flags \cup {"junk"}
        /\ \A e \in L : e.option \in Service!Settable \cup {"disable", "comment", "junk"}
    BY DEF Service!Entries
  <2> HIDE DEF A, L
  <2>5. args \in Seq(AnyEntry) /\ lines \in Seq(AnyEntry)
    BY <1>2, <1>3, <2>1, <2>2, <2>3
  <2>6. /\ \A i \in 1 .. Len(args) : args[i].option
             \in Service!Settable \cup Service!Flags \cup {"junk"}
        /\ \A i \in 1 .. Len(lines) : lines[i].option
             \in Service!Settable \cup {"disable", "comment", "junk"}
    BY <1>3, <2>2, <2>3, <2>4
  <2>7. OfService /\ ~OfGPU
    BY <1>4 DEF OfService, OfGPU
  <2> QED BY <1>1, <2>5, <2>6, <2>7 DEF Input
<1>5. ASSUME daemon = "gpu-thermald", GPU!Init PROVE Input
  <2> DEFINE A == GPU!Entries(GPU!Settable, {"help", "junk"})
             L == GPU!Entries(GPU!Settable, {"comment", "junk"})
  <2>1. A \subseteq AnyEntry /\ L \subseteq AnyEntry
    BY DEF GPU!Entries, GPU!Values, AnyEntry, Words, Values, GPU!Settable
  <2>2. args \in Seq(A) /\ \A i \in 1 .. Len(args) : args[i] \in A
    BY <1>5, UpToIsSeq DEF GPU!Init, GPU!UpTo
  <2>3. \/ lines \in Seq(L) /\ \A i \in 1 .. Len(lines) : lines[i] \in L
        \/ lines = <<>>
    BY <1>5, UpToIsSeq DEF GPU!Init, GPU!UpTo
  <2>4. /\ \A e \in A : /\ e.option \in GPU!Settable \cup {"help", "junk"}
                        /\ e.option = "help" => e.value # "bad"
        /\ \A e \in L : /\ e.option \in GPU!Settable \cup {"comment", "junk"}
                        /\ e.option = "comment" => e.value # "bad"
    BY DEF GPU!Entries, GPU!Settable
  <2> HIDE DEF A, L
  <2>5. args \in Seq(AnyEntry) /\ lines \in Seq(AnyEntry)
    BY <1>2, <1>3, <2>1, <2>2, <2>3
  <2>6. /\ \A i \in 1 .. Len(args) :
             /\ args[i].option \in GPU!Settable \cup {"help", "junk"}
             /\ args[i].option = "help" => args[i].value # "bad"
        /\ \A i \in 1 .. Len(lines) :
             /\ lines[i].option \in GPU!Settable \cup {"comment", "junk"}
             /\ lines[i].option = "comment" => lines[i].value # "bad"
    BY <1>3, <2>2, <2>3, <2>4
  <2>7. OfGPU /\ ~OfService
    BY <1>5 DEF OfService, OfGPU
  <2> QED BY <1>1, <2>5, <2>6, <2>7 DEF Input
<1>6. Input
  BY <1>4, <1>5 DEF Init
<1>7. Position
  BY <1>1, <1>6 DEF Position, Input
<1>8. ArgsRead = 0 /\ LinesRead = 0
  BY <1>1 DEF ArgsRead, LinesRead
<1>9. ValuesKept
  BY <1>1, <1>8, NoneYet DEF ValuesKept
<1>10. NothingWrong /\ NothingRepeated /\ AbortedRightly
  BY <1>1, <1>8, NoneYet DEF NothingWrong, NothingRepeated, AbortedRightly
<1> QED BY <1>6, <1>7, <1>9, <1>10 DEF IInv

LEMMA NextKeepsIInv == IInv /\ [Next]_vars => IInv'
<1> SUFFICES ASSUME IInv, [Next]_vars PROVE IInv'
  OBVIOUS
<1>1. CASE ServiceStep
  BY <1>1, ServiceParseFlag, ServiceParseArg, ServiceRejects, ServiceTurns, ServiceLine
  DEF ServiceStep, Service!Next, OfService
<1>2. CASE GPUStep
  BY <1>2, GPUArg, GPURejects, GPUTurns, GPULine DEF GPUStep, GPU!Next, OfGPU
<1>3. CASE UNCHANGED vars
  <2>1. /\ UNCHANGED <<daemon, input, opts, set, flags, help>>
        /\ phase' = phase /\ pos' = pos /\ args' = args /\ lines' = lines /\ file' = file
    BY <1>3 DEF vars, Service!vars, Service!input, input
  <2>2. ArgsRead' = ArgsRead /\ LinesRead' = LinesRead
    BY <2>1 DEF ArgsRead, LinesRead
  <2>3. Position'
    BY <2>1 DEF IInv, Position, Settable, OfService
  <2>4. CASE phase = "aborted"
    <3>1. Input'
      BY <2>1 DEF IInv, Input, OfService, OfGPU
    <3>2. AbortedRightly'
      BY <2>1 DEF IInv, AbortedRightly, OfService, Service!Has, Service!Given,
         GPU!InputWrong, GPU!Repeated, GPU!Has, GPU!HasBad, GPU!Given
    <3> QED BY <2>1, <2>3, <2>4, <3>1, <3>2
            DEF IInv, ValuesKept, NothingWrong, NothingRepeated
  <2>5. CASE phase # "aborted"
    <3>1. phase' # "cmdline" => /\ OfService => flags \cap {"help", "version"} = {}
                                /\ OfGPU => ~help
      BY <2>1, <2>5 DEF IInv, NothingWrong
    <3> QED BY <2>1, <2>2, <2>3, <2>5, <3>1, MovedOn
  <2> QED BY <2>4, <2>5
<1> QED BY <1>1, <1>2, <1>3 DEF Next

THEOREM Invariance == Spec => []IInv
<1>1. Init => IInv
  BY InitIInv
<1>2. IInv /\ [Next]_vars => IInv'
  BY NextKeepsIInv
<1> QED BY <1>1, <1>2, PTL DEF Spec

-----------------------------------------------------------------------------
(* The properties of the parsers.                                          *)

(* The entry that counts is the one ByPrecedence picks.                    *)
LEMMA LastIsPicked ==
  ASSUME NEW entries, NEW n \in Nat, DOMAIN entries = 1 .. n, NEW o, NEW v,
         OfLast(entries, n, o, v)
  PROVE  /\ v = Meaning(Service!LastValue(entries, o))
         /\ v = Meaning(GPU!LastValue(entries, o))
<1>1. PICK i \in 1 .. n : /\ entries[i].option = o
                          /\ \A k \in i + 1 .. n : entries[k].option # o
                          /\ v = Meaning(entries[i].value)
  BY DEF OfLast
<1> DEFINE G == {k \in 1 .. n : entries[k].option = o}
           last == CHOOSE k \in G : \A m \in G : k >= m
<1>2. i \in G /\ \A m \in G : i >= m
  BY <1>1
<1>3. last \in G /\ \A m \in G : last >= m
  BY <1>2
<1>4. last = i
  BY <1>2, <1>3
<1>5. Service!LastValue(entries, o) = entries[last].value
  BY DEF Service!LastValue, Service!Given
<1>6. GPU!LastValue(entries, o) = entries[last].value
  BY DEF GPU!LastValue, GPU!Given
<1> QED BY <1>1, <1>4, <1>5, <1>6

LEMMA FirstIsPicked ==
  ASSUME NEW entries, NEW n \in Nat, DOMAIN entries = 1 .. n, NEW o, NEW v,
         OfFirst(entries, n, o, v)
  PROVE  /\ v = Meaning(Service!FirstValue(entries, o))
         /\ v = Meaning(GPU!FirstValue(entries, o))
<1>1. PICK i \in 1 .. n : /\ entries[i].option = o
                          /\ \A k \in 1 .. i - 1 : entries[k].option # o
                          /\ v = Meaning(entries[i].value)
  BY DEF OfFirst
<1> DEFINE G == {k \in 1 .. n : entries[k].option = o}
           first == CHOOSE k \in G : \A m \in G : k <= m
<1>2. i \in G /\ \A m \in G : i <= m
  BY <1>1
<1>3. first \in G /\ \A m \in G : first <= m
  BY <1>2
<1>4. first = i
  BY <1>2, <1>3
<1>5. Service!FirstValue(entries, o) = entries[first].value
  BY DEF Service!FirstValue, Service!Given
<1>6. GPU!FirstValue(entries, o) = entries[first].value
  BY DEF GPU!FirstValue, GPU!Given
<1> QED BY <1>1, <1>4, <1>5, <1>6

(* Being given, in the words of the parsers. *)
LEMMA HasIs ==
  ASSUME NEW entries \in Seq(AnyEntry), NEW o
  PROVE  /\ Len(entries) \in Nat /\ DOMAIN entries = 1 .. Len(entries)
         /\ Among(entries, Len(entries), o) <=> Service!Given(entries, o) # {}
         /\ Among(entries, Len(entries), o) <=> GPU!Given(entries, o) # {}
         /\ BadAmong(entries, Len(entries)) <=> Service!HasBad(entries)
         /\ BadAmong(entries, Len(entries)) <=> GPU!HasBad(entries)
<1>1. Len(entries) \in Nat /\ DOMAIN entries = 1 .. Len(entries)
  OBVIOUS
<1> QED BY <1>1 DEF Among, BadAmong, Service!Given, GPU!Given,
           Service!HasBad, GPU!HasBad

(* A parser that is done has the value of every option from precedence.    *)
LEMMA Picked ==
  ASSUME IInv, phase = "done", NEW o \in Settable, Clear(o)
  PROVE  /\ opts[o] = Meaning(Service!ByPrecedence(args, lines, o))
         /\ opts[o] = Meaning(GPU!ByPrecedence(args, lines, o))
<1>1. ArgsRead = Len(args) /\ LinesRead = Len(lines)
  BY DEF ArgsRead, LinesRead
<1>2. args \in Seq(AnyEntry) /\ lines \in Seq(AnyEntry)
  BY DEF IInv, Input
<1>3. /\ Len(args) \in Nat /\ DOMAIN args = 1 .. Len(args)
      /\ Len(lines) \in Nat /\ DOMAIN lines = 1 .. Len(lines)
  BY <1>2
<1>4. /\ Among(args, Len(args), o) => OfLast(args, Len(args), o, opts[o])
      /\ ~Among(args, Len(args), o) /\ Among(lines, Len(lines), o) =>
           OfFirst(lines, Len(lines), o, opts[o])
      /\ ~Among(args, Len(args), o) /\ ~Among(lines, Len(lines), o) =>
           opts[o] = "default"
  <2>1. phase # "aborted"
    OBVIOUS
  <2> QED BY <1>1, <2>1, Zenon DEF IInv, ValuesKept
<1>5. /\ Among(args, Len(args), o) <=> Service!Given(args, o) # {}
      /\ Among(args, Len(args), o) <=> GPU!Given(args, o) # {}
      /\ Among(lines, Len(lines), o) <=> Service!Given(lines, o) # {}
      /\ Among(lines, Len(lines), o) <=> GPU!Given(lines, o) # {}
  BY <1>2, HasIs
<1>6. CASE Among(args, Len(args), o)
  <2>1. /\ opts[o] = Meaning(Service!LastValue(args, o))
        /\ opts[o] = Meaning(GPU!LastValue(args, o))
    BY <1>3, <1>4, <1>6, LastIsPicked
  <2>2. /\ Service!ByPrecedence(args, lines, o) = Service!LastValue(args, o)
        /\ GPU!ByPrecedence(args, lines, o) = GPU!LastValue(args, o)
    BY <1>5, <1>6 DEF Service!ByPrecedence, GPU!ByPrecedence
  <2> QED BY <2>1, <2>2
<1>7. CASE ~Among(args, Len(args), o) /\ Among(lines, Len(lines), o)
  <2>1. /\ opts[o] = Meaning(Service!FirstValue(lines, o))
        /\ opts[o] = Meaning(GPU!FirstValue(lines, o))
    BY <1>3, <1>4, <1>7, FirstIsPicked
  <2>2. /\ Service!ByPrecedence(args, lines, o) = Service!FirstValue(lines, o)
        /\ GPU!ByPrecedence(args, lines, o) = GPU!FirstValue(lines, o)
    BY <1>5, <1>7 DEF Service!ByPrecedence, GPU!ByPrecedence
  <2> QED BY <2>1, <2>2
<1>8. CASE ~Among(args, Len(args), o) /\ ~Among(lines, Len(lines), o)
  <2>1. opts[o] = "default"
    BY <1>4, <1>8
  <2>2. /\ Service!ByPrecedence(args, lines, o) = "default"
        /\ GPU!ByPrecedence(args, lines, o) = "default"
    BY <1>5, <1>8 DEF Service!ByPrecedence, GPU!ByPrecedence
  <2> QED BY <2>1, <2>2 DEF Meaning
<1> QED BY <1>6, <1>7, <1>8

LEMMA PickedByService ==
  ASSUME IInv, OfService PROVE Service!PrecedenceKept
<1> SUFFICES ASSUME phase = "done", NEW o \in Service!Settable,
                    o \in Service!Numbers \/ ~Service!HasBad(args \o lines)
             PROVE  opts[o] = Service!strtol(Service!ByPrecedence(args, lines, o))
  BY DEF Service!PrecedenceKept
<1>1. args \in Seq(AnyEntry) /\ lines \in Seq(AnyEntry)
  BY DEF IInv, Input
<1>2. Len(args) \in Nat /\ Len(lines) \in Nat
  BY <1>1
<1>3. /\ Len(args \o lines) = Len(args) + Len(lines)
      /\ DOMAIN (args \o lines) = 1 .. Len(args) + Len(lines)
      /\ \A i \in 1 .. Len(args) : (args \o lines)[i] = args[i]
      /\ \A i \in 1 .. Len(lines) : (args \o lines)[Len(args) + i] = lines[i]
  BY <1>1, <1>2, ConcatProperties
<1>4. ASSUME BadAmong(args, Len(args)) \/ BadAmong(lines, Len(lines))
      PROVE  Service!HasBad(args \o lines)
  <2> DEFINE all == args \o lines
  <2>1. CASE BadAmong(args, Len(args))
    <3>1. PICK i \in 1 .. Len(args) : args[i].value = "bad"
      BY <2>1 DEF BadAmong
    <3>2. i \in DOMAIN all /\ all[i].value = "bad"
      BY <1>2, <1>3, <3>1
    <3> QED BY <3>2 DEF Service!HasBad
  <2>2. CASE BadAmong(lines, Len(lines))
    <3>1. PICK i \in 1 .. Len(lines) : lines[i].value = "bad"
      BY <2>2 DEF BadAmong
    <3>2. Len(args) + i \in DOMAIN all /\ all[Len(args) + i].value = "bad"
      BY <1>2, <1>3, <3>1
    <3> QED BY <3>2 DEF Service!HasBad
  <2> QED BY <1>4, <2>1, <2>2
<1>5. o # "loglevel" \/ ~(BadAmong(args, Len(args)) \/ BadAmong(lines, Len(lines)))
  BY <1>4 DEF Service!Numbers
<1>6. o \in Settable /\ Clear(o)
  BY <1>5 DEF Settable, Clear
<1>7. opts[o] = Meaning(Service!ByPrecedence(args, lines, o))
  BY <1>6, Picked
<1> QED BY <1>7 DEF Meaning, Service!strtol

LEMMA PickedByGPU ==
  ASSUME IInv, OfGPU PROVE GPU!PrecedenceKept
<1> SUFFICES ASSUME phase = "done", NEW o \in GPU!Settable
             PROVE  opts[o] = GPU!ByPrecedence(args, lines, o)
  BY DEF GPU!PrecedenceKept
<1>1. ~OfService
  BY DEF OfGPU, OfService
<1>2. o \in Settable /\ Clear(o)
  BY <1>1 DEF Settable, Clear
<1>3. opts[o] = Meaning(GPU!ByPrecedence(args, lines, o))
  BY <1>2, Picked
<1>4. ArgsRead = Len(args) /\ LinesRead = Len(lines)
  BY DEF ArgsRead, LinesRead
<1>5. ~BadAmong(args, Len(args)) /\ ~BadAmong(lines, Len(lines))
  BY <1>4 DEF IInv, NothingWrong
<1>6. opts[o] # "zero" => GPU!ByPrecedence(args, lines, o) # "bad"
  BY <1>3 DEF Meaning
<1>7. args \in Seq(AnyEntry) /\ lines \in Seq(AnyEntry)
  BY DEF IInv, Input
<1>8. GPU!ByPrecedence(args, lines, o) # "bad"
  <2>1. CASE GPU!Given(args, o) # {}
    <3> DEFINE i == CHOOSE i \in GPU!Given(args, o) :
                      \A k \in GPU!Given(args, o) : i >= k
    <3>1. PICK m \in 1 .. Len(args) : /\ args[m].option = o
                                      /\ \A k \in m + 1 .. Len(args) : args[k].option # o
      <4>1. Among(args, Len(args), o)
        BY <1>7, <2>1, HasIs
      <4>2. OfLast(args, Len(args), o, opts[o])
        BY <1>2, <1>4, <4>1 DEF IInv, ValuesKept
      <4> QED BY <4>2 DEF OfLast
    <3>2. m \in GPU!Given(args, o) /\ \A k \in GPU!Given(args, o) : m >= k
      BY <1>7, <3>1 DEF GPU!Given
    <3>3. i \in GPU!Given(args, o)
      BY <3>2
    <3>4. GPU!ByPrecedence(args, lines, o) = args[i].value
      BY <2>1 DEF GPU!ByPrecedence, GPU!LastValue
    <3>5. i \in 1 .. Len(args)
      BY <1>7, <3>3 DEF GPU!Given
    <3> QED BY <1>5, <3>4, <3>5 DEF BadAmong
  <2>2. CASE GPU!Given(args, o) = {} /\ GPU!Given(lines, o) # {}
    <3> DEFINE i == CHOOSE i \in GPU!Given(lines, o) :
                      \A k \in GPU!Given(lines, o) : i <= k
    <3>1. PICK m \in 1 .. Len(lines) : /\ lines[m].option = o
                                       /\ \A k \in 1 .. m - 1 : lines[k].option # o
      <4>1. ~Among(args, Len(args), o) /\ Among(lines, Len(lines), o)
        BY <1>7, <2>2, HasIs
      <4>2. OfFirst(lines, Len(lines), o, opts[o])
        BY <1>2, <1>4, <4>1 DEF IInv, ValuesKept
      <4> QED BY <4>2 DEF OfFirst
    <3>2. m \in GPU!Given(lines, o) /\ \A k \in GPU!Given(lines, o) : m <= k
      BY <1>7, <3>1 DEF GPU!Given
    <3>3. i \in GPU!Given(lines, o)
      BY <3>2
    <3>4. GPU!ByPrecedence(args, lines, o) = lines[i].value
      BY <2>2 DEF GPU!ByPrecedence, GPU!FirstValue
    <3>5. i \in 1 .. Len(lines)
      BY <1>7, <3>3 DEF GPU!Given
    <3> QED BY <1>5, <3>4, <3>5 DEF BadAmong
  <2>3. CASE GPU!Given(args, o) = {} /\ GPU!Given(lines, o) = {}
    BY <2>3 DEF GPU!ByPrecedence
  <2> QED BY <2>1, <2>2, <2>3
<1> QED BY <1>3, <1>8 DEF Meaning

(* Of several values given to an option, the one the daemon runs with is   *)
(* the last of the command line, else the first of the file, however long  *)
(* both are: options_parse_configfile, of options.c and of gpu-options.c,  *)
(* looks at the _set flags that the command line left.                     *)
THEOREM Precedence == Spec => []PrecedenceKept
<1>1. IInv => PrecedenceKept
  <2>1. IInv => OfService \/ OfGPU
    BY DEF IInv, Input
  <2> QED BY <2>1, PickedByService, PickedByGPU
          DEF PrecedenceKept, OfService, OfGPU
<1> QED BY <1>1, Invariance, PTL

-----------------------------------------------------------------------------

LEMMA ServiceAborts ==
  ASSUME IInv, OfService PROVE Service!AbortsExactly
<1>1. args \in Seq(AnyEntry) /\ lines \in Seq(AnyEntry)
  BY DEF IInv, Input
<1>2. CASE phase = "aborted"
  BY <1>2 DEF IInv, AbortedRightly, Service!AbortsExactly
<1>3. CASE phase = "done"
  <2>1. ArgsRead = Len(args) /\ LinesRead = Len(lines)
    BY <1>3 DEF ArgsRead, LinesRead
  <2>2. ~Among(args, Len(args), "junk") /\ ~Among(lines, Len(lines), "junk")
    BY <1>3, <2>1 DEF IInv, NothingWrong
  <2>3. /\ flags = {f \in Service!Flags : Among(args, Len(args), f)}
        /\ flags \cap {"help", "version"} = {}
    BY <1>3, <2>1 DEF IInv, NothingWrong
  <2>4. ~Among(args, Len(args), "help") /\ ~Among(args, Len(args), "version")
    BY <2>3 DEF Service!Flags
  <2>5. /\ ~Service!Has(args, "junk") /\ ~Service!Has(lines, "junk")
        /\ ~Service!Has(args, "help") /\ ~Service!Has(args, "version")
    BY <1>1, <2>2, <2>4, HasIs DEF Service!Has
  <2>6. file # "unreadable"
    BY <1>3 DEF IInv, Position
  <2> QED BY <1>3, <2>5, <2>6 DEF Service!AbortsExactly
<1> QED BY <1>2, <1>3 DEF Service!AbortsExactly

LEMMA GPUAborts ==
  ASSUME IInv, OfGPU PROVE GPU!AbortsExactly
<1>1. args \in Seq(AnyEntry) /\ lines \in Seq(AnyEntry)
  BY DEF IInv, Input
<1>2. ~OfService
  BY DEF OfService, OfGPU
<1>3. CASE phase = "aborted"
  BY <1>2, <1>3 DEF IInv, AbortedRightly, GPU!AbortsExactly
<1>4. CASE phase = "done"
  <2>1. ArgsRead = Len(args) /\ LinesRead = Len(lines)
    BY <1>4 DEF ArgsRead, LinesRead
  <2>2. /\ ~Among(args, Len(args), "junk") /\ ~Among(lines, Len(lines), "junk")
        /\ ~BadAmong(args, Len(args)) /\ ~BadAmong(lines, Len(lines))
    BY <1>4, <2>1 DEF IInv, NothingWrong
  <2>3. ~Among(args, Len(args), "help")
    <3>1. (help <=> Among(args, Len(args), "help")) /\ ~help
      BY <1>4, <2>1 DEF IInv, NothingWrong
    <3> QED BY <3>1
  <2>4. /\ ~GPU!Has(args, "junk") /\ ~GPU!Has(lines, "junk")
        /\ ~GPU!Has(args, "help")
        /\ ~GPU!HasBad(args) /\ ~GPU!HasBad(lines)
    BY <1>1, <2>2, <2>3, HasIs DEF GPU!Has
  <2>5. file # "unreadable"
    BY <1>4 DEF IInv, Position
  <2>6. ~GPU!InputWrong
    BY <2>4, <2>5 DEF GPU!InputWrong
  <2>7. \A k \in 1 .. Len(lines) : lines[k].option \in GPU!Settable =>
          /\ ~Among(args, Len(args), lines[k].option)
          /\ ~Among(lines, k - 1, lines[k].option)
    BY <1>4, <2>1 DEF IInv, NothingRepeated
  <2>8. ASSUME NEW o \in GPU!Settable, GPU!Has(lines, o) PROVE ~GPU!Has(args, o)
    <3>1. PICK k \in 1 .. Len(lines) : lines[k].option = o
      BY <1>1, <2>8 DEF GPU!Has, GPU!Given
    <3>2. ~Among(args, Len(args), o)
      BY <2>7, <3>1
    <3> QED BY <1>1, <3>2, HasIs DEF GPU!Has
  <2>9. ASSUME NEW o \in GPU!Settable, NEW i \in GPU!Given(lines, o),
               NEW k \in GPU!Given(lines, o), i < k
        PROVE  FALSE
    <3>1. /\ i \in 1 .. Len(lines) /\ lines[i].option = o
          /\ k \in 1 .. Len(lines) /\ lines[k].option = o
      BY <1>1 DEF GPU!Given
    <3>2. ~Among(lines, k - 1, o)
      BY <2>7, <3>1
    <3>3. i \in 1 .. k - 1
      BY <2>9, <3>1
    <3> QED BY <3>1, <3>2, <3>3 DEF Among
  <2>10. \A o \in GPU!Settable : \A i, k \in GPU!Given(lines, o) :
           i \in Nat /\ k \in Nat
    BY <1>1 DEF GPU!Given
  <2>11. ~GPU!Repeated
    <3>1. ASSUME NEW o \in GPU!Settable, NEW i \in GPU!Given(lines, o),
                 NEW k \in GPU!Given(lines, o)
          PROVE  i = k
      <4>1. i \in Nat /\ k \in Nat
        BY <2>10
      <4>2. ~(i < k) /\ ~(k < i)
        BY <2>9
      <4> QED BY <4>1, <4>2
    <3> QED BY <2>8, <3>1 DEF GPU!Repeated
  <2> QED BY <1>4, <2>6, <2>11 DEF GPU!AbortsExactly
<1> QED BY <1>3, <1>4 DEF GPU!AbortsExactly

(* Whatever the input, a daemon exits for the inputs options.c or          *)
(* gpu-options.c rejects and starts with all others; only the latter       *)
(* rejects an option of the file because it is set already.                *)
THEOREM AbortsRightly == Spec => []AbortsExactly
<1>1. IInv => AbortsExactly
  <2>1. IInv => OfService \/ OfGPU
    BY DEF IInv, Input
  <2> QED BY <2>1, ServiceAborts, GPUAborts DEF AbortsExactly, OfService, OfGPU
<1> QED BY <1>1, Invariance, PTL
=============================================================================
