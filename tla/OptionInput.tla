---------------------------- MODULE OptionInput -----------------------------
(***************************************************************************)
(* The input of an options parser, and what precedence means on it.  An    *)
(* entry is one argument of the command line or one line of the            *)
(* configuration file: the option it matches, and its value.  The value    *)
(* "bad" stands for every text the conversion does not understand.         *)
(***************************************************************************)
EXTENDS Naturals, Sequences

Values == {"a", "b", "bad"}

Entries(options, words) ==
  [option : options, value : Values] \cup [option : words, value : {"a"}]

(* Sequences of at most n entries. *)
UpTo(n, entries) == UNION {[1..k -> entries] : k \in 0..n}

Given(entries, option) == {i \in DOMAIN entries : entries[i].option = option}

FirstValue(entries, option) ==
  entries[CHOOSE i \in Given(entries, option) :
            \A k \in Given(entries, option) : i <= k].value

LastValue(entries, option) ==
  entries[CHOOSE i \in Given(entries, option) :
            \A k \in Given(entries, option) : i >= k].value

(* The last one on the command line, else the first one in the file.       *)
ByPrecedence(args, lines, option) ==
  CASE Given(args, option) # {}  -> LastValue(args, option)
    [] Given(args, option) = {} /\ Given(lines, option) # {}
                                 -> FirstValue(lines, option)
    [] Given(args, option) = {} /\ Given(lines, option) = {}
                                 -> "default"

Has(entries, option) == Given(entries, option) # {}
HasBad(entries) == \E i \in DOMAIN entries : entries[i].value = "bad"
=============================================================================
