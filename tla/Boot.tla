-------------------------------- MODULE Boot --------------------------------
(***************************************************************************)
(* The kernel command line (threads/init.c): the words that the boot       *)
(* loader left in memory, the options, the block devices cast in the roles *)
(* of the system, the actions, and shutting down (devices/shutdown.c).     *)
(*                                                                         *)
(* Where characters do not matter, a word is [text, value]: an option's    *)
(* text starts with "-" and ends before its "=", value is what follows it. *)
(***************************************************************************)
EXTENDS Integers, Sequences, SequencesExt

CONSTANTS LOADER_ARGS_LEN,   \* 128 in the source
          Valued, Plain,     \* names of the options with a value and without
          ActionArgc,        \* name of an action -> its words, itself included
          ClockSeed          \* what the clock chip says

Nul == 0
NoValue == "null"
\* The number of characters at p (from 0) before a null byte or the end.
strnlen(area, p) ==
  LET ends == {i \in p + 1..Len(area) : area[i] = Nul} \cup {Len(area) + 1}
  IN (CHOOSE i \in ends : \A j \in ends : i <= j) - 1 - p
\* [argv, p, panic] after the words of area, argc of them.
read_command_line(area, argc) ==
  LET Word(r, i) ==
        LET n == strnlen(area, r.p)
        IN IF r.panic \/ r.p >= Len(area) THEN [r EXCEPT !.panic = TRUE]
           ELSE [r EXCEPT !.argv = Append(@, SubSeq(area, r.p + 1, r.p + n)), !.p = @ + n + 1]
  IN FoldLeft(Word, [argv |-> <<>>, p |-> 0, panic |-> FALSE], [i \in 1..argc |-> i])

\* boot: [how, opt, seed, state, roles, ran]: how to shut down, option -> value,
\* the seed of the random numbers, "on", "off" or "panic", role -> block device,
\* and the actions that were run with their words.
Start == [how |-> "none", opt |-> [n \in Valued \cup Plain |-> NoValue], seed |-> 0,
          state |-> "on", roles |-> [r \in {"filesys", "scratch"} |-> 0], ran |-> <<>>]
On(boot) == boot.state = "on"

\* The number of leading words that are options.
OptionCount(words) ==
  LET rest == {i \in DOMAIN words : words[i].text \notin Valued \cup Plain \cup {"-other"}}
  IN IF rest = {} THEN Len(words) ELSE (CHOOSE i \in rest : \A j \in rest : i <= j) - 1
\* atoi asserts that there is a value; a device name may be missing.
ParseOption(boot, w) ==
  CASE ~On(boot) -> boot
    [] On(boot) /\ w.text = "-h" -> [boot EXCEPT !.state = "off"]
    [] On(boot) /\ w.text = "-q" -> [boot EXCEPT !.how = "off", !.opt[w.text] = "set"]
    [] On(boot) /\ w.text = "-r" -> [boot EXCEPT !.how = "reboot", !.opt[w.text] = "set"]
    [] On(boot) /\ w.text \in {"-f", "-mlfqs"} -> [boot EXCEPT !.opt[w.text] = "set"]
    [] On(boot) /\ w.text \in {"-filesys", "-scratch"} -> [boot EXCEPT !.opt[w.text] = w.value]
    [] On(boot) /\ w.text \in {"-rs", "-ul"} ->
         IF w.value = NoValue THEN [boot EXCEPT !.state = "panic"]
         ELSE [boot EXCEPT !.opt[w.text] = w.value, !.seed = IF w.text = "-rs" THEN w.value ELSE @]
    [] OTHER -> [boot EXCEPT !.state = "panic"]
parse_options(boot, words) ==
  LET b == FoldLeft(ParseOption, boot, SubSeq(words, 1, OptionCount(words)))
  IN IF On(b) THEN [b EXCEPT !.seed = ClockSeed] ELSE b

\* blocks: [name, type] in probe order.
locate_block_device(boot, role, name, blocks) ==
  LET chosen == {i \in DOMAIN blocks : IF name # NoValue THEN blocks[i].name = name ELSE blocks[i].type = role}
  IN IF ~On(boot) THEN boot
     ELSE IF chosen # {} THEN [boot EXCEPT !.roles[role] = CHOOSE i \in chosen : \A j \in chosen : i <= j]
     ELSE IF name # NoValue THEN [boot EXCEPT !.state = "panic"] ELSE boot
locate_block_devices(boot, blocks) ==
  locate_block_device(locate_block_device(boot, "filesys", boot.opt["-filesys"], blocks),
                      "scratch", boot.opt["-scratch"], blocks)

\* Fault: one word is taken for each action.
Advance_word(argv, a) == IF a \in DOMAIN ActionArgc THEN Tail(argv) ELSE <<>>
Advance(argv, a) == SubSeq(argv, ActionArgc[a] + 1, Len(argv))
run_actions(boot, words) ==
  LET Step(r, i) ==
        LET a == r.argv[1].text
            panic == [r EXCEPT !.boot.state = "panic"]
        IN IF r.argv = <<>> \/ ~On(r.boot) THEN r
           ELSE IF a \notin DOMAIN ActionArgc THEN panic
           ELSE IF Len(r.argv) < ActionArgc[a] THEN panic
           ELSE [argv |-> Advance(r.argv, a),
                 boot |-> [r.boot EXCEPT !.ran = Append(@, SubSeq(r.argv, 1, ActionArgc[a]))]]
  IN FoldLeft(Step, [argv |-> words, boot |-> boot], words).boot

shutdown(boot) == IF On(boot) /\ boot.how # "none" THEN [boot EXCEPT !.state = boot.how] ELSE boot
main(words, blocks) ==
  LET parsed == parse_options(Start, words)
      argv == SubSeq(words, OptionCount(words) + 1, Len(words))
  IN shutdown(run_actions(locate_block_devices(parsed, blocks), argv))
-----------------------------------------------------------------------------
\* The words that the boot loader was given, each ended by a null byte, are the words
\* that read_command_line returns; they fit its array of LOADER_ARGS_LEN / 2 pointers
\* and one more; and one word more than there is room for is a panic.
CommandLineFaithful(words) ==
  LET packed == FlattenSeq([i \in DOMAIN words |-> Append(words[i], Nul)])
      area == [i \in 1..LOADER_ARGS_LEN |-> IF i <= Len(packed) THEN packed[i] ELSE Nul]
  IN Len(packed) <= LOADER_ARGS_LEN =>
       /\ ~read_command_line(area, Len(words)).panic
       /\ read_command_line(area, Len(words)).argv = words
       /\ Len(words) <= LOADER_ARGS_LEN \div 2
       /\ Len(packed) = LOADER_ARGS_LEN => read_command_line(area, Len(words) + 1).panic

\* Every word of the command line is used once and in its order: the options up to
\* the first word that is none, then each action with the words it needs, unless one
\* is not known or lacks words: then those before it have been run, and the system
\* panics.  Of an option given twice the last counts.  The roles are cast as the
\* options say before an action runs, and the machine goes off only at the end.
BootFaithful(words, blocks) ==
  LET b == main(words, blocks)
      n == OptionCount(words)
      used == FlattenSeq(b.ran)
      rest == SubSeq(words, n + Len(used) + 1, Len(words))
      Latest(opt) == {i \in 1..n : words[i].text = opt /\ \A j \in i + 1..n : words[j].text # opt}
      help == \E i \in 1..n : words[i].text = "-h"
      cast == \A r \in {<<"filesys", "-filesys">>, <<"scratch", "-scratch">>} :
                IF b.roles[r[1]] = 0
                THEN \A i \in DOMAIN blocks : blocks[i].type # r[1]
                ELSE LET block == blocks[b.roles[r[1]]]
                     IN \/ \E i \in Latest(r[2]) : words[i].value \in {block.name, NoValue}
                        \/ Latest(r[2]) = {} /\ block.type = r[1]
  IN /\ IsPrefix(used, SubSeq(words, n + 1, Len(words)))
     /\ \A i \in DOMAIN b.ran : Len(b.ran[i]) = ActionArgc[b.ran[i][1].text]
     /\ b.ran # <<>> => cast
     /\ b.state \in {"on", "reboot"} \/ (b.state = "off" /\ ~help) =>
          /\ rest = <<>> /\ cast
          /\ \A i \in 1..n : words[i].text \in Plain \cup Valued
          /\ b.state = (IF b.how = "none" THEN "on" ELSE b.how)
     /\ b.state = "panic" /\ b.ran # <<>> =>
          rest # <<>> /\ (rest[1].text \in DOMAIN ActionArgc => Len(rest) < ActionArgc[rest[1].text])
     /\ b.how # "none" => \E i \in Latest("-q") \cup Latest("-r") :
          /\ words[i].text = (IF b.how = "off" THEN "-q" ELSE "-r")
          /\ b.state \in {"on", "off", "reboot"} /\ ~help => \A j \in i + 1..n : words[j].text \notin {"-q", "-r"}
=============================================================================
