----------------------------- MODULE CommandLine -----------------------------
(***************************************************************************)
(* CommandLine::Parse: from the arguments of the program to a command and  *)
(* a map of options.                                                       *)
(*                                                                         *)
(* An argument is a record: dashed says that it starts with "--", and text *)
(* is what follows the dashes, or all of it.  argv leaves out the name of  *)
(* the program, argv[0] of the code.                                       *)
(***************************************************************************)
EXTENDS Naturals, Sequences

Argument == [dashed : BOOLEAN, text : STRING]

(* Parse returns a CommandLine and not nullopt.                            *)
Parses(argv) == Len(argv) >= 1

Command(argv) == argv[1]

(* The argument after the option at i is its value.                        *)
HasValue(argv, i) == i < Len(argv) /\ ~argv[i + 1].dashed

ValueAt(argv, i) == IF HasValue(argv, i) THEN argv[i + 1].text ELSE ""

NoOptions == [key \in {} |-> ""]

(* The options with a value for one more key, unless they have it already. *)
Under(options, key, value) ==
  [k \in DOMAIN options \cup {key} |-> IF k \in DOMAIN options THEN options[k] ELSE value]

(* Mutant: an option takes the argument after it, whatever it is.          *)
Options_TakesNext(argv) ==
  LET from[i \in 2 .. Len(argv) + 2] ==
        IF i > Len(argv) THEN NoOptions
        ELSE IF ~argv[i].dashed THEN from[i + 1]
        ELSE Under(from[IF i < Len(argv) THEN i + 2 ELSE i + 1],
                   argv[i].text, IF i < Len(argv) THEN argv[i + 1].text ELSE "")
  IN  from[2]

(* The loop over the arguments: from[i] are the options set from i on.     *)
(* What stands later is set later and replaces the same key; an argument   *)
(* that is neither an option nor the value of one is passed over.          *)
Options(argv) ==
  LET from[i \in 2 .. Len(argv) + 2] ==
        IF i > Len(argv) THEN NoOptions
        ELSE IF ~argv[i].dashed THEN from[i + 1]
        ELSE Under(from[IF HasValue(argv, i) THEN i + 2 ELSE i + 1],
                   argv[i].text, ValueAt(argv, i))
  IN  from[2]

GetOr(options, key, default) == IF key \in DOMAIN options THEN options[key] ELSE default

=============================================================================
