---------------------------------- MODULE Cli ----------------------------------
(***************************************************************************)
(* The command line program (cli/): main registers the commands and        *)
(* dispatches to one, whose handler parses the arguments and prints help   *)
(* or an error, lists the commands, or arms the core's action and enters   *)
(* S3.  The argument parser, the table of commands and the text it prints  *)
(* into are those of argtable3.                                            *)
(***************************************************************************)
EXTENDS Naturals, Sequences, SequencesExt, FiniteSets, ArgParse, CommandTable, DynString

CONSTANTS
  Pieces,              \* what the words of a command line are made of
  CommandLines,        \* what main may be given as argv[1] .. argv[argc - 1]
  Environments,        \* records: hashfn, posix (POSIXLY_CORRECT is set), os, width
  MinCommands,         \* 32 in arg_cmd_init
  NoAction             \* core_header->action as the boot leaves it

(* A word is a sequence of pieces.  Commands are told apart from NULL and   *)
(* from an action that is not there.                                       *)
HELP == <<"h", "elp">>
LAZY == <<"l", "azy">>
STORE == <<"store">>
SWITCH == <<"switch">>
AllCommands == <<HELP, STORE, SWITCH>>

ASSUME PiecesOfWords == {"-", "=", "h", "elp", "l", "azy", "store", "switch"} \subseteq Pieces

ASSUME LinesAreLines ==
  \A line \in CommandLines :
    /\ line \in Seq(Seq(Pieces))
    /\ \A env \in Environments : Range(line) \subseteq DOMAIN env.hashfn

ASSUME EnvironmentsAreEnvironments ==
  \A env \in Environments :
    /\ env.posix \in BOOLEAN /\ env.width \in Nat
    /\ Range(AllCommands) \union {DashDash \o HELP} \subseteq DOMAIN env.hashfn
    /\ \A word \in DOMAIN env.hashfn : env.hashfn[word] \in Nat

ASSUME SomethingElse == NoEntry \notin Range(AllCommands) /\ NoAction \notin Range(AllCommands)

ASSUME FirstTable == MinCommands \in Nat /\ Primes[Len(Primes)] > MinCommands

VARIABLES
  args, os, width,     \* the command line, the system, and how long a description is
  unregistered,        \* commands main still has to register
  commands,            \* s_hashtable
  cmd, cmd_argv,       \* the command whose handler runs, and the handler's argv
  itr, listed,         \* of help_list_commands
  res, texts,          \* the output, and what is still to be appended to it
  exitcode,
  action, slept        \* what the machine got of it: SET_CORE_ACTION, S3

cliVars == <<args, os, width, unregistered, commands, cmd, cmd_argv, itr, listed, res,
             texts, exitcode, action, slept>>
vars == <<parseVars, cliVars>>
machine == <<action, slept>>
surroundings == <<args, os, width>>
listing == <<itr, listed>>
output == <<res, texts>>

NoItr == [index |-> 0, pos |-> 0]

(* The argtable of a handler: the command's own name, one more, --help,    *)
(* and for store and switch --lazy.                                        *)
argtable(name) ==
  <<arg_strn(1, 1, 1), arg_strn(2, 0, 1), arg_litn("h", HELP, 0, 1, width)>>
  \o IF name = HELP THEN <<>> ELSE <<arg_litn(NoOption, LAZY, 0, 1, width)>>
CMD_NAME == 2
HELP_OPT == 3
LAZY_OPT == 4

(* Strings of these lengths are appended one by one before anything else. *)
Emit(lengths) == texts' = lengths

arg_cmd_register(h, name) ==
  arg_hashtable_insert(IF arg_hashtable_search(h, name) = NoEntry THEN h
                       ELSE arg_hashtable_remove(h, name), name, name)
arg_cmd_info(name) == arg_hashtable_search(commands, name)

Init ==
  /\ args \in CommandLines
  /\ \E env \in Environments :
       /\ posixly_correct = env.posix /\ os = env.os /\ width = env.width
       /\ commands = arg_hashtable_create(MinCommands, env.hashfn)
  /\ pc = "register" /\ unregistered = AllCommands
  /\ table = <<>> /\ argv = <<>> /\ found = <<>> /\ errors = arg_end
  /\ optind = 1 /\ place = <<>> /\ nonopt_start = None /\ nonopt_end = None
  /\ tabindex = 1 /\ errorlast = NoError
  /\ cmd = <<>> /\ cmd_argv = <<>> /\ itr = NoItr /\ listed = <<>>
  /\ res = arg_dstr_create /\ texts = <<>> /\ exitcode = 0
  /\ action = NoAction /\ slept = FALSE

parsing == <<table, posixly_correct, argv, scanner, results, untagged>>

-------------------------------------------------------------------------------
(* main *)

register_cmd ==
  /\ pc = "register" /\ unregistered # <<>>
  /\ commands' = arg_cmd_register(commands, Head(unregistered))
  /\ unregistered' = Tail(unregistered)
  /\ UNCHANGED <<pc, parsing, surroundings, cmd, cmd_argv, listing, output, exitcode, machine>>

Handle(name, arguments) ==
  /\ arg_parse(arguments, argtable(name))
  /\ cmd' = name /\ cmd_argv' = arguments

main_dispatch ==
  /\ pc = "register" /\ unregistered = <<>>
  /\ IF args = <<>> \/ (args # <<>> /\ arg_cmd_info(args[1]) = NoEntry)
     THEN /\ Emit(arg_make_get_help_msg)
          /\ pc' = "cleanup" /\ UNCHANGED <<parsing, cmd, cmd_argv>>
     ELSE Handle(args[1], args) /\ UNCHANGED texts
  /\ UNCHANGED <<surroundings, unregistered, commands, listing, res, exitcode, machine>>

main_cleanup ==
  /\ pc = "cleanup" /\ texts = <<>>
  /\ res' = arg_dstr_destroy(res)
  /\ commands' = arg_hashtable_destroy(commands)
  /\ pc' = "exit"
  /\ UNCHANGED <<parsing, surroundings, unregistered, cmd, cmd_argv, listing, texts,
                 exitcode, machine>>

-------------------------------------------------------------------------------
(* The handlers *)

Return(code) == exitcode' = code /\ pc' = "cleanup"
InHandler == UNCHANGED <<parsing, surroundings, unregistered, commands, cmd, cmd_argv>>

append_text ==
  /\ texts # <<>>
  /\ res' = arg_dstr_cat(res, Head(texts)) /\ texts' = Tail(texts)
  /\ InHandler /\ UNCHANGED <<pc, listing, exitcode, machine>>

arg_make_syntax_err_help_msg ==
  IF found[HELP_OPT] # <<>> THEN "help" ELSE IF errors # <<>> THEN "errors" ELSE "go on"

handler_help ==
  /\ pc = "parsed" /\ arg_make_syntax_err_help_msg = "help"
  /\ Emit(arg_make_help_msg(table, width))
  /\ Return(0)
  /\ InHandler /\ UNCHANGED <<listing, res, machine>>

handler_errors ==
  /\ pc = "parsed" /\ arg_make_syntax_err_help_msg = "errors"
  /\ Emit(arg_make_syntax_err_msg(table, errors))
  /\ Return(1)
  /\ InHandler /\ UNCHANGED <<listing, res, machine>>

Handling(name) == pc = "parsed" /\ arg_make_syntax_err_help_msg = "go on" /\ cmd = name

arg_cmd_itr_create == arg_hashtable_itr_create(commands)
arg_cmd_itr_value == arg_hashtable_itr_value(commands, itr)
arg_cmd_itr_advance == arg_hashtable_itr_advance(commands, itr)

(* help: the list of commands, one per round of the loop. *)
help_list_commands ==
  /\ Handling(HELP) /\ found[CMD_NAME] = <<>>
  /\ Emit(<<2, 2, 3>>)
  /\ itr' = arg_cmd_itr_create /\ listed' = <<>>
  /\ pc' = "list"
  /\ InHandler /\ UNCHANGED <<res, exitcode, machine>>

help_list_next ==
  /\ pc = "list" /\ texts = <<>>
  /\ listed' = Append(listed, arg_cmd_itr_value)
  /\ Emit(<<1 + width>>)
  /\ itr' = arg_cmd_itr_advance
  /\ IF itr'.pos = 0 THEN Return(0) ELSE UNCHANGED <<pc, exitcode>>
  /\ InHandler /\ UNCHANGED <<res, machine>>

help_unknown_command ==
  /\ Handling(HELP) /\ found[CMD_NAME] # <<>>
  /\ arg_cmd_info(found[CMD_NAME][1]) = NoEntry
  /\ Emit(<<1>> \o arg_make_get_help_msg)
  /\ Return(1)
  /\ InHandler /\ UNCHANGED <<listing, res, machine>>

(* The handler of the other command is called as if with --help. *)
help_command ==
  /\ Handling(HELP) /\ found[CMD_NAME] # <<>>
  /\ LET name == arg_cmd_info(found[CMD_NAME][1])
     IN  name # NoEntry /\ Handle(name, <<name, DashDash \o HELP>>)
  /\ UNCHANGED <<surroundings, unregistered, commands, listing, output, exitcode, machine>>

(* store and switch: execute_store_op, execute_switch_op.                  *)
enable_privileges(next) ==
  /\ \/ pc' = next /\ UNCHANGED exitcode
     \/ os = "windows" /\ Return(1)
  /\ InHandler /\ UNCHANGED <<listing, output, machine>>

store_handler == Handling(STORE)
switch_handler == Handling(SWITCH)

enable_uefi_privileges ==
  /\ store_handler \/ switch_handler
  /\ enable_privileges("sleep_privileges")
enable_sleep_privileges ==
  /\ pc = "sleep_privileges"
  /\ enable_privileges("send")

(* The firmware's SetVariable is the core's hook, or the write fails. *)
set_uefi_variable ==
  \/ action' = cmd /\ pc' = "armed" /\ UNCHANGED exitcode
  \/ Return(1) /\ UNCHANGED action

send_uefi_command ==
  /\ pc = "send"
  /\ set_uefi_variable
  /\ InHandler /\ UNCHANGED <<listing, output, slept>>

(* Mutant: --lazy has no effect when given with other arguments. *)
is_lazy_alone == found[LAZY_OPT] # <<>> /\ found[CMD_NAME] = <<>>

is_lazy == found[LAZY_OPT] # <<>>

execute_lazily ==
  /\ pc = "armed" /\ is_lazy
  /\ Return(0)
  /\ InHandler /\ UNCHANGED <<listing, output, machine>>

enter_sleep_s3 ==
  /\ pc = "armed" /\ ~is_lazy
  /\ \/ slept' = TRUE /\ Return(0)
     \/ Return(1) /\ UNCHANGED slept
  /\ InHandler /\ UNCHANGED <<listing, output, action>>

Next ==
  \/ ParseStep /\ UNCHANGED cliVars
  \/ register_cmd \/ main_dispatch \/ append_text \/ main_cleanup
  \/ handler_help \/ handler_errors
  \/ help_list_commands \/ help_list_next \/ help_unknown_command \/ help_command
  \/ enable_uefi_privileges \/ enable_sleep_privileges \/ send_uefi_command
  \/ execute_lazily \/ enter_sleep_s3

(* One thread that never waits: it takes a step whenever there is one.     *)
Spec == Init /\ [][Next]_vars /\ WF_vars(Next)

-------------------------------------------------------------------------------
(* What a command line means, read off it without getopt: options are what *)
(* stands before "--" (before the first other argument, if posixly         *)
(* correct) and begins with a dash; everything else is a value.            *)

OptionsEnd(line) ==
  LET stop == SelectInSeq(line, LAMBDA a : IF posixly_correct THEN ~IsOption(a) ELSE a = DashDash)
  IN  IF stop = 0 THEN Len(line) ELSE stop - 1
Positionals(line) ==
  LET rest == SubSeq(line, OptionsEnd(line) + 1, Len(line))
  IN  FlattenSeq([i \in 1 .. OptionsEnd(line) |-> IF IsOption(line[i]) THEN <<>> ELSE <<line[i]>>])
      \o IF ~posixly_correct /\ rest # <<>> THEN Tail(rest) ELSE rest

LongNames == {HELP} \union IF cmd = HELP THEN {} ELSE {LAZY}
MeaningOfName(name) ==
  IF Contains(name, "=") \/ Cardinality({n \in LongNames : IsPrefix(name, n)}) # 1 THEN <<"?">>
  ELSE CHOOSE n \in LongNames : IsPrefix(name, n)

(* The options an argument stands for: its letters up to an inner dash,    *)
(* then a name. *)
Meanings(arg) ==
  LET dash == SelectInSeq(Tail(arg), LAMBDA c : c = "-")
      letters == SubSeq(Tail(arg), 1, IF dash = 0 THEN Len(arg) - 1 ELSE dash - 1)
      name == SubSeq(arg, dash + 2, Len(arg))
  IN  [i \in DOMAIN letters |-> IF letters[i] = "h" THEN HELP ELSE <<"?">>]
      \o IF dash = 0 THEN <<>> ELSE <<MeaningOfName(name)>>
MeaningsOf(line) ==
  FlattenSeq([i \in 1 .. OptionsEnd(line) |-> IF IsOption(line[i]) THEN Meanings(line[i]) ELSE <<>>])

Nth(s, i) == IF i \in DOMAIN s THEN <<s[i]>> ELSE <<>>
Count(s, x) == Cardinality({i \in DOMAIN s : s[i] = x})
Excess(n, max) == IF n > max THEN n - max ELSE 0
Mistakes(line) ==
  LET options == MeaningsOf(line)
  IN  Count(options, <<"?">>) + Excess(Count(options, HELP), 1) + Excess(Count(options, LAZY), 1)
      + Excess(Len(Positionals(line)), 2)

(* store or switch, without a mistake and without asking for help. *)
Commanded ==
  /\ args # <<>> /\ args[1] \in {STORE, SWITCH}
  /\ Mistakes(args) = 0 /\ Count(MeaningsOf(args), HELP) = 0
CommandedLazily == Commanded /\ Count(MeaningsOf(args), LAZY) > 0

-------------------------------------------------------------------------------
(* Whatever the order of the arguments, in which getopt moves them about,  *)
(* the options counted, the values found, in their order, and the number   *)
(* of errors are those the command line means (argtable3.c:1591, 1793,     *)
(* 5392). *)
ParsedAsMeant ==
  pc = "parsed" =>
    /\ Len(errors) = Min({MaxErrors, Mistakes(cmd_argv)})
    /\ \A i \in {1, CMD_NAME} : found[i] = Nth(Positionals(cmd_argv), i)
    /\ Len(found[HELP_OPT]) = Min({1, Count(MeaningsOf(cmd_argv), HELP)})
    /\ cmd # HELP => Len(found[LAZY_OPT]) = Min({1, Count(MeaningsOf(cmd_argv), LAZY)})

(* The core is armed only by a command line that means it, and then with   *)
(* that command; --lazy never sleeps; an exit without failure has done all *)
(* that was asked, and a failure that leaves the core armed is one of S3   *)
(* (commands/store.c:20, switch.c:20).  A posixly correct getopt, which    *)
(* does not see the --help that help.c adds, is left out.                  *)
ArmedAsMeant ==
  ~posixly_correct =>
    /\ action # NoAction => Commanded /\ action = args[1]
    /\ slept => action # NoAction /\ ~CommandedLazily
    /\ pc = "exit" /\ exitcode = 0 /\ Commanded =>
         action = args[1] /\ (slept \/ CommandedLazily)
    /\ pc = "exit" /\ exitcode # 0 /\ action # NoAction => ~slept /\ ~CommandedLazily

(* The text fits its buffer with the byte that ends it, however often the  *)
(* buffer was replaced, and no buffer is left at the end (argtable3.c:1226). *)
OutputFits ==
  /\ res.len + 1 <= Capacity(res)
  /\ pc = "exit" => res.live = 0

(* Each registered command is found, whatever the hash values and also     *)
(* after the table grew, and help lists each of them once (help.c:22,      *)
(* argtable3.c:608, 782). *)
CommandsAreListed ==
  /\ pc # "exit" => \A i \in 1 .. (Len(AllCommands) - Len(unregistered)) :
       arg_cmd_info(AllCommands[i]) = AllCommands[i]
  /\ pc \in {"cleanup", "exit"} /\ listed # <<>> =>
       /\ Len(listed) = Len(AllCommands)
       /\ Range(listed) = Range(AllCommands)

(* The program ends.  Only a group of letters that ends in a dash, which   *)
(* getopt_internal returns for without going past it (argtable3.c:1930),   *)
(* keeps it from that. *)
EndsInDash(arg) ==
  Len(arg) > 2 /\ SelectInSeq(Tail(arg), LAMBDA c : c = "-") = Len(arg) - 1
Endless ==
  /\ args # <<>> /\ args[1] \in Range(AllCommands)
  /\ \E i \in 1 .. OptionsEnd(args) : IsOption(args[i]) /\ EndsInDash(args[i])
CommandEnds == ~Endless ~> pc = "exit"
===============================================================================
