-------------------------------- MODULE ArgParse --------------------------------
(***************************************************************************)
(* arg_parse of cli/lib/argtable/argtable3.c with the getopt_long it       *)
(* brings along: one action per way a call of getopt_internal returns or   *)
(* goes on, with what arg_parse_tagged makes of it, then one per round of  *)
(* arg_parse_untagged, and arg_parse_check.  An argument is a sequence of  *)
(* pieces: "-", "=", option letters and rests of words.  argv[0] is not    *)
(* part of argv, so argv[i] has the index i it has in the code.            *)
(***************************************************************************)
EXTENDS Naturals, Sequences, SequencesExt, ArgTable

CONSTANT MaxErrors     \* 20 in arg_end(20)

ASSUME RoomForErrors == MaxErrors \in Nat \ {0}

VARIABLES
  pc,                  \* where the program is
  table,               \* argtable, without its end
  posixly_correct,
  argv,                \* argvcopy, which getopt rearranges
  optind, place, nonopt_start, nonopt_end,
  found,               \* for each entry of table, the values scanned into it
  errors,              \* of the end of the table
  tabindex, errorlast  \* of arg_parse_untagged

parseVars == <<pc, table, posixly_correct, argv, optind, place, nonopt_start, nonopt_end,
               found, errors, tabindex, errorlast>>
scanner == <<optind, place, nonopt_start, nonopt_end>>
results == <<found, errors>>
untagged == <<tabindex, errorlast>>
given == <<table, posixly_correct>>

None == 0              \* -1 in nonopt_start and nonopt_end
Dash == <<"-">>
DashDash == <<"-", "-">>

NoError == [kind |-> "none", entry |-> 0]
Error(kind, entry) == [kind |-> kind, entry |-> entry]

arg_register_error(error) ==
  IF Len(errors) < MaxErrors THEN Append(errors, error)
  ELSE [errors EXCEPT ![MaxErrors] = Error("ELIMIT", 0)]

(* arg_lit_scanfn and arg_str_scanfn: a value is taken while there is room. *)
HasRoom(i) == Len(found[i]) < table[i].maxcount
Scan(i, argval) == found' = [found EXCEPT ![i] = Append(@, argval)]
ScanOrError(i, argval) ==
  \/ /\ HasRoom(i) /\ Scan(i, argval) /\ UNCHANGED errors
  \/ /\ ~HasRoom(i) /\ errors' = arg_register_error(Error("MAXCOUNT", i)) /\ UNCHANGED found

-------------------------------------------------------------------------------
(* getopt_internal *)

gcd(a, b) ==
  LET of[y \in 1 .. b] == [x \in Nat |-> IF x % y = 0 THEN y ELSE of[x % y][y]]
  IN  of[b][a]

(* Mutant: every cycle begins at the same place. *)
CycleStart_same(start, i) == start

CycleStart(start, i) == start + i

(* The blocks start .. end - 1 and end .. opt_end - 1 change places, each  *)
(* in its order: in ncycle cycles of cyclelen exchanges with the start of  *)
(* the cycle, each argument moves on to the next place of its cycle.       *)
permute_args(v, start, end, opt_end) ==
  LET nnonopts == end - start
      nopts == opt_end - end
      ncycle == gcd(nnonopts, nopts)
      cyclelen == (opt_end - start) \div ncycle
      Onward(pos) == IF pos >= end THEN pos - nnonopts ELSE pos + nopts
      places(i) ==
        LET pos[j \in 0 .. cyclelen] == IF j = 0 THEN CycleStart(end, i) ELSE Onward(pos[j - 1])
        IN  pos
      From(k) == {p \in start .. (opt_end - 1) :
                    /\ Onward(p) = k
                    /\ \E i \in 0 .. (ncycle - 1) : \E j \in 1 .. cyclelen : places(i)[j - 1] = p}
  IN  [k \in DOMAIN v |-> IF From(k) = {} THEN v[k] ELSE v[CHOOSE p \in From(k) : TRUE]]

IsOption(arg) == Len(arg) > 1 /\ Head(arg) = "-"
AtNewArg == pc = "getopt" /\ place = <<>>

(* Non-options skipped so far go behind the options up to index to. *)
PermuteUpTo(to) ==
  IF nonopt_end # None
  THEN /\ argv' = permute_args(argv, nonopt_start, nonopt_end, to)
       /\ optind' = to - (nonopt_end - nonopt_start)
  ELSE UNCHANGED argv /\ optind' = to

StopScanning ==
  /\ nonopt_start' = None /\ nonopt_end' = None
  /\ place' = <<>>
  /\ pc' = "untagged" /\ tabindex' = 1 /\ errorlast' = NoError
  /\ UNCHANGED <<results, given>>

(* The arguments have ended: back to the first non-option. *)
getopt_end ==
  /\ AtNewArg /\ optind > Len(argv)
  /\ IF nonopt_end = None /\ nonopt_start # None
     THEN optind' = nonopt_start /\ UNCHANGED argv
     ELSE PermuteUpTo(optind)
  /\ StopScanning

getopt_dashdash ==
  /\ AtNewArg /\ optind <= Len(argv) /\ argv[optind] = DashDash
  /\ LET end == IF nonopt_start # None /\ nonopt_end = None THEN optind ELSE nonopt_end
     IN  IF end # None
         THEN /\ argv' = permute_args(argv, nonopt_start, end, optind + 1)
              /\ optind' = optind + 1 - (end - nonopt_start)
         ELSE UNCHANGED argv /\ optind' = optind + 1
  /\ StopScanning

(* Without permutation the first non-option ends the options. *)
getopt_posix_nonoption ==
  /\ AtNewArg /\ optind <= Len(argv) /\ ~IsOption(argv[optind])
  /\ posixly_correct
  /\ pc' = "untagged" /\ tabindex' = 1 /\ errorlast' = NoError
  /\ UNCHANGED <<argv, scanner, results, given>>

(* A non-option is skipped, behind those skipped before. *)
getopt_nonoption ==
  /\ AtNewArg /\ optind <= Len(argv) /\ ~IsOption(argv[optind])
  /\ ~posixly_correct
  /\ IF nonopt_end # None
     THEN /\ argv' = permute_args(argv, nonopt_start, nonopt_end, optind)
          /\ nonopt_start' = optind - (nonopt_end - nonopt_start)
          /\ nonopt_end' = None
     ELSE /\ nonopt_start' = IF nonopt_start = None THEN optind ELSE nonopt_start
          /\ UNCHANGED <<argv, nonopt_end>>
  /\ optind' = optind + 1
  /\ UNCHANGED <<pc, place, results, given, untagged>>

(* What is left to scan of an option argument. *)
Rest == IF place = <<>> THEN Tail(argv[optind]) ELSE place
AtOption ==
  /\ pc = "getopt"
  /\ place # <<>> \/ /\ optind <= Len(argv)
                     /\ IsOption(argv[optind]) /\ argv[optind] # DashDash
  /\ nonopt_end' = IF place = <<>> /\ nonopt_start # None /\ nonopt_end = None
                   THEN optind ELSE nonopt_end
  /\ UNCHANGED <<pc, argv, nonopt_start, given, untagged>>

(* Letters and then a dash: an option with its argument missing, says      *)
(* getopt, and has not gone on to the next argument.                       *)
getopt_malformed ==
  /\ AtOption /\ Rest = Dash
  /\ errors' = arg_register_error(Error("EMISSARG", 0))
  /\ place' = <<>>
  /\ UNCHANGED <<optind, found>>

(* The entry whose long name it is, or that it abbreviates: none, one or   *)
(* several.                                                                *)
matching_options(name, names) ==
  IF \E i \in DOMAIN names : names[i] = name
  THEN {CHOOSE i \in DOMAIN names : names[i] = name}
  ELSE {i \in DOMAIN names : IsPrefix(name, names[i])}

(* The rest of parse_long_options: an ambiguous or unknown name is an      *)
(* error, and so is a value, which no option of the commands takes.        *)
is_long_option(matches, has_equal) == Cardinality(matches) = 1 /\ ~has_equal

getopt_long_option ==
  /\ AtOption /\ Rest # Dash /\ Head(Rest) = "-"
  /\ LET text == Tail(Rest)
         has_equal == Contains(text, "=")
         name == IF has_equal THEN SubSeq(text, 1, SelectInSeq(text, LAMBDA c : c = "=") - 1)
                 ELSE text
         matches == matching_options(name, alloc_longoptions(table))
     IN  IF is_long_option(matches, has_equal) THEN \E i \in matches : ScanOrError(i, <<>>)
         ELSE errors' = arg_register_error(Error("ELONGOPT", 0)) /\ UNCHANGED found
  /\ place' = <<>> /\ optind' = optind + 1

(* Mutant: only an argument of one letter is gone past. *)
Advanced_single == IF Tail(Rest) = <<>> /\ place = <<>> THEN optind + 1 ELSE optind

(* The last letter of an argument goes on to the next argument. *)
Advanced == IF Tail(Rest) = <<>> THEN optind + 1 ELSE optind

getopt_short_option ==
  /\ AtOption /\ Head(Rest) # "-"
  /\ IF Head(Rest) \in alloc_shortoptions(table)
     THEN ScanOrError(find_shortoption(table, Head(Rest)), <<>>)
     ELSE errors' = arg_register_error(Error(Head(Rest), 0)) /\ UNCHANGED found
  /\ place' = Tail(Rest)
  /\ optind' = Advanced

-------------------------------------------------------------------------------
(* arg_parse_untagged and arg_parse_check *)

AtUntagged == pc = "untagged" /\ UNCHANGED <<argv, place, nonopt_start, nonopt_end, given>>

untagged_exhausted ==
  /\ AtUntagged /\ tabindex <= Len(table) /\ optind > Len(argv)
  /\ pc' = "check"
  /\ UNCHANGED <<optind, results, untagged>>

untagged_skip ==
  /\ AtUntagged /\ tabindex <= Len(table) /\ optind <= Len(argv)
  /\ IsTagged(table[tabindex])
  /\ tabindex' = tabindex + 1
  /\ UNCHANGED <<pc, optind, results, errorlast>>

(* The argument goes into this entry, or may go into the next one. *)
untagged_scan ==
  /\ AtUntagged /\ tabindex <= Len(table) /\ optind <= Len(argv)
  /\ ~IsTagged(table[tabindex])
  /\ \/ /\ HasRoom(tabindex) /\ Scan(tabindex, argv[optind])
        /\ optind' = optind + 1 /\ errorlast' = NoError
        /\ UNCHANGED tabindex
     \/ /\ ~HasRoom(tabindex)
        /\ tabindex' = tabindex + 1 /\ errorlast' = Error("MAXCOUNT", tabindex)
        /\ UNCHANGED <<optind, found>>
  /\ UNCHANGED <<pc, errors>>

(* No entry is left: the last error becomes one, then each argument.       *)
untagged_unmatched ==
  /\ AtUntagged /\ tabindex > Len(table)
  /\ IF errorlast # NoError
     THEN /\ errors' = arg_register_error(errorlast) /\ errorlast' = NoError
          /\ optind' = optind + 1 /\ UNCHANGED pc
     ELSE /\ UNCHANGED errorlast
          /\ IF optind <= Len(argv)
             THEN errors' = arg_register_error(Error("ENOMATCH", 0)) /\ optind' = optind + 1 /\ UNCHANGED pc
             ELSE pc' = "check" /\ UNCHANGED <<errors, optind>>
  /\ UNCHANGED <<found, tabindex>>

(* arg_str_checkfn and arg_lit_checkfn. *)
TooFew(i) == Len(found[i]) < table[i].mincount

(* Entries with too few values are looked for only while all is well. *)
arg_parse_check ==
  /\ pc = "check"
  /\ errors' = IF errors # <<>> THEN errors
               ELSE FlattenSeq([i \in DOMAIN table |->
                                  IF TooFew(i) THEN <<Error("MINCOUNT", i)>> ELSE <<>>])
  /\ pc' = "parsed"
  /\ UNCHANGED <<given, argv, scanner, found, untagged>>

-------------------------------------------------------------------------------
(* arg_parse: the table is reset, argv copied, and optind reset, which     *)
(* makes getopt begin anew.                                                *)
arg_parse(args, argtable) ==
  /\ pc' = "getopt"
  /\ table' = argtable /\ argv' = args
  /\ optind' = 1 /\ place' = <<>> /\ nonopt_start' = None /\ nonopt_end' = None
  /\ found' = [i \in DOMAIN argtable |-> <<>>] /\ errors' = arg_end
  /\ tabindex' = 1 /\ errorlast' = NoError
  /\ UNCHANGED posixly_correct

ParseStep ==
  \/ getopt_end \/ getopt_dashdash \/ getopt_posix_nonoption \/ getopt_nonoption
  \/ getopt_malformed \/ getopt_long_option \/ getopt_short_option
  \/ untagged_exhausted \/ untagged_skip \/ untagged_scan \/ untagged_unmatched
  \/ arg_parse_check
===============================================================================
