-------------------------------- MODULE ArgTable --------------------------------
(***************************************************************************)
(* The tables of options that the commands of the CLI hand to argtable3,   *)
(* and the texts argtable3 prints about them.  A name is a sequence of     *)
(* pieces, so that an abbreviation is a prefix of it; a text is the        *)
(* sequence of the lengths of the strings that are appended one by one.    *)
(***************************************************************************)
EXTENDS Naturals, Sequences, SequencesExt, FiniteSetsExt

CONSTANT SyntaxSize    \* sizeof(syntax) - 1 in the functions that print an option

ASSUME RoomForSyntax == SyntaxSize \in Nat \ {0}

NoOption == "none"     \* shortopts that are NULL; longopts are <<>> then

(* One entry of a table; datatype and glossary are lengths, 0 for NULL. *)
arg_litn(shortopts, longopts, mincount, maxcount, glossary) ==
  [kind |-> "lit", shortopts |-> shortopts, longopts |-> longopts, datatype |-> 0,
   glossary |-> glossary, mincount |-> mincount, maxcount |-> maxcount]
arg_strn(datatype, mincount, maxcount) ==
  [kind |-> "str", shortopts |-> NoOption, longopts |-> <<>>, datatype |-> datatype,
   glossary |-> 0, mincount |-> mincount, maxcount |-> maxcount]

IsTagged(entry) == entry.shortopts # NoOption \/ entry.longopts # <<>>

(* What getopt is told of a table: long names by entry, and letters. *)
alloc_longoptions(table) ==
  [i \in {j \in DOMAIN table : table[j].longopts # <<>>} |-> table[i].longopts]
alloc_shortoptions(table) == {table[i].shortopts : i \in DOMAIN table} \ {NoOption}

find_shortoption(table, shortopt) ==
  CHOOSE i \in DOMAIN table : table[i].shortopts = shortopt

(* A string after ndest bytes of a buffer hold length characters. *)
arg_cat(length, src) == Min({length + src, SyntaxSize - 1})

(* "-a|--all=<type>", as a length. *)
arg_cat_optionv(entry, separator) ==
  LET short == IF entry.shortopts # NoOption THEN 2 ELSE 0
      parted == IF entry.shortopts # NoOption /\ entry.longopts # <<>> THEN separator ELSE 0
      long == IF entry.longopts # <<>> THEN 2 + Len(entry.longopts) ELSE 0
      equals == IF entry.datatype > 0 /\ IsTagged(entry) THEN 1 ELSE 0
  IN  arg_cat(arg_cat(arg_cat(arg_cat(arg_cat(0, short), parted), long), equals), entry.datatype)

arg_print_option_ds(entry) == <<arg_cat_optionv(entry, 1), 1>>

(* Mandatory instances, then optional ones in brackets. *)
Instances(entry) ==
  LET syntax == arg_cat_optionv(entry, 1)
      optional == entry.maxcount - entry.mincount
  IN  FlattenSeq([i \in 1 .. entry.mincount |-> <<1, syntax>>])
      \o CASE optional = 0 -> <<>>
           [] optional = 1 -> <<2, syntax, 1>>
           [] optional = 2 -> <<2, syntax, 1, 2, syntax, 1>>
           [] OTHER -> <<2, syntax, 4>>

arg_print_syntaxv_ds(table, suffix) ==
  FlattenSeq([i \in DOMAIN table |-> Instances(table[i])]) \o <<suffix>>

arg_print_glossary_ds(table) ==
  LET line(entry) == arg_cat_optionv(entry, 2) + entry.glossary
  IN  FlattenSeq([i \in DOMAIN table |->
                    IF table[i].glossary > 0 THEN <<line(table[i])>> ELSE <<>>])

(* The help of a command, whose description is that long. *)
arg_make_help_msg(table, description) ==
  <<description, 1, 2>> \o arg_print_syntaxv_ds(table, 3) \o arg_print_glossary_ds(table) \o <<1>>

(* The end of a table: no errors yet. *)
arg_end == <<>>

(* One error: [kind, entry], the entry 0 for an error of getopt's own.     *)
arg_end_errorfn == <<1, 3, 1>>
arg_lit_errorfn(entry, kind) ==
  <<2>> \o arg_print_option_ds(entry) \o IF kind = "MINCOUNT" THEN <<1>> ELSE <<>>
arg_str_errorfn(entry) == <<1, 2>> \o arg_print_option_ds(entry)

arg_print_errors_ds(table, errors) ==
  LET errorfn(error) ==
        IF error.entry = 0 THEN arg_end_errorfn
        ELSE IF table[error.entry].kind = "str" THEN arg_str_errorfn(table[error.entry])
        ELSE arg_lit_errorfn(table[error.entry], error.kind)
  IN  FlattenSeq([i \in DOMAIN errors |-> errorfn(errors[i])])

arg_make_syntax_err_msg(table, errors) ==
  arg_print_errors_ds(table, errors) \o <<1, 2>> \o arg_print_syntaxv_ds(table, 1) \o <<1>>

arg_make_get_help_msg == <<2, 3>>
===============================================================================
