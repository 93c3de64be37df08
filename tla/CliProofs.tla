-------------------------------- MODULE CliProofs --------------------------------
(***************************************************************************)
(* What the command line program guarantees for any command lines, hash    *)
(* functions and sizes.                                                    *)
(*                                                                         *)
(* ParseInv follows getopt through the arguments: where it has put those   *)
(* that are no options, and what the options so far amount to.  TableInv   *)
(* says which entries the table of commands has, ListInv which of them     *)
(* help has listed, BufferOk what fits the output buffer, and ArmedInv     *)
(* what the machine was told so far.                                       *)
(***************************************************************************)
EXTENDS Cli, DataLemmas

Word     == Seq(Pieces)
Commands == {HELP, STORE, SWITCH}
Parsing  == {"getopt", "untagged", "check", "parsed"}
Late     == {"sleep_privileges", "send", "armed"}
Steps    == {"register", "list", "cleanup", "exit"} \cup Parsing \cup Late

(* Errors of getopt, and about the entries of the table. *)
Kind == Pieces \cup {"none", "ELIMIT", "EMISSARG", "ELONGOPT", "ENOMATCH", "MAXCOUNT", "MINCOUNT"}
Err  == [kind : Kind, entry : {0} \cup DOMAIN table]

(* The command that is parsed: that of the command line, or the one that   *)
(* help calls.                                                             *)
Dispatched ==
  /\ cmd \in Commands
  /\ \/ cmd_argv = args /\ args # <<>> /\ cmd = args[1]
     \/ /\ args # <<>> /\ args[1] = HELP
        /\ cmd_argv = <<cmd, DashDash \o HELP>>

(* The words that the program may meet. *)
Given == {args[i] : i \in DOMAIN args} \cup Commands \cup {DashDash \o HELP}

(* What main and the handlers have done so far. *)
ProgramInv ==
  /\ args \in CommandLines
  /\ width \in Nat /\ posixly_correct \in BOOLEAN
  /\ pc \in Steps
  /\ cmd = <<>> \/ Dispatched
  /\ pc \in {"list"} \cup Parsing \cup Late => Dispatched
  /\ pc = "register" => cmd = <<>>
  /\ pc # "exit" => \A word \in Given : commands.hashfn[word] \in Nat

(* The arguments of a handler, and what getopt works on. *)
ParseTypes ==
  /\ table = argtable(cmd)
  /\ cmd_argv \in Seq(Given) /\ cmd_argv # <<>> /\ cmd_argv[1] = cmd
  /\ argv \in Seq(Given) /\ Len(argv) = Len(cmd_argv)
  /\ optind \in Nat \ {0}
  /\ place \in Word
  /\ nonopt_start \in Nat /\ nonopt_end \in Nat
  /\ found \in [DOMAIN table -> Seq(Word)] /\ found[CMD_NAME] \in Seq(Given)
  /\ errors \in Seq(Err)
  /\ tabindex \in Nat \ {0} /\ errorlast \in Err

(* The arguments that getopt moves are there. *)
Bounds ==
  /\ optind <= Len(argv) + 1 /\ nonopt_start < optind
  /\ nonopt_end # None => nonopt_start # None /\ nonopt_start < nonopt_end /\ nonopt_end <= optind
  /\ place # <<>> => optind <= Len(argv)

TypeInv ==
  /\ pc \in Parsing => ParseTypes
  /\ pc = "getopt" => Bounds

(* The arguments that are no options among the first n. *)
Others(line, n) == FlattenSeq([i \in 1 .. n |-> IF IsOption(line[i]) THEN <<>> ELSE <<line[i]>>])

(* What the options among the first n mean. *)
Options(line, n) ==
  FlattenSeq([i \in 1 .. n |-> IF IsOption(line[i]) THEN Meanings(line[i]) ELSE <<>>])

(* getopt has come to an argument it will never go past. *)
Stuck == optind <= Len(argv) /\ IsOption(argv[optind]) /\ EndsInDash(argv[optind])

(* The arguments of block stand in line from index `from` on. *)
StandsAt(line, from, block) == \A k \in 1 .. Len(block) : line[from + k - 1] = block[k]

(* The other arguments that were skipped are together, in their order,     *)
(* before those of the options that came behind them.                      *)
Skipped ==
  LET others == Others(cmd_argv, optind - 1)
      end == IF nonopt_end = None THEN optind ELSE nonopt_end
  IN  /\ end <= optind
      /\ nonopt_start + Len(others) = end /\ nonopt_start # None /\ others # <<>> /\ others[1] = cmd
      /\ StandsAt(argv, nonopt_start, others)

Cursors ==
  /\ \A k \in optind .. Len(argv) : argv[k] = cmd_argv[k]
  /\ \A k \in 1 .. (optind - 1) : cmd_argv[k] # DashDash
  /\ nonopt_start = None => optind = 1 /\ place = <<>> /\ nonopt_end = None
  /\ nonopt_start # None => ~posixly_correct /\ Skipped
  /\ nonopt_end = optind \/ place # <<>> =>
       /\ optind <= Len(argv) /\ IsOption(argv[optind]) /\ argv[optind] # DashDash
       /\ nonopt_end # None

(* The letters of an option argument that were scanned, and those to come. *)
Letter(arg, j) == \A k \in 2 .. j : arg[k] # "-"
InOption ==
  place # <<>> =>
    LET arg == argv[optind]  j == Len(arg) - Len(place)
    IN  /\ j \in 2 .. (Len(arg) - 1) /\ Letter(arg, j)
        /\ place = SubSeq(arg, j + 1, Len(arg))

(* The options that getopt has seen. *)
Seen ==
  Options(cmd_argv, optind - 1) \o
    IF place = <<>> THEN <<>>
    ELSE SubSeq(Meanings(argv[optind]), 1, Len(argv[optind]) - Len(place) - 1)

(* What those options and the other arguments amount to, of which `more`   *)
(* are too many.                                                           *)
AmountTo(values, errs, name, seen, more) ==
  /\ Len(values[HELP_OPT]) = Min({1, Count(seen, HELP)})
  /\ IF name = HELP THEN Count(seen, LAZY) = 0
     ELSE Len(values[LAZY_OPT]) = Min({1, Count(seen, LAZY)})
  /\ Len(errs) = Min({MaxErrors, Count(seen, <<"?">>) + Excess(Count(seen, HELP), 1)
                                 + Excess(Count(seen, LAZY), 1) + more})
Amounts(seen, more) == AmountTo(found, errors, cmd, seen, more)

Values(line, n) ==
  /\ found[1] = IF n >= 1 THEN <<Positionals(line)[1]>> ELSE <<>>
  /\ found[CMD_NAME] = IF n >= 2 THEN <<Positionals(line)[2]>> ELSE <<>>

GetoptInv ==
  pc = "getopt" =>
    /\ Cursors
    /\ found[1] = <<>> /\ found[CMD_NAME] = <<>>
    /\ Stuck \/ (InOption /\ Amounts(Seen, 0))
    /\ place # <<>> => InOption

(* How many of the values were taken or refused. *)
Taken == Len(Positionals(cmd_argv)) - (Len(argv) + 1 - optind)

(* The entry that is looked at, of so many, when n values were taken and   *)
(* there are more or not. *)
WalkedTo(i, last, n, entries, more) ==
  /\ i = 1 => n <= 1
  /\ i = 2 => n \in 1 .. 2
  /\ i \in 3 .. entries => n = 2
  /\ i > entries => n >= 2
  /\ i <= entries + 1
  /\ last # NoError => i >= 2 /\ more /\ (i > 2 => n = 2)

UntaggedInv ==
  pc = "untagged" =>
    LET values == Positionals(cmd_argv)
    IN  /\ values # <<>> /\ values[1] = cmd
        /\ Taken \in 0 .. Len(values)
        /\ \A k \in optind .. Len(argv) : argv[k] = values[k + (Len(values) - Len(argv))]
        /\ Values(cmd_argv, Taken)
        /\ Amounts(MeaningsOf(cmd_argv), Excess(Taken, 2))
        /\ WalkedTo(tabindex, errorlast, Taken, Len(table), optind <= Len(argv))

ParsedInv ==
  pc \in {"check", "parsed"} =>
    /\ Values(cmd_argv, Len(Positionals(cmd_argv)))
    /\ Positionals(cmd_argv) # <<>>
    /\ Amounts(MeaningsOf(cmd_argv), Excess(Len(Positionals(cmd_argv)), 2))

ParseInv == GetoptInv /\ UntaggedInv /\ ParsedInv

(* ds is a buffer whose text fits. *)
Dstr == [data : {"sbuf", "append"}, len : Nat, append_data_size : Nat, append_used : Nat, live : {0, 1}]
BufferOk(ds) ==
  /\ ds \in Dstr
  /\ ds.data = "sbuf" => ds.len = 0 /\ ds.append_data_size = 0
  /\ ds.data = "append" => ds.len + 1 <= ds.append_data_size
  /\ ds.live = IF ds.append_data_size = 0 THEN 0 ELSE 1

OutputInv ==
  /\ BufferOk(res) /\ texts \in Seq(Nat)
  /\ pc = "exit" => texts = <<>> /\ res.append_data_size = 0

-------------------------------------------------------------------------------
(* A chain of entries: each belongs there, and no two have the same key. *)
Chain(c, i, size, hashfn) ==
  /\ c \in Seq([h : Nat, k : Commands, v : Commands])
  /\ \A n \in DOMAIN c : c[n].v = c[n].k /\ c[n].h = hashfn[c[n].k] /\ index_for(size, c[n].h) = i
  /\ \A m, n \in DOMAIN c : c[m].k = c[n].k => m = n

(* These chains have an entry for each of the keys, and no other. *)
Chains(t, size, hashfn, keys) ==
  /\ size \in Nat \ {0} /\ DOMAIN t = 0 .. (size - 1)
  /\ \A i \in 0 .. (size - 1) : Chain(t[i], i, size, hashfn)
  /\ keys \subseteq Commands
  /\ \A k \in Commands : k \in keys <=> \E i \in 0 .. (size - 1) : \E n \in DOMAIN t[i] : t[i][n].k = k

Table(h, keys) ==
  /\ h \in [table : {h.table}, tablelength : Nat, primeindex : DOMAIN Primes, entrycount : Nat,
            hashfn : {h.hashfn}]
  /\ \A k \in Commands : h.hashfn[k] \in Nat
  /\ Chains(h.table, h.tablelength, h.hashfn, keys)

Registered == {AllCommands[n] : n \in 1 .. (Len(AllCommands) - Len(unregistered))}

TableInv ==
  /\ unregistered \in {AllCommands, <<STORE, SWITCH>>, <<SWITCH>>, <<>>}
  /\ pc # "exit" => Table(commands, Registered)
  /\ pc # "register" => unregistered = <<>>

(* An iterator has not gone past place n of chain i yet. *)
Ahead(p, i, n) == p.pos # 0 /\ (i > p.index \/ (i = p.index /\ n >= p.pos))

(* It stands at an entry, if it has not come to the end. *)
AtEntry(p, h) ==
  /\ p \in [index : Nat, pos : Nat]
  /\ p.pos # 0 => p.index \in 0 .. (h.tablelength - 1) /\ p.pos \in DOMAIN h.table[p.index]

Elements(s) == {s[n] : n \in 1 .. Len(s)}

ListInv ==
  /\ pc \notin {"list", "cleanup", "exit"} => listed = <<>>
  /\ listed \in Seq(Commands)
  /\ \A j, k \in DOMAIN listed : listed[j] = listed[k] => j = k
  /\ pc = "list" =>
       /\ AtEntry(itr, commands) /\ itr.pos # 0
       /\ \A i \in 0 .. (commands.tablelength - 1) : \A n \in DOMAIN commands.table[i] :
            commands.table[i][n].k \in Elements(listed) <=> ~Ahead(itr, i, n)
  /\ pc \in {"cleanup", "exit"} /\ listed # <<>> => Elements(listed) = Commands

-------------------------------------------------------------------------------
(* What the machine was told. *)
ArmedInv ==
  ~posixly_correct =>
    /\ pc = "list" => args[1] = HELP
    /\ pc \in Late => Commanded /\ cmd = args[1] /\ (is_lazy <=> CommandedLazily)
    /\ pc \notin {"armed", "cleanup", "exit"} => action = NoAction
    /\ pc = "armed" => action = args[1]
    /\ pc \notin {"cleanup", "exit"} => ~slept
    /\ action # NoAction => Commanded /\ action = args[1]
    /\ slept => action # NoAction /\ ~CommandedLazily
    /\ pc \in {"cleanup", "exit"} /\ exitcode = 0 /\ Commanded =>
         action = args[1] /\ (slept \/ CommandedLazily)
    /\ pc \in {"cleanup", "exit"} /\ exitcode # 0 /\ action # NoAction => ~slept /\ ~CommandedLazily

-------------------------------------------------------------------------------
(* The table of commands. *)

Entry == [h : Nat, k : Commands, v : Commands]

(* Min is the least of a set of numbers that has one. *)
LEMMA MinIsLeast ==
  ASSUME NEW S, S \subseteq Nat, S # {}
  PROVE  Min(S) \in S /\ \A m \in S : Min(S) <= m
PROOF
<1>1. \E n \in S : \A m \in S : n <= m
  BY Least
<1> QED
  BY <1>1 DEF Min

LEMMA IndexInside ==
  ASSUME NEW size \in Nat \ {0}, NEW hash \in Nat
  PROVE  index_for(size, hash) \in 0 .. (size - 1)
PROOF
BY DEF index_for

(* What arg_hashtable_search finds: each key that has an entry, whatever   *)
(* else is in its chain, and no other.                                     *)
LEMMA SearchFinds ==
  ASSUME NEW h, NEW keys, Table(h, keys), NEW k, h.hashfn[k] \in Nat
  PROVE  /\ Position(h, k) = 0 <=> k \notin keys
         /\ arg_hashtable_search(h, k) = IF k \in keys THEN k ELSE NoEntry
PROOF
<1> DEFINE hash == h.hashfn[k]
           i == index_for(h.tablelength, hash)
           chain == h.table[i]
           here == {n \in 1 .. Len(chain) : chain[n].h = hash /\ chain[n].k = k}
<1>1. h.tablelength \in Nat \ {0} /\ i \in 0 .. (h.tablelength - 1)
  BY IndexInside DEF Table, Chains
<1>2. /\ Chain(chain, i, h.tablelength, h.hashfn)
      /\ chain \in Seq(Entry) /\ DOMAIN chain = 1 .. Len(chain) /\ Len(chain) \in Nat
  <2>1. Chain(chain, i, h.tablelength, h.hashfn)
    BY <1>1 DEF Table, Chains
  <2> HIDE DEF chain, i
  <2>2. chain \in Seq(Entry)
    BY <2>1 DEF Chain, Entry
  <2> QED
    BY <2>1, <2>2, LenProperties
<1>3. Position(h, k) = IF here # {} THEN Min(here) ELSE 0
  BY DEF Position, SelectInSeq
<1>4. here # {} <=> k \in keys
  <2>1. ASSUME NEW n \in here
        PROVE  k \in keys
    <3>1. n \in DOMAIN chain /\ chain[n].k = k /\ chain[n] \in Entry
      <4> HIDE DEF chain, i, hash
      <4> QED
        BY <1>2, <2>1, ElementOfSeq
    <3> QED
      BY <1>1, <3>1 DEF Table, Chains, Entry
  <2>2. ASSUME k \in keys
        PROVE  here # {}
    <3>1. k \in Commands
      BY <2>2 DEF Table, Chains
    <3> PICK j \in 0 .. (h.tablelength - 1) : \E n \in DOMAIN h.table[j] : h.table[j][n].k = k
      BY <2>2, <3>1 DEF Table, Chains
    <3>2. PICK n \in DOMAIN h.table[j] : h.table[j][n].k = k
      OBVIOUS
    <3>3. Chain(h.table[j], j, h.tablelength, h.hashfn)
      BY DEF Table, Chains
    <3>4. h.table[j][n].h = hash /\ index_for(h.tablelength, h.table[j][n].h) = j
      BY <3>2, <3>3 DEF Chain
    <3>5. j = i
      BY <3>4
    <3>6. n \in 1 .. Len(chain)
      <4>1. n \in DOMAIN chain /\ chain \in Seq(Entry)
        BY <1>2, <3>5
      <4> HIDE DEF chain
      <4> QED
        BY <4>1
    <3> QED
      BY <3>2, <3>4, <3>5, <3>6
  <2> QED
    BY <2>1, <2>2
<1>5. CASE here # {}
  <2>1. Min(here) \in here
    <3>1. here \subseteq Nat
      <4> HIDE DEF chain, hash
      <4> QED
        BY <1>2
    <3> QED
      BY <1>5, <3>1, MinIsLeast
  <2> DEFINE m == Min(here)
  <2>2. Position(h, k) = m /\ m # 0 /\ m \in DOMAIN chain /\ chain[m].k = k
    <3> HIDE DEF chain, i, hash
    <3> QED
      BY <1>2, <1>3, <1>5, <2>1
  <2>3. chain[m].v = k
    BY <1>2, <2>2 DEF Chain
  <2> HIDE DEF m
  <2> QED
    BY <1>4, <1>5, <2>2, <2>3 DEF arg_hashtable_search
<1>6. CASE here = {}
  BY <1>3, <1>4, <1>6 DEF arg_hashtable_search
<1> QED
  BY <1>5, <1>6

(* A new entry at the head of its chain. *)
With(t, size, e) == [t EXCEPT ![index_for(size, e.h)] = <<e>> \o @]

LEMMA EntryJoins ==
  ASSUME NEW t, NEW size, NEW hashfn, NEW keys, Chains(t, size, hashfn, keys),
         NEW k \in Commands, k \notin keys, hashfn[k] \in Nat,
         NEW e, e = [h |-> hashfn[k], k |-> k, v |-> k]
  PROVE  Chains(With(t, size, e), size, hashfn, keys \cup {k})
PROOF
<1> DEFINE i == index_for(size, e.h)  w == With(t, size, e)
<1>1. i \in 0 .. (size - 1) /\ size \in Nat \ {0} /\ e \in Entry /\ e.k = k /\ e.h = hashfn[k] /\ e.v = k
  BY IndexInside DEF Chains, Entry
<1>2. /\ DOMAIN w = 0 .. (size - 1)
      /\ w[i] = <<e>> \o t[i] /\ \A j \in 0 .. (size - 1) : j # i => w[j] = t[j]
  BY <1>1 DEF Chains, With
<1> HIDE DEF i, w
<1>3. \A j \in 0 .. (size - 1) : Chain(t[j], j, size, hashfn)
  BY DEF Chains
<1>4. /\ t[i] \in Seq(Entry) /\ w[i] \in Seq(Entry) /\ Len(w[i]) = Len(t[i]) + 1 /\ w[i][1] = e
      /\ \A n \in 1 .. Len(t[i]) : w[i][n + 1] = t[i][n]
  <2>1. t[i] \in Seq(Entry)
    BY <1>1, <1>3 DEF Chain, Entry
  <2>2. <<e>> \in Seq(Entry) /\ Len(<<e>>) = 1 /\ <<e>>[1] = e
    BY <1>1
  <2> QED
    BY <1>2, <2>1, <2>2, ConcatProperties
<1>5. DOMAIN w[i] = 1 .. (Len(t[i]) + 1) /\ DOMAIN t[i] = 1 .. Len(t[i]) /\ Len(t[i]) \in Nat
  BY <1>4
<1>6. \A n \in DOMAIN w[i] : (n = 1 /\ w[i][n] = e) \/ (n - 1 \in DOMAIN t[i] /\ w[i][n] = t[i][n - 1])
  BY <1>4, <1>5
<1>7. \A j \in 0 .. (size - 1) : \A n \in DOMAIN t[j] : t[j][n].k # k
  BY DEF Chains
<1>8. Chain(w[i], i, size, hashfn)
  <2>1. ASSUME NEW n \in DOMAIN w[i]
        PROVE  w[i][n].v = w[i][n].k /\ w[i][n].h = hashfn[w[i][n].k] /\ index_for(size, w[i][n].h) = i
    <3>1. CASE w[i][n] = e
      BY <1>1, <3>1 DEF i
    <3>2. CASE n - 1 \in DOMAIN t[i] /\ w[i][n] = t[i][n - 1]
      <4>1. Chain(t[i], i, size, hashfn)
        BY <1>1, <1>3
      <4> QED
        BY <3>2, <4>1 DEF Chain
    <3> QED
      BY <1>6, <3>1, <3>2
  <2>2. ASSUME NEW m \in DOMAIN w[i], NEW n \in DOMAIN w[i], w[i][m].k = w[i][n].k
        PROVE  m = n
    <3>1. Chain(t[i], i, size, hashfn)
      BY <1>1, <1>3
    <3>2. CASE m = 1 /\ n = 1
      BY <3>2
    <3>3. CASE m = 1 /\ n # 1
      <4>1. w[i][m] = e /\ n - 1 \in DOMAIN t[i] /\ w[i][n] = t[i][n - 1]
        BY <1>4, <1>6, <3>3
      <4> QED
        BY <1>1, <1>7, <2>2, <4>1
    <3>4. CASE m # 1 /\ n = 1
      <4>1. w[i][n] = e /\ m - 1 \in DOMAIN t[i] /\ w[i][m] = t[i][m - 1]
        BY <1>4, <1>6, <3>4
      <4> QED
        BY <1>1, <1>7, <2>2, <4>1
    <3>5. CASE m # 1 /\ n # 1
      <4>1. m - 1 \in DOMAIN t[i] /\ n - 1 \in DOMAIN t[i] /\ t[i][m - 1].k = t[i][n - 1].k
        BY <1>6, <2>2, <3>5
      <4>2. m - 1 = n - 1
        BY <3>1, <4>1 DEF Chain
      <4> QED
        BY <1>5, <4>2
    <3> QED
      BY <3>2, <3>3, <3>4, <3>5
  <2> QED
    BY <1>4, <2>1, <2>2 DEF Chain, Entry
<1>9. ASSUME NEW j \in 0 .. (size - 1)
      PROVE  Chain(w[j], j, size, hashfn)
  BY <1>2, <1>3, <1>8
<1>10. ASSUME NEW c \in Commands
       PROVE  c \in keys \cup {k} <=> \E j \in 0 .. (size - 1) : \E n \in DOMAIN w[j] : w[j][n].k = c
  <2>1. ASSUME c \in keys
        PROVE  \E j \in 0 .. (size - 1) : \E n \in DOMAIN w[j] : w[j][n].k = c
    <3> PICK j \in 0 .. (size - 1) : \E n \in DOMAIN t[j] : t[j][n].k = c
      BY <2>1 DEF Chains
    <3>1. PICK n \in DOMAIN t[j] : t[j][n].k = c
      OBVIOUS
    <3>2. CASE j = i
      <4>1. n \in 1 .. Len(t[i]) /\ t[i][n].k = c
        BY <1>5, <3>1, <3>2
      <4>2. n + 1 \in DOMAIN w[i] /\ w[i][n + 1].k = c
        BY <1>4, <1>5, <4>1
      <4> QED
        BY <1>1, <4>2
    <3>3. CASE j # i
      BY <1>2, <3>1, <3>3
    <3> QED
      BY <3>2, <3>3
  <2>2. 1 \in DOMAIN w[i] /\ w[i][1].k = k
    BY <1>1, <1>4, <1>5
  <2>3. ASSUME NEW j \in 0 .. (size - 1), NEW n \in DOMAIN w[j], w[j][n].k = c
        PROVE  c \in keys \cup {k}
    <3>1. CASE j = i
      <4>1. w[i][n] = e \/ (n - 1 \in DOMAIN t[i] /\ w[i][n] = t[i][n - 1])
        BY <1>6, <2>3, <3>1
      <4> QED
        BY <1>1, <2>3, <3>1, <4>1 DEF Chains
    <3>2. CASE j # i
      <4>1. w[j] = t[j]
        BY <1>2, <3>2
      <4> QED
        BY <2>3, <4>1 DEF Chains
    <3> QED
      BY <3>1, <3>2
  <2> QED
    BY <1>1, <2>1, <2>2, <2>3
<1>11. keys \cup {k} \subseteq Commands
  BY DEF Chains
<1> QED
  BY <1>1, <1>2, <1>9, <1>10, <1>11 DEF Chains, w

(* What holds of a list of entries that a table of these keys could have.  *)
Listing(s, hashfn, keys) ==
  /\ s \in Seq(Entry)
  /\ \A n \in 1 .. Len(s) : s[n].v = s[n].k /\ s[n].h = hashfn[s[n].k]
  /\ \A m, n \in 1 .. Len(s) : s[m].k = s[n].k => m = n
  /\ keys \subseteq Commands
  /\ \A c \in Commands : c \in keys <=> \E n \in 1 .. Len(s) : s[n].k = c

(* The keys in the first n chains. *)
KeysBefore(h, n) ==
  {c \in Commands : \E i \in 0 .. (h.tablelength - 1) : i < n /\ \E m \in DOMAIN h.table[i] : h.table[i][m].k = c}

(* The chains, one after the other, are such a list. *)
LEMMA EntriesAreListed ==
  ASSUME NEW h, NEW keys, Table(h, keys)
  PROVE  Listing(Entries(h), h.hashfn, keys)
PROOF
<1> DEFINE size == h.tablelength
           b == [i \in 1 .. size |-> h.table[i - 1]]
           flat(n) == FlattenSeq([i \in 1 .. n |-> b[i]])
           P == {n \in Nat : n <= size => Listing(flat(n), h.hashfn, KeysBefore(h, n))}
<1>1. size \in Nat \ {0} /\ \A i \in 0 .. (size - 1) : Chain(h.table[i], i, size, h.hashfn)
  BY DEF Table, Chains
<1>2. \A i \in 1 .. size : b[i] = h.table[i - 1] /\ b[i] \in Seq(Entry)
  <2>1. ASSUME NEW i \in 1 .. size
        PROVE  b[i] = h.table[i - 1] /\ b[i] \in Seq(Entry)
    <3>1. i - 1 \in 0 .. (size - 1) /\ b[i] = h.table[i - 1]
      BY <1>1
    <3> QED
      BY <1>1, <3>1 DEF Chain, Entry
  <2> QED
    BY <2>1
<1>3. Entries(h) = flat(size)
  BY DEF Entries
<1> HIDE DEF b
<1>4. 0 \in P
  <2>1. flat(0) = <<>>
    BY FlatNone
  <2>2. KeysBefore(h, 0) = {}
    BY DEF KeysBefore
  <2> HIDE DEF flat
  <2>3. Listing(<<>>, h.hashfn, {})
    BY DEF Listing
  <2> QED
    BY <2>1, <2>2, <2>3
<1>5. ASSUME NEW n \in Nat, n \in P, n + 1 <= size
      PROVE  Listing(flat(n + 1), h.hashfn, KeysBefore(h, n + 1))
  <2> DEFINE s == flat(n)  c == h.table[n]  w == flat(n + 1)  before == KeysBefore(h, n)
  <2>1. Listing(s, h.hashfn, before)
    BY <1>1, <1>5
  <2>2. n \in 0 .. (size - 1) /\ n + 1 \in 1 .. size /\ b[n + 1] = c
    BY <1>1, <1>2, <1>5
  <2>3. w = s \o c
    <3>1. \A i \in 1 .. (n + 1) : b[i] \in Seq(Entry)
      BY <1>1, <1>2, <1>5
    <3> QED
      BY <2>2, <3>1, FlatNext
  <2>4. Chain(c, n, size, h.hashfn) /\ c \in Seq(Entry)
    BY <1>1, <2>2 DEF Chain, Entry
  <2>5. s \in Seq(Entry)
    BY <2>1 DEF Listing
  <2> HIDE DEF s, c, w, flat, size
  <2>6. /\ w \in Seq(Entry) /\ Len(w) = Len(s) + Len(c) /\ Len(s) \in Nat /\ Len(c) \in Nat
        /\ \A j \in 1 .. Len(w) : w[j] = IF j <= Len(s) THEN s[j] ELSE c[j - Len(s)]
        /\ DOMAIN c = 1 .. Len(c)
    BY <2>3, <2>4, <2>5, ConcatProperties, LenProperties
  <2>7. ASSUME NEW j \in 1 .. Len(w)
        PROVE  \/ j \in 1 .. Len(s) /\ w[j] = s[j] /\ w[j].k \in before
               \/ j - Len(s) \in DOMAIN c /\ w[j] = c[j - Len(s)] /\ w[j].k \notin before
    <3>1. CASE j <= Len(s)
      <4>1. j \in 1 .. Len(s) /\ w[j] = s[j] /\ s[j].k \in Commands
        <5>1. j \in 1 .. Len(s) /\ w[j] = s[j]
          BY <2>6, <3>1
        <5>2. s[j] \in Entry
          BY <2>5, <5>1, ElementOfSeq
        <5> QED
          BY <5>1, <5>2 DEF Entry
      <4> QED
        BY <2>1, <4>1 DEF Listing
    <3>2. CASE ~(j <= Len(s))
      <4> DEFINE m == j - Len(s)
      <4>1. m \in DOMAIN c /\ w[j] = c[m]
        BY <2>6, <3>2
      <4> HIDE DEF m
      <4>2. /\ c[m].h = h.hashfn[c[m].k] /\ index_for(size, c[m].h) = n
        BY <2>4, <4>1 DEF Chain
      <4>3. ASSUME c[m].k \in before
            PROVE  FALSE
        <5> PICK i \in 0 .. (size - 1) : i < n /\ \E q \in DOMAIN h.table[i] : h.table[i][q].k = c[m].k
          BY <4>3 DEF KeysBefore, size
        <5>1. PICK q \in DOMAIN h.table[i] : h.table[i][q].k = c[m].k
          OBVIOUS
        <5>2. h.table[i][q].h = h.hashfn[h.table[i][q].k] /\ index_for(size, h.table[i][q].h) = i
          BY <1>1, <5>1 DEF Chain, size
        <5>3. i = n
          BY <4>2, <5>1, <5>2
        <5> QED
          BY <2>2, <5>3
      <4> QED
        BY <4>1, <4>3 DEF m
    <3> QED
      BY <3>1, <3>2
  <2>8. \A j \in 1 .. Len(w) : w[j].v = w[j].k /\ w[j].h = h.hashfn[w[j].k]
    BY <2>1, <2>4, <2>7 DEF Listing, Chain
  <2>9. ASSUME NEW i \in 1 .. Len(w), NEW j \in 1 .. Len(w), w[i].k = w[j].k
        PROVE  i = j
    <3>1. CASE i \in 1 .. Len(s) /\ w[i] = s[i] /\ j \in 1 .. Len(s) /\ w[j] = s[j]
      BY <2>1, <2>9, <3>1 DEF Listing
    <3>2. CASE i - Len(s) \in DOMAIN c /\ w[i] = c[i - Len(s)] /\ j - Len(s) \in DOMAIN c /\ w[j] = c[j - Len(s)]
      <4>1. i - Len(s) = j - Len(s)
        BY <2>4, <2>9, <3>2 DEF Chain
      <4> QED
        BY <2>6, <4>1
    <3> QED
      BY <2>7, <2>9, <3>1, <3>2
  <2>10. ASSUME NEW k \in Commands
         PROVE  k \in KeysBefore(h, n + 1) <=> \E j \in 1 .. Len(w) : w[j].k = k
    <3>1. k \in KeysBefore(h, n + 1) <=> k \in before \/ \E m \in DOMAIN c : c[m].k = k
      BY <2>2 DEF KeysBefore, size, c
    <3>2. ASSUME k \in before
          PROVE  \E j \in 1 .. Len(w) : w[j].k = k
      <4>1. PICK j \in 1 .. Len(s) : s[j].k = k
        BY <2>1, <3>2 DEF Listing
      <4>2. j \in 1 .. Len(w) /\ w[j] = s[j]
        BY <2>6, <4>1
      <4> QED
        BY <4>1, <4>2
    <3>3. ASSUME NEW m \in DOMAIN c, c[m].k = k
          PROVE  \E j \in 1 .. Len(w) : w[j].k = k
      <4>1. m + Len(s) \in 1 .. Len(w) /\ ~(m + Len(s) <= Len(s)) /\ (m + Len(s)) - Len(s) = m
        BY <2>6, <3>3
      <4>2. w[m + Len(s)] = c[m]
        BY <2>6, <4>1
      <4> QED
        BY <3>3, <4>1, <4>2
    <3>4. ASSUME NEW j \in 1 .. Len(w), w[j].k = k
          PROVE  k \in before \/ \E m \in DOMAIN c : c[m].k = k
      BY <2>7, <3>4
    <3> QED
      BY <3>1, <3>2, <3>3, <3>4
  <2>11. KeysBefore(h, n + 1) \subseteq Commands
    BY DEF KeysBefore
  <2>12. Listing(w, h.hashfn, KeysBefore(h, n + 1))
    BY <2>6, <2>8, <2>9, <2>10, <2>11 DEF Listing
  <2> QED
    BY <2>12 DEF w
<1>6. ASSUME NEW n \in Nat, n \in P
      PROVE  n + 1 \in P
  BY <1>5, <1>6
<1>7. Nat \subseteq P
  <2> HIDE DEF P
  <2> QED
    BY <1>4, <1>6, AllNumbers
<1>8. Listing(flat(size), h.hashfn, KeysBefore(h, size))
  <2> HIDE DEF flat
  <2> QED
    BY <1>1, <1>7
<1>9. KeysBefore(h, size) = keys
  <2>1. \A i \in 0 .. (size - 1) : i < size
    BY <1>1
  <2> QED
    BY <2>1 DEF KeysBefore, Table, Chains
<1> QED
  BY <1>3, <1>8, <1>9

(* arg_hashtable_expand loses no entry: each one joins its new chain.      *)
LEMMA ExpandKeeps ==
  ASSUME NEW h, NEW keys, Table(h, keys), NEW k \in Commands, k \notin keys
  PROVE  Table(arg_hashtable_expand(h), keys) /\ arg_hashtable_expand(h).hashfn = h.hashfn
PROOF
<1>1. CASE h.primeindex = Len(Primes)
  BY <1>1 DEF arg_hashtable_expand
<1>2. CASE h.primeindex # Len(Primes)
  <2> DEFINE newsize == Primes[h.primeindex + 1]
             s == Entries(h)
             none == [i \in 0 .. (newsize - 1) |-> <<>>]
             Body(f, n) == IF n = 0 THEN none ELSE With(f[n - 1], newsize, s[n])
             IsTables(f, N) == f = [n \in 0 .. N |-> Body(f, n)]
             newtable == CHOOSE f : IsTables(f, Len(s))
  <2>1. newsize \in Nat \ {0} /\ h.primeindex + 1 \in DOMAIN Primes
    BY <1>2, PrimesGrow DEF Table
  <2>2. Listing(s, h.hashfn, keys)
    BY EntriesAreListed
  <2>3. s \in Seq(Entry) /\ Len(s) \in Nat
    BY <2>2, LenProperties DEF Listing
  <2>4. \E f : IsTables(f, Len(s))
    <3> DEFINE Q == {N \in Nat : \E f : IsTables(f, N)}
    <3>1. 0 \in Q
      <4> DEFINE f == [n \in 0 .. 0 |-> none]
      <4>1. IsTables(f, 0)
        <5> HIDE DEF none
        <5> QED
          OBVIOUS
      <4> QED
        BY <4>1
    <3>2. ASSUME NEW N \in Nat, N \in Q
          PROVE  N + 1 \in Q
      <4>1. PICK f : IsTables(f, N)
        BY <3>2
      <4> DEFINE g == [n \in 0 .. (N + 1) |-> IF n = N + 1 THEN Body(f, n) ELSE f[n]]
      <4>2. ASSUME NEW n \in 0 .. (N + 1)
            PROVE  g[n] = Body(g, n)
        <5>1. n # 0 => n - 1 \in 0 .. (N + 1) /\ n - 1 # N + 1 /\ g[n - 1] = f[n - 1]
          OBVIOUS
        <5>2. n # N + 1 => n \in 0 .. N
          OBVIOUS
        <5>3. g[n] = IF n = N + 1 THEN Body(f, n) ELSE f[n]
          OBVIOUS
        <5>4. n \in 0 .. N => f[n] = Body(f, n)
          <6> HIDE DEF Body
          <6> QED
            BY <4>1
        <5> HIDE DEF g, none
        <5>5. g[n] = Body(f, n)
          BY <5>2, <5>3, <5>4
        <5> QED
          BY <5>1, <5>5
      <4>3. IsTables(g, N + 1)
        <5>1. g = [n \in 0 .. (N + 1) |-> g[n]]
          OBVIOUS
        <5> HIDE DEF g, Body
        <5> QED
          BY <4>2, <5>1
      <4> HIDE DEF g, IsTables
      <4> QED
        BY <4>3
    <3> HIDE DEF Q
    <3>3. Nat \subseteq Q
      BY <3>1, <3>2, AllNumbers
    <3> HIDE DEF IsTables
    <3>4. Len(s) \in Q
      BY <2>3, <3>3
    <3> QED
      BY <3>4 DEF Q
  <2>5. IsTables(newtable, Len(s))
    <3> HIDE DEF IsTables
    <3> QED
      BY <2>4
  <2>6. arg_hashtable_expand(h) =
          [h EXCEPT !.table = newtable[Len(s)], !.tablelength = newsize, !.primeindex = @ + 1]
    BY <1>2 DEF arg_hashtable_expand, With
  <2> HIDE DEF newtable
  <2>7. /\ newtable[0] = none
        /\ \A n \in 1 .. Len(s) : newtable[n] = With(newtable[n - 1], newsize, s[n])
    <3>1. \A n \in 0 .. Len(s) : newtable[n] = Body(newtable, n)
      <4> HIDE DEF Body
      <4> QED
        BY <2>5
    <3> HIDE DEF none, s, newsize
    <3>2. 0 \in 0 .. Len(s)
      BY <2>3
    <3>3. \A n \in 1 .. Len(s) : n \in 0 .. Len(s) /\ n # 0
      BY <2>3
    <3> QED
      BY <3>1, <3>2, <3>3
  <2> HIDE DEF s, newsize
  <2> DEFINE moved(n) == {s[m].k : m \in 1 .. n}
             P == {n \in Nat : n <= Len(s) => Chains(newtable[n], newsize, h.hashfn, moved(n))}
  <2>8. 0 \in P
    <3>1. moved(0) = {}
      OBVIOUS
    <3>2. \A i \in 0 .. (newsize - 1) : none[i] = <<>>
      OBVIOUS
    <3>3. DOMAIN none = 0 .. (newsize - 1)
      OBVIOUS
    <3> HIDE DEF none, moved
    <3>4. Chains(none, newsize, h.hashfn, {})
      <4>1. ASSUME NEW i \in 0 .. (newsize - 1)
            PROVE  Chain(none[i], i, newsize, h.hashfn) /\ DOMAIN none[i] = {}
        <5>1. none[i] = <<>>
          BY <3>2
        <5>2. Chain(<<>>, i, newsize, h.hashfn)
          BY EmptySeq DEF Chain
        <5> QED
          BY <5>1, <5>2
      <4> QED
        BY <2>1, <3>3, <4>1 DEF Chains
    <3> QED
      BY <2>7, <3>1, <3>4
  <2>9. ASSUME NEW n \in Nat, n \in P
        PROVE  n + 1 \in P
    <3> SUFFICES ASSUME n + 1 <= Len(s)
                 PROVE  Chains(newtable[n + 1], newsize, h.hashfn, moved(n + 1))
      OBVIOUS
    <3> DEFINE e == s[n + 1]
    <3>1. n + 1 \in 1 .. Len(s) /\ n <= Len(s) /\ (n + 1) - 1 = n /\ \A m \in 1 .. n : m \in 1 .. Len(s) /\ m # n + 1
      BY <2>3
    <3>2. Chains(newtable[n], newsize, h.hashfn, moved(n))
      BY <2>9, <3>1
    <3>3. e \in Entry
      BY <2>3, <3>1, ElementOfSeq
    <3>4. e.k \in Commands /\ e = [h |-> h.hashfn[e.k], k |-> e.k, v |-> e.k] /\ h.hashfn[e.k] \in Nat
      BY <2>2, <3>1, <3>3 DEF Listing, Entry
    <3>5. e.k \notin moved(n)
      BY <2>2, <3>1 DEF Listing
    <3>6. moved(n + 1) = moved(n) \cup {e.k}
      <4>1. \A m : m \in 1 .. (n + 1) <=> m \in 1 .. n \/ m = n + 1
        OBVIOUS
      <4> QED
        BY <4>1
    <3>7. newtable[n + 1] = With(newtable[n], newsize, e)
      BY <2>7, <3>1
    <3> HIDE DEF e, moved
    <3> QED
      BY <3>2, <3>4, <3>5, <3>6, <3>7, EntryJoins
  <2>10. Nat \subseteq P
    <3> HIDE DEF P
    <3> QED
      BY <2>8, <2>9, AllNumbers
  <2>11. Chains(newtable[Len(s)], newsize, h.hashfn, moved(Len(s)))
    <3> HIDE DEF moved
    <3> QED
      BY <2>3, <2>10
  <2>12. moved(Len(s)) = keys
    <3>1. ASSUME NEW m \in 1 .. Len(s)
          PROVE  s[m].k \in Commands
      <4>1. s[m] \in Entry
        BY <2>3, ElementOfSeq
      <4> QED
        BY <4>1 DEF Entry
    <3> QED
      BY <2>2, <3>1 DEF Listing
  <2> DEFINE x == arg_hashtable_expand(h)
  <2>13. /\ x.table = newtable[Len(s)] /\ x.tablelength = newsize /\ x.primeindex = h.primeindex + 1
         /\ x.hashfn = h.hashfn
         /\ x \in [table : {x.table}, tablelength : Nat, primeindex : DOMAIN Primes, entrycount : Nat,
                   hashfn : {x.hashfn}]
    BY <2>1, <2>6 DEF Table
  <2> HIDE DEF x
  <2>14. Table(x, keys)
    BY <2>11, <2>12, <2>13 DEF Table
  <2> QED
    BY <2>13, <2>14 DEF x
<1> QED
  BY <1>1, <1>2

(* A new command joins those that are registered.                          *)
LEMMA RegisterAdds ==
  ASSUME NEW h, NEW keys, Table(h, keys), NEW k \in Commands, k \notin keys
  PROVE  Table(arg_cmd_register(h, k), keys \cup {k}) /\ arg_cmd_register(h, k).hashfn = h.hashfn
PROOF
<1> DEFINE roomy == IF h.entrycount + 1 > loadlimit(h.tablelength) THEN arg_hashtable_expand(h) ELSE h
           e == [h |-> h.hashfn[k], k |-> k, v |-> k]
           x == [roomy EXCEPT !.table[index_for(roomy.tablelength, e.h)] = <<e>> \o @, !.entrycount = @ + 1]
<1>1. arg_hashtable_search(h, k) = NoEntry
  BY SearchFinds DEF Table
<1>2. arg_cmd_register(h, k) = x
  BY <1>1 DEF arg_cmd_register, arg_hashtable_insert
<1>3. Table(roomy, keys) /\ roomy.hashfn = h.hashfn
  BY ExpandKeeps
<1> HIDE DEF roomy
<1>4. /\ x.table = With(roomy.table, roomy.tablelength, e) /\ x.tablelength = roomy.tablelength
      /\ x.hashfn = roomy.hashfn
      /\ x \in [table : {x.table}, tablelength : Nat, primeindex : DOMAIN Primes, entrycount : Nat,
                hashfn : {x.hashfn}]
  <2>1. roomy \in [table : {roomy.table}, tablelength : Nat, primeindex : DOMAIN Primes, entrycount : Nat,
                   hashfn : {roomy.hashfn}]
    BY <1>3 DEF Table
  <2>2. x = [roomy EXCEPT !.table = With(roomy.table, roomy.tablelength, e), !.entrycount = @ + 1]
    BY <2>1 DEF With
  <2> DEFINE w == With(roomy.table, roomy.tablelength, e)
  <2> HIDE DEF e, x, w
  <2>3. x = [roomy EXCEPT !.table = w, !.entrycount = @ + 1]
    BY <2>2 DEF w
  <2>4. /\ x.table = w /\ x.tablelength = roomy.tablelength /\ x.hashfn = roomy.hashfn
        /\ x \in [table : {x.table}, tablelength : Nat, primeindex : DOMAIN Primes, entrycount : Nat,
                  hashfn : {x.hashfn}]
    <3>1. /\ DOMAIN roomy = {"table", "tablelength", "primeindex", "entrycount", "hashfn"}
          /\ roomy.entrycount + 1 \in Nat /\ roomy.tablelength \in Nat /\ roomy.primeindex \in DOMAIN Primes
      BY <2>1
    <3>2. /\ x.table = w /\ x.tablelength = roomy.tablelength /\ x.hashfn = roomy.hashfn
          /\ x.entrycount = roomy.entrycount + 1 /\ x.primeindex = roomy.primeindex
      BY <2>3, <3>1
    <3>3. x = [table |-> x.table, tablelength |-> x.tablelength, primeindex |-> x.primeindex,
               entrycount |-> x.entrycount, hashfn |-> x.hashfn]
      BY <2>1, <2>3
    <3> QED
      BY <3>1, <3>2, <3>3
  <2> QED
    BY <2>4 DEF w
<1>5. Chains(With(roomy.table, roomy.tablelength, e), roomy.tablelength, h.hashfn, keys \cup {k})
  <2>1. Chains(roomy.table, roomy.tablelength, h.hashfn, keys) /\ h.hashfn[k] \in Nat
    BY <1>3 DEF Table
  <2> QED
    BY <2>1, EntryJoins
<1> HIDE DEF x
<1>6. Table(x, keys \cup {k}) /\ x.hashfn = h.hashfn
  BY <1>3, <1>4, <1>5 DEF Table
<1> QED
  BY <1>2, <1>6

-------------------------------------------------------------------------------
(* The program's steps, as far as they concern the table of commands. *)

LEMMA Distinct ==
  /\ AllCommands = <<HELP, STORE, SWITCH>> /\ Len(AllCommands) = 3 /\ Commands = {HELP, STORE, SWITCH}
  /\ HELP # STORE /\ HELP # SWITCH /\ STORE # SWITCH
  /\ HELP # <<>> /\ STORE # <<>> /\ SWITCH # <<>>
  /\ HELP \in Word /\ STORE \in Word /\ SWITCH \in Word
PROOF
<1>1. Len(HELP) = 2 /\ Len(STORE) = 1 /\ Len(SWITCH) = 1 /\ STORE[1] = "store" /\ SWITCH[1] = "switch"
  BY DEF HELP, STORE, SWITCH
<1>2. HELP # STORE /\ HELP # SWITCH /\ STORE # SWITCH
  BY <1>1
<1>3. HELP # <<>> /\ STORE # <<>> /\ SWITCH # <<>>
  BY DEF HELP, STORE, SWITCH
<1>4. HELP \in Word /\ STORE \in Word /\ SWITCH \in Word
  <2> QED
    BY PiecesOfWords DEF HELP, STORE, SWITCH, Word
<1> QED
  BY <1>2, <1>3, <1>4 DEF AllCommands, Commands

LEMMA CommandsAreWords ==
  /\ NoEntry \notin Commands /\ NoAction \notin Commands
  /\ \A env \in Environments : \A c \in Commands : c \in DOMAIN env.hashfn /\ env.hashfn[c] \in Nat
PROOF
<1>1. Range(AllCommands) = Commands
  BY Distinct DEF Range
<1> QED
  BY <1>1, SomethingElse, EnvironmentsAreEnvironments

LEMMA RegisteredAre ==
  /\ unregistered = AllCommands => Registered = {}
  /\ unregistered = <<STORE, SWITCH>> => Registered = {HELP}
  /\ unregistered = <<SWITCH>> => Registered = {HELP, STORE}
  /\ unregistered = <<>> => Registered = Commands
PROOF
<1>1. \A n \in Nat : Len(AllCommands) - Len(unregistered) = n => Registered = {AllCommands[m] : m \in 1 .. n}
  BY DEF Registered
<1>2. 1 .. 0 = {} /\ 1 .. 1 = {1} /\ 1 .. 2 = {1, 2} /\ 1 .. 3 = {1, 2, 3}
  OBVIOUS
<1>3. AllCommands[1] = HELP /\ AllCommands[2] = STORE /\ AllCommands[3] = SWITCH
  BY Distinct
<1>4. /\ {AllCommands[m] : m \in {1}} = {HELP}
      /\ {AllCommands[m] : m \in {1, 2}} = {HELP, STORE}
      /\ {AllCommands[m] : m \in {1, 2, 3}} = Commands
  BY <1>3, Distinct
<1>5. CASE unregistered = AllCommands
  BY <1>1, <1>2, <1>5, Distinct
<1>6. CASE unregistered = <<STORE, SWITCH>>
  BY <1>1, <1>2, <1>4, <1>6, Distinct
<1>7. CASE unregistered = <<SWITCH>>
  BY <1>1, <1>2, <1>4, <1>7, Distinct
<1>8. CASE unregistered = <<>>
  BY <1>1, <1>2, <1>4, <1>8, Distinct
<1> QED
  BY <1>5, <1>6, <1>7, <1>8, Distinct

(* The steps of the parser are within the parser. *)
LEMMA ParseMoves ==
  ASSUME ParseStep
  PROVE  pc \in {"getopt", "untagged", "check"} /\ pc' \in Parsing
PROOF
<1>1. CASE getopt_end
  BY <1>1 DEF getopt_end, AtNewArg, StopScanning, Parsing
<1>2. CASE getopt_dashdash
  BY <1>2 DEF getopt_dashdash, AtNewArg, StopScanning, Parsing
<1>3. CASE getopt_posix_nonoption
  BY <1>3 DEF getopt_posix_nonoption, AtNewArg, Parsing
<1>4. CASE getopt_nonoption
  BY <1>4 DEF getopt_nonoption, AtNewArg, Parsing
<1>5. CASE getopt_malformed
  BY <1>5 DEF getopt_malformed, AtOption, Parsing
<1>6. CASE getopt_long_option
  BY <1>6 DEF getopt_long_option, AtOption, Parsing
<1>7. CASE getopt_short_option
  BY <1>7 DEF getopt_short_option, AtOption, Parsing
<1>8. CASE untagged_exhausted
  BY <1>8 DEF untagged_exhausted, AtUntagged, Parsing
<1>9. CASE untagged_skip
  BY <1>9 DEF untagged_skip, AtUntagged, Parsing
<1>10. CASE untagged_scan
  BY <1>10 DEF untagged_scan, AtUntagged, Parsing
<1>11. CASE untagged_unmatched
  BY <1>11 DEF untagged_unmatched, AtUntagged, Parsing
<1>12. CASE arg_parse_check
  BY <1>12 DEF arg_parse_check, Parsing
<1> QED
  BY <1>1, <1>2, <1>3, <1>4, <1>5, <1>6, <1>7, <1>8, <1>9, <1>10, <1>11, <1>12 DEF ParseStep

(* Where the program goes once main has found a command. *)
Handlers ==
  \/ handler_help \/ handler_errors
  \/ help_list_commands \/ help_list_next \/ help_unknown_command \/ help_command
  \/ enable_uefi_privileges \/ enable_sleep_privileges \/ send_uefi_command
  \/ execute_lazily \/ enter_sleep_s3

LEMMA HandlersMove ==
  ASSUME Handlers
  PROVE  /\ pc \in {"parsed", "list"} \cup Late
         /\ UNCHANGED <<commands, unregistered>>
PROOF
<1>1. CASE handler_help
  BY <1>1 DEF handler_help, InHandler
<1>2. CASE handler_errors
  BY <1>2 DEF handler_errors, InHandler
<1>3. CASE help_list_commands
  BY <1>3 DEF help_list_commands, InHandler, Handling
<1>4. CASE help_list_next
  BY <1>4 DEF help_list_next, InHandler
<1>5. CASE help_unknown_command
  BY <1>5 DEF help_unknown_command, InHandler, Handling
<1>6. CASE help_command
  BY <1>6 DEF help_command, Handling
<1>7. CASE enable_uefi_privileges
  BY <1>7 DEF enable_uefi_privileges, enable_privileges, InHandler, store_handler, switch_handler, Handling
<1>8. CASE enable_sleep_privileges
  BY <1>8 DEF enable_sleep_privileges, enable_privileges, InHandler, Late
<1>9. CASE send_uefi_command
  BY <1>9 DEF send_uefi_command, InHandler, Late
<1>10. CASE execute_lazily
  BY <1>10 DEF execute_lazily, InHandler, Late
<1>11. CASE enter_sleep_s3
  BY <1>11 DEF enter_sleep_s3, InHandler, Late
<1> QED
  BY <1>1, <1>2, <1>3, <1>4, <1>5, <1>6, <1>7, <1>8, <1>9, <1>10, <1>11 DEF Handlers

LEMMA NextCases ==
  ASSUME [Next]_vars
  PROVE  \/ ParseStep /\ UNCHANGED cliVars
         \/ register_cmd \/ main_dispatch \/ append_text \/ main_cleanup
         \/ Handlers \/ UNCHANGED vars
PROOF
BY DEF Next, Handlers

LEMMA TableInit ==
  ASSUME Init
  PROVE  TableInv
PROOF
<1>1. PICK env \in Environments : commands = arg_hashtable_create(MinCommands, env.hashfn)
  BY DEF Init
<1> DEFINE pindex == CHOOSE p \in DOMAIN Primes :
                       Primes[p] > MinCommands /\ \A q \in 1 .. (p - 1) : Primes[q] <= MinCommands
<1>2. pindex \in DOMAIN Primes /\ Primes[pindex] \in Nat \ {0}
  <2> DEFINE big == {p \in DOMAIN Primes : Primes[p] > MinCommands}
  <2>1. Len(Primes) \in big /\ big \subseteq Nat /\ DOMAIN Primes = 1 .. Len(Primes)
    BY PrimesGrow, FirstTable
  <2>2. PICK p \in big : \A q \in big : p <= q
    BY <2>1, Least
  <2>3. ASSUME NEW q \in 1 .. (p - 1)
        PROVE  Primes[q] <= MinCommands
    <3>1. q \in DOMAIN Primes /\ ~(p <= q)
      BY <2>1, <2>2
    <3>2. ~(Primes[q] > MinCommands)
      BY <2>2, <3>1
    <3> QED
      BY <3>1, <3>2, PrimesGrow, FirstTable
  <2>4. p \in DOMAIN Primes /\ Primes[p] > MinCommands
    BY <2>2
  <2>5. pindex \in DOMAIN Primes
    BY <2>3, <2>4
  <2> QED
    BY <2>5, PrimesGrow
<1> DEFINE size == Primes[pindex]
           t == [i \in 0 .. (size - 1) |-> <<>>]
<1>3. commands = [table |-> t, tablelength |-> size, primeindex |-> pindex, entrycount |-> 0,
                  hashfn |-> env.hashfn]
  BY <1>1 DEF arg_hashtable_create
<1> HIDE DEF pindex
<1>4. Chains(t, size, env.hashfn, {})
  <2>1. ASSUME NEW i \in 0 .. (size - 1)
        PROVE  Chain(t[i], i, size, env.hashfn) /\ DOMAIN t[i] = {}
    <3>1. t[i] = <<>>
      OBVIOUS
    <3>2. Chain(<<>>, i, size, env.hashfn)
      BY EmptySeq DEF Chain
    <3> QED
      BY <3>1, <3>2
  <2>2. DOMAIN t = 0 .. (size - 1)
    OBVIOUS
  <2> HIDE DEF t
  <2> QED
    BY <1>2, <2>1, <2>2 DEF Chains
<1>5. Table(commands, {})
  <2> HIDE DEF t
  <2> QED
    BY <1>2, <1>3, <1>4, CommandsAreWords DEF Table
<1>6. unregistered = AllCommands /\ pc = "register"
  BY DEF Init
<1>7. Registered = {}
  BY <1>6, RegisteredAre
<1> QED
  BY <1>5, <1>6, <1>7 DEF TableInv

LEMMA TableStep ==
  ASSUME TableInv, [Next]_vars
  PROVE  TableInv'
PROOF
<1>1. CASE register_cmd
  <2>1. /\ pc = "register" /\ pc' = "register" /\ unregistered # <<>>
        /\ commands' = arg_cmd_register(commands, Head(unregistered))
        /\ unregistered' = Tail(unregistered)
    BY <1>1 DEF register_cmd
  <2>2. Table(commands, Registered)
    BY <2>1 DEF TableInv
  <2>3. ASSUME NEW k \in Commands, k \notin Registered, Head(unregistered) = k,
               Registered' = Registered \cup {k}, unregistered' \in {<<STORE, SWITCH>>, <<SWITCH>>, <<>>}
        PROVE  TableInv'
    <3>1. Table(arg_cmd_register(commands, k), Registered \cup {k})
      BY <2>2, <2>3, RegisterAdds
    <3>2. Table(commands', Registered')
      BY <2>1, <2>3, <3>1
    <3>3. Table(commands, Registered)'
      BY <3>2 DEF Table, Chains, Chain, index_for
    <3> QED
      BY <2>1, <2>3, <3>3 DEF TableInv
  <2>4. /\ (unregistered = AllCommands => Registered = {})'
        /\ (unregistered = <<STORE, SWITCH>> => Registered = {HELP})'
        /\ (unregistered = <<SWITCH>> => Registered = {HELP, STORE})'
        /\ (unregistered = <<>> => Registered = Commands)'
    BY RegisteredAre, PTL
  <2>5. CASE unregistered = AllCommands
    <3>1. Head(unregistered) = HELP /\ Tail(unregistered) = <<STORE, SWITCH>>
      BY <2>5, Distinct
    <3> QED
      BY <2>1, <2>3, <2>4, <2>5, <3>1, RegisteredAre, Distinct
  <2>6. CASE unregistered = <<STORE, SWITCH>>
    <3>1. Head(unregistered) = STORE /\ Tail(unregistered) = <<SWITCH>>
      BY <2>6
    <3> QED
      BY <2>1, <2>3, <2>4, <2>6, <3>1, RegisteredAre, Distinct
  <2>7. CASE unregistered = <<SWITCH>>
    <3>1. Head(unregistered) = SWITCH /\ Tail(unregistered) = <<>>
      BY <2>7
    <3> QED
      BY <2>1, <2>3, <2>4, <2>7, <3>1, RegisteredAre, Distinct
  <2> QED
    BY <2>1, <2>5, <2>6, <2>7 DEF TableInv
<1>2. ASSUME UNCHANGED <<commands, unregistered>>,
             pc' = pc \/ pc \notin {"register", "exit"} \/ (pc = "register" /\ unregistered = <<>>)
      PROVE  TableInv'
  <2>1. Registered' = Registered
    BY <1>2 DEF Registered
  <2>2. pc' # "exit" => Table(commands, Registered)
    BY <1>2 DEF TableInv
  <2>3. (pc # "exit" => Table(commands, Registered))'
    BY <1>2, <2>1, <2>2
  <2>4. (unregistered \in {AllCommands, <<STORE, SWITCH>>, <<SWITCH>>, <<>>} /\ (pc # "register" => unregistered = <<>>))'
    BY <1>2 DEF TableInv
  <2> QED
    BY <2>3, <2>4 DEF TableInv
<1>3. CASE main_dispatch
  BY <1>2, <1>3 DEF main_dispatch
<1>4. CASE append_text
  BY <1>2, <1>4 DEF append_text, InHandler
<1>5. CASE main_cleanup
  BY <1>5 DEF main_cleanup, TableInv
<1>6. CASE Handlers
  BY <1>2, <1>6, HandlersMove DEF Late
<1>7. CASE ParseStep /\ UNCHANGED cliVars
  BY <1>2, <1>7, ParseMoves DEF cliVars
<1>8. CASE UNCHANGED vars
  BY <1>2, <1>8 DEF vars, cliVars, parseVars
<1> QED
  BY <1>1, <1>3, <1>4, <1>5, <1>6, <1>7, <1>8, NextCases

-------------------------------------------------------------------------------
(* The list of commands. *)

LEMMA FirstStands ==
  ASSUME NEW h, NEW keys, Table(h, keys), NEW from \in Nat
  PROVE  /\ AtEntry(FirstChain(h, from), h)
         /\ \A i \in 0 .. (h.tablelength - 1) : \A n \in DOMAIN h.table[i] :
              Ahead(FirstChain(h, from), i, n) <=> i >= from
PROOF
<1> DEFINE q == FirstChain(h, from)  t == h.table  size == h.tablelength
           some == {i \in from .. (size - 1) : t[i] # <<>>}
<1>1. size \in Nat \ {0} /\ \A i \in 0 .. (size - 1) : t[i] \in Seq(Entry)
  BY DEF Table, Chains, Chain, Entry
<1>2. \A i \in 0 .. (size - 1) : \A n \in DOMAIN t[i] : t[i] # <<>> /\ n >= 1
  <2>1. ASSUME NEW i \in 0 .. (size - 1), NEW n \in DOMAIN t[i]
        PROVE  t[i] # <<>> /\ n >= 1
    <3>1. t[i] \in Seq(Entry)
      BY <1>1
    <3> HIDE DEF t
    <3> QED
      BY <3>1
  <2> QED
    BY <2>1
<1>3. CASE some = {}
  <2>1. q = [index |-> size, pos |-> 0]
    BY <1>3 DEF FirstChain
  <2>2. ASSUME NEW i \in 0 .. (size - 1), NEW n \in DOMAIN t[i], i >= from
        PROVE  FALSE
    <3>1. i \in some
      BY <1>1, <1>2, <2>2
    <3> QED
      BY <1>3, <3>1
  <2> HIDE DEF q, t, size
  <2>3. AtEntry(q, h)
    BY <1>1, <2>1 DEF AtEntry
  <2>4. \A i, n : ~Ahead(q, i, n)
    BY <2>1 DEF Ahead
  <2> QED
    BY <2>2, <2>3, <2>4 DEF q, t, size
<1>4. CASE some # {}
  <2>1. PICK i \in some : \A j \in some : i <= j
    <3>1. some \subseteq Nat
      BY <1>1
    <3> HIDE DEF some
    <3> QED
      BY <1>4, <3>1, Least
  <2>2. i \in from .. (size - 1) /\ t[i] # <<>> /\ \A j \in from .. (i - 1) : t[j] = <<>>
    BY <1>1, <2>1
  <2> DEFINE IsFirst(x) == t[x] # <<>> /\ \A j \in from .. (x - 1) : t[j] = <<>>
             first == CHOOSE x \in from .. (size - 1) : IsFirst(x)
  <2>3. first \in from .. (size - 1) /\ IsFirst(first)
    <3> HIDE DEF IsFirst
    <3>1. \E x \in from .. (size - 1) : IsFirst(x)
      BY <2>2 DEF IsFirst
    <3> QED
      BY <3>1
  <2>4. q = [index |-> first, pos |-> 1]
    BY <1>4 DEF FirstChain
  <2> HIDE DEF first, q
  <2>5. AtEntry(q, h)
    <3>1. first \in 0 .. (size - 1)
      BY <1>1, <2>3
    <3>2. t[first] \in Seq(Entry) /\ t[first] # <<>>
      BY <1>1, <2>3, <3>1
    <3> HIDE DEF t, size
    <3>3. 1 \in DOMAIN t[first] /\ first \in Nat
      BY <3>1, <3>2, EmptySeq
    <3> QED
      BY <2>4, <3>1, <3>3 DEF AtEntry, t, size
  <2>6. ASSUME NEW j \in 0 .. (size - 1), NEW n \in DOMAIN t[j]
        PROVE  Ahead(q, j, n) <=> j >= from
    <3>1. t[j] # <<>> /\ n >= 1
      BY <1>2
    <3>2. j >= from => j >= first
      BY <1>1, <2>3, <3>1
    <3>3. n \in Nat
      BY <1>1
    <3> HIDE DEF t, size
    <3> QED
      BY <1>1, <2>3, <2>4, <3>1, <3>2, <3>3 DEF Ahead
  <2> QED
    BY <2>5, <2>6 DEF q
<1> QED
  BY <1>3, <1>4

(* The iterator comes past one entry at a time. *)
LEMMA AdvancePastOne ==
  ASSUME NEW h, NEW keys, Table(h, keys), NEW p, AtEntry(p, h), p.pos # 0
  PROVE  LET q == arg_hashtable_itr_advance(h, p)
         IN  /\ AtEntry(q, h)
             /\ \A i \in 0 .. (h.tablelength - 1) : \A n \in DOMAIN h.table[i] :
                  Ahead(q, i, n) <=> Ahead(p, i, n) /\ ~(i = p.index /\ n = p.pos)
PROOF
<1> DEFINE q == arg_hashtable_itr_advance(h, p)  t == h.table  size == h.tablelength
<1>1. size \in Nat \ {0} /\ \A i \in 0 .. (size - 1) : t[i] \in Seq(Entry)
  BY DEF Table, Chains, Chain, Entry
<1>2. /\ p \in [index : Nat, pos : Nat] /\ p.index \in Nat /\ p.pos \in Nat \ {0}
      /\ p.index \in 0 .. (size - 1) /\ p.pos \in DOMAIN t[p.index]
  BY DEF AtEntry
<1>3. \A i \in 0 .. (size - 1) : DOMAIN t[i] = 1 .. Len(t[i]) /\ Len(t[i]) \in Nat
  BY <1>1, LenProperties
<1>4. CASE p.pos < Len(t[p.index])
  <2>1. q = [index |-> p.index, pos |-> p.pos + 1]
    BY <1>2, <1>4 DEF arg_hashtable_itr_advance
  <2> HIDE DEF q, t, size
  <2>2. p.pos + 1 \in DOMAIN t[p.index]
    BY <1>2, <1>3, <1>4
  <2>3. AtEntry(q, h)
    BY <1>2, <2>1, <2>2 DEF AtEntry, t, size
  <2>4. ASSUME NEW i \in 0 .. (size - 1), NEW n \in DOMAIN t[i]
        PROVE  Ahead(q, i, n) <=> Ahead(p, i, n) /\ ~(i = p.index /\ n = p.pos)
    <3>1. n \in Nat
      BY <1>3
    <3> QED
      BY <1>1, <1>2, <2>1, <3>1 DEF Ahead
  <2> QED
    BY <2>3, <2>4 DEF q, t, size
<1>5. CASE ~(p.pos < Len(t[p.index]))
  <2>1. q = FirstChain(h, p.index + 1)
    BY <1>5 DEF arg_hashtable_itr_advance
  <2>2. /\ AtEntry(q, h)
        /\ \A i \in 0 .. (size - 1) : \A n \in DOMAIN t[i] : Ahead(q, i, n) <=> i >= p.index + 1
    <3>1. p.index + 1 \in Nat
      BY <1>2
    <3> QED
      BY <2>1, <3>1, FirstStands
  <2> HIDE DEF q, t, size
  <2>3. ASSUME NEW i \in 0 .. (size - 1), NEW n \in DOMAIN t[i]
        PROVE  Ahead(q, i, n) <=> Ahead(p, i, n) /\ ~(i = p.index /\ n = p.pos)
    <3>1. n \in Nat /\ (i = p.index => n <= p.pos)
      BY <1>2, <1>3, <1>5
    <3> QED
      BY <1>1, <1>2, <2>2, <3>1 DEF Ahead
  <2> QED
    BY <2>2, <2>3 DEF q, t, size
<1> QED
  BY <1>4, <1>5

LEMMA ListInit ==
  ASSUME Init
  PROVE  ListInv
PROOF
<1>1. pc = "register" /\ listed = <<>>
  BY DEF Init
<1> QED
  BY <1>1 DEF ListInv

(* The list grows by the command that the iterator stands at. *)
LEMMA ListGrows ==
  ASSUME TableInv, ListInv, help_list_next
  PROVE  ListInv'
PROOF
<1> DEFINE t == commands.table  size == commands.tablelength  e == t[itr.index][itr.pos]
<1>1. /\ pc = "list" /\ listed' = Append(listed, e.v) /\ itr' = arg_hashtable_itr_advance(commands, itr)
      /\ IF itr'.pos = 0 THEN pc' = "cleanup" ELSE pc' = pc
      /\ commands' = commands
  BY DEF help_list_next, arg_cmd_itr_value, arg_hashtable_itr_value, arg_cmd_itr_advance, Return, InHandler
<1>2. Table(commands, Commands)
  BY <1>1, RegisteredAre DEF TableInv
<1>3. /\ listed \in Seq(Commands) /\ AtEntry(itr, commands) /\ itr.pos # 0
      /\ \A j, k \in DOMAIN listed : listed[j] = listed[k] => j = k
      /\ \A i \in 0 .. (size - 1) : \A n \in DOMAIN t[i] : t[i][n].k \in Elements(listed) <=> ~Ahead(itr, i, n)
  BY <1>1 DEF ListInv
<1>4. /\ itr.index \in 0 .. (size - 1) /\ itr.pos \in DOMAIN t[itr.index]
      /\ itr.index \in Nat /\ itr.pos \in Nat
  BY <1>3 DEF AtEntry
<1>5. \A i \in 0 .. (size - 1) : Chain(t[i], i, size, commands.hashfn)
  BY <1>2 DEF Table, Chains
<1>6. e.v = e.k /\ e.k \in Commands
  <2>1. Chain(t[itr.index], itr.index, size, commands.hashfn) /\ t[itr.index] \in Seq(Entry)
    BY <1>4, <1>5 DEF Chain, Entry
  <2>2. e \in Entry
    <3> HIDE DEF t
    <3> QED
      BY <1>4, <2>1
  <2> QED
    BY <1>4, <2>1, <2>2 DEF Chain, Entry
<1>7. ASSUME NEW i \in 0 .. (size - 1), NEW n \in DOMAIN t[i], t[i][n].k = e.k
      PROVE  i = itr.index /\ n = itr.pos
  <2>1. Chain(t[i], i, size, commands.hashfn) /\ Chain(t[itr.index], itr.index, size, commands.hashfn)
    BY <1>4, <1>5
  <2>2. i = itr.index
    <3>1. t[i][n].h = commands.hashfn[e.k] /\ index_for(size, t[i][n].h) = i
      BY <1>7, <2>1 DEF Chain
    <3>2. e.h = commands.hashfn[e.k] /\ index_for(size, e.h) = itr.index
      BY <1>4, <2>1 DEF Chain
    <3> HIDE DEF e, t
    <3> QED
      BY <3>1, <3>2
  <2> QED
    BY <1>4, <1>7, <2>1, <2>2 DEF Chain
<1>8. e.k \notin Elements(listed)
  BY <1>3, <1>4 DEF Ahead
<1>9. Elements(listed') = Elements(listed) \cup {e.k}
  <2>1. /\ Len(listed') = Len(listed) + 1 /\ Len(listed) \in Nat
        /\ listed'[Len(listed) + 1] = e.k /\ \A j \in 1 .. Len(listed) : listed'[j] = listed[j]
    BY <1>1, <1>3, <1>6, AppendProperties
  <2>2. \A j : j \in 1 .. (Len(listed) + 1) <=> j \in 1 .. Len(listed) \/ j = Len(listed) + 1
    BY <2>1
  <2> QED
    BY <2>1, <2>2 DEF Elements
<1>10. listed' \in Seq(Commands) /\ \A j, k \in DOMAIN listed' : listed'[j] = listed'[k] => j = k
  <2>1. listed' \in Seq(Commands)
    BY <1>1, <1>3, <1>6, AppendProperties
  <2> HIDE DEF e
  <2>2. \A j \in 1 .. Len(listed) : listed[j] # e.k
    BY <1>8 DEF Elements
  <2>3. /\ DOMAIN listed' = 1 .. (Len(listed) + 1) /\ DOMAIN listed = 1 .. Len(listed) /\ Len(listed) \in Nat
        /\ listed'[Len(listed) + 1] = e.k /\ \A j \in 1 .. Len(listed) : listed'[j] = listed[j]
    BY <1>1, <1>3, <1>6, AppendProperties, LenProperties
  <2> QED
    BY <1>3, <2>1, <2>2, <2>3
<1>11. /\ AtEntry(itr', commands)
       /\ \A i \in 0 .. (size - 1) : \A n \in DOMAIN t[i] :
            Ahead(itr', i, n) <=> Ahead(itr, i, n) /\ ~(i = itr.index /\ n = itr.pos)
  BY <1>1, <1>2, <1>3, AdvancePastOne
<1>12. ASSUME NEW i \in 0 .. (size - 1), NEW n \in DOMAIN t[i]
       PROVE  t[i][n].k \in Elements(listed') <=> ~Ahead(itr', i, n)
  BY <1>3, <1>7, <1>9, <1>11
<1>13. CASE itr'.pos = 0
  <2>1. \A i, n : ~Ahead(itr', i, n)
    BY <1>13 DEF Ahead
  <2>2. Commands \subseteq Elements(listed')
    <3>1. ASSUME NEW c \in Commands
          PROVE  c \in Elements(listed')
      <4>1. PICK i \in 0 .. (size - 1) : \E n \in DOMAIN t[i] : t[i][n].k = c
        BY <1>2 DEF Table, Chains
      <4> QED
        BY <1>12, <2>1, <4>1
    <3> QED
      BY <3>1
  <2>3. Elements(listed') \subseteq Commands
    BY <1>10 DEF Elements
  <2>4. Elements(listed)' = Commands
    BY <2>2, <2>3 DEF Elements
  <2>5. pc' = "cleanup"
    BY <1>1, <1>13
  <2> QED
    BY <1>10, <2>4, <2>5 DEF ListInv
<1>14. CASE itr'.pos # 0
  <2>1. pc' = "list"
    BY <1>1, <1>14
  <2>2. AtEntry(itr, commands)'
    BY <1>1, <1>11 DEF AtEntry
  <2>3. (\A i \in 0 .. (commands.tablelength - 1) : \A n \in DOMAIN commands.table[i] :
           commands.table[i][n].k \in Elements(listed) <=> ~Ahead(itr, i, n))'
    BY <1>1, <1>12 DEF Elements, Ahead
  <2> QED
    BY <1>10, <1>14, <2>1, <2>2, <2>3 DEF ListInv
<1> QED
  BY <1>13, <1>14

LEMMA ListStep ==
  ASSUME TableInv, ListInv, [Next]_vars
  PROVE  ListInv'
PROOF
<1>1. CASE help_list_next
  BY <1>1, ListGrows
<1>2. CASE help_list_commands
  <2>1. /\ pc = "parsed" /\ pc' = "list" /\ listed' = <<>> /\ commands' = commands
        /\ itr' = FirstChain(commands, 0)
    BY <1>2 DEF help_list_commands, Handling, InHandler, arg_cmd_itr_create, arg_hashtable_itr_create
  <2>2. Table(commands, Commands)
    BY <2>1, RegisteredAre DEF TableInv
  <2>3. /\ AtEntry(itr', commands)
        /\ \A i \in 0 .. (commands.tablelength - 1) : \A n \in DOMAIN commands.table[i] : Ahead(itr', i, n)
    <3>1. 0 \in Nat /\ \A i \in 0 .. (commands.tablelength - 1) : i >= 0
      OBVIOUS
    <3> QED
      BY <2>1, <2>2, <3>1, FirstStands
  <2>4. itr'.pos # 0
    <3>1. HELP \in Commands
      BY Distinct
    <3> PICK i \in 0 .. (commands.tablelength - 1) : \E n \in DOMAIN commands.table[i] : commands.table[i][n].k = HELP
      BY <2>2, <3>1 DEF Table, Chains
    <3> PICK n \in DOMAIN commands.table[i] : commands.table[i][n].k = HELP
      OBVIOUS
    <3>2. Ahead(itr', i, n)
      BY <2>3
    <3> QED
      BY <3>2 DEF Ahead
  <2>5. AtEntry(itr, commands)'
    BY <2>1, <2>3 DEF AtEntry
  <2>6. (\A i \in 0 .. (commands.tablelength - 1) : \A n \in DOMAIN commands.table[i] :
           commands.table[i][n].k \in Elements(listed) <=> ~Ahead(itr, i, n))'
    <3>1. Elements(<<>>) = {}
      BY DEF Elements
    <3> QED
      BY <2>1, <2>3, <3>1 DEF Elements, Ahead
  <2>7. <<>> \in Seq(Commands) /\ DOMAIN <<>> = {}
    BY EmptySeq
  <2> QED
    BY <2>1, <2>4, <2>5, <2>6, <2>7 DEF ListInv
<1>3. ASSUME listed' = listed, pc \notin {"list", "cleanup", "exit"}, pc' # "list"
      PROVE  ListInv'
  <2>1. listed = <<>>
    BY <1>3 DEF ListInv
  <2>2. <<>> \in Seq(Commands) /\ DOMAIN <<>> = {}
    BY EmptySeq
  <2> QED
    BY <1>3, <2>1, <2>2 DEF ListInv
<1>4. ASSUME UNCHANGED <<listed, itr, pc, commands>>
      PROVE  ListInv'
  BY <1>4 DEF ListInv
<1>5. CASE register_cmd
  BY <1>3, <1>5 DEF register_cmd, listing
<1>6. CASE main_dispatch
  <2>1. pc' \in {"cleanup", "getopt"} /\ listed' = listed /\ pc = "register"
    BY <1>6 DEF main_dispatch, Handle, arg_parse, listing
  <2> QED
    BY <1>3, <2>1
<1>7. CASE append_text
  BY <1>4, <1>7 DEF append_text, InHandler, listing
<1>8. CASE main_cleanup
  <2>1. pc = "cleanup" /\ pc' = "exit" /\ listed' = listed
    BY <1>8 DEF main_cleanup, listing
  <2> QED
    BY <2>1 DEF ListInv, Elements
<1>9. CASE ParseStep /\ UNCHANGED cliVars
  <2>1. listed' = listed /\ pc \in {"getopt", "untagged", "check"} /\ pc' \in Parsing
    BY <1>9, ParseMoves DEF cliVars
  <2> QED
    BY <1>3, <2>1 DEF Parsing
<1>10. CASE UNCHANGED vars
  BY <1>4, <1>10 DEF vars, cliVars, parseVars
<1>11. CASE handler_help
  BY <1>3, <1>11 DEF handler_help, listing, Return
<1>12. CASE handler_errors
  BY <1>3, <1>12 DEF handler_errors, listing, Return
<1>13. CASE help_unknown_command
  BY <1>3, <1>13 DEF help_unknown_command, Handling, listing, Return
<1>14. CASE help_command
  BY <1>3, <1>14 DEF help_command, Handling, Handle, arg_parse, listing
<1>15. CASE enable_uefi_privileges
  BY <1>3, <1>15 DEF enable_uefi_privileges, enable_privileges, store_handler, switch_handler, Handling,
                     listing, Return
<1>16. CASE enable_sleep_privileges
  BY <1>3, <1>16 DEF enable_sleep_privileges, enable_privileges, listing, Return
<1>17. CASE send_uefi_command
  BY <1>3, <1>17 DEF send_uefi_command, set_uefi_variable, listing, Return
<1>18. CASE execute_lazily
  BY <1>3, <1>18 DEF execute_lazily, listing, Return
<1>19. CASE enter_sleep_s3
  BY <1>3, <1>19 DEF enter_sleep_s3, listing, Return
<1> QED
  BY <1>1, <1>2, <1>5, <1>6, <1>7, <1>8, <1>9, <1>10, <1>11, <1>12, <1>13, <1>14, <1>15, <1>16, <1>17, <1>18,
     <1>19, NextCases DEF Handlers

(* A list of all commands without repetition is as long as there are.      *)
LEMMA ListIsWhole ==
  ASSUME NEW s \in Seq(Commands), Elements(s) = Commands,
         \A j, k \in DOMAIN s : s[j] = s[k] => j = k
  PROVE  Len(s) = 3
PROOF
<1>1. DOMAIN s = 1 .. Len(s) /\ Len(s) \in Nat
  OBVIOUS
<1> PICK a \in 1 .. Len(s) : s[a] = HELP
  BY Distinct DEF Elements
<1> PICK b \in 1 .. Len(s) : s[b] = STORE
  BY Distinct DEF Elements
<1> PICK c \in 1 .. Len(s) : s[c] = SWITCH
  BY Distinct DEF Elements
<1>2. s[a] = HELP /\ s[b] = STORE /\ s[c] = SWITCH
  OBVIOUS
<1>3. \A j \in 1 .. Len(s) : j = a \/ j = b \/ j = c
  <2>1. \A j \in 1 .. Len(s) : s[j] = HELP \/ s[j] = STORE \/ s[j] = SWITCH
    BY Distinct
  <2> QED
    BY <1>1, <1>2, <2>1
<1>4. a # b /\ a # c /\ b # c
  BY <1>2, Distinct
<1>5. Len(s) >= 3
  BY <1>1, <1>2, <1>4
<1>6. ~(Len(s) >= 4)
  <2>1. Len(s) >= 4 => 1 \in 1 .. Len(s) /\ 2 \in 1 .. Len(s) /\ 3 \in 1 .. Len(s) /\ 4 \in 1 .. Len(s)
    BY <1>1
  <2> QED
    BY <1>3, <2>1
<1> QED
  BY <1>1, <1>5, <1>6

(* Each registered command is found in the table for every hash function,  *)
(* and help lists each of them once (help.c:22, argtable3.c:608, 782).     *)
THEOREM EachCommandIsListed == Spec => []CommandsAreListed
PROOF
<1>1. Init => TableInv /\ ListInv
  BY TableInit, ListInit
<1>2. TableInv /\ ListInv /\ [Next]_vars => (TableInv /\ ListInv)'
  BY TableStep, ListStep
<1>3. TableInv /\ ListInv => CommandsAreListed
  <2> SUFFICES ASSUME TableInv, ListInv
               PROVE  CommandsAreListed
    OBVIOUS
  <2>1. ASSUME pc # "exit", NEW i \in 1 .. (Len(AllCommands) - Len(unregistered))
        PROVE  arg_cmd_info(AllCommands[i]) = AllCommands[i]
    <3>1. Table(commands, Registered) /\ AllCommands[i] \in Registered
      BY <2>1 DEF TableInv, Registered
    <3>2. AllCommands[i] \in Commands
      BY <3>1 DEF Table, Chains
    <3>3. commands.hashfn[AllCommands[i]] \in Nat
      BY <3>1, <3>2 DEF Table
    <3> QED
      BY <3>1, <3>3, SearchFinds DEF arg_cmd_info
  <2>2. ASSUME pc \in {"cleanup", "exit"}, listed # <<>>
        PROVE  Len(listed) = Len(AllCommands) /\ Range(listed) = Range(AllCommands)
    <3>1. listed \in Seq(Commands) /\ Elements(listed) = Commands
      BY <2>2 DEF ListInv
    <3>2. Len(listed) = 3
      BY <3>1, ListIsWhole DEF ListInv
    <3>3. Range(listed) = Commands
      BY <3>1 DEF Range, Elements
    <3>4. Range(AllCommands) = Commands
      BY Distinct DEF Range
    <3> QED
      BY <3>2, <3>3, <3>4, Distinct
  <2> QED
    BY <2>1, <2>2 DEF CommandsAreListed
<1> QED
  BY <1>1, <1>2, <1>3, PTL DEF Spec

-------------------------------------------------------------------------------
(* The shape of what the parser works on. *)

Option == [kind : {"lit", "str"}, shortopts : {NoOption, "h"}, longopts : {<<>>, HELP, LAZY},
           datatype : Nat, glossary : Nat, mincount : Nat, maxcount : Nat]

LEMMA ArgTableIs ==
  ASSUME width \in Nat, NEW c
  PROVE  /\ argtable(c) \in Seq(Option)
         /\ Len(argtable(c)) = IF c = HELP THEN 3 ELSE 4
         /\ argtable(c)[1] = arg_strn(1, 1, 1) /\ argtable(c)[2] = arg_strn(2, 0, 1)
         /\ argtable(c)[3] = arg_litn("h", HELP, 0, 1, width)
         /\ c # HELP => argtable(c)[4] = arg_litn(NoOption, LAZY, 0, 1, width)
PROOF
<1> DEFINE a == arg_strn(1, 1, 1)  b == arg_strn(2, 0, 1)  h == arg_litn("h", HELP, 0, 1, width)
           l == arg_litn(NoOption, LAZY, 0, 1, width)
<1>1. a \in Option /\ b \in Option
  BY DEF Option, arg_strn
<1>2. h \in Option /\ l \in Option
  BY DEF Option, arg_litn
<1> HIDE DEF a, b, h, l
<1>3. <<a, b, h>> \in Seq(Option) /\ <<l>> \in Seq(Option)
  BY <1>1, <1>2
<1>4. argtable(c) = <<a, b, h>> \o IF c = HELP THEN <<>> ELSE <<l>>
  BY DEF argtable, a, b, h, l
<1>5. CASE c = HELP
  <2>1. argtable(c) = <<a, b, h>>
    BY <1>3, <1>4, <1>5, ConcatEmptySeq
  <2> QED
    BY <1>3, <1>5, <2>1 DEF a, b, h
<1>6. CASE c # HELP
  <2> DEFINE s == <<a, b, h>>  t == <<l>>
  <2>1. argtable(c) = s \o t
    BY <1>4, <1>6
  <2>2. Len(s) = 3 /\ s[1] = a /\ s[2] = b /\ s[3] = h /\ Len(t) = 1 /\ t[1] = l
    OBVIOUS
  <2>3. s \in Seq(Option) /\ t \in Seq(Option)
    BY <1>3
  <2> HIDE DEF s, t
  <2>4. /\ argtable(c) \in Seq(Option) /\ Len(argtable(c)) = 4
        /\ argtable(c)[1] = a /\ argtable(c)[2] = b /\ argtable(c)[3] = h /\ argtable(c)[4] = l
    <3>1. /\ s \o t \in Seq(Option) /\ Len(s \o t) = Len(s) + Len(t)
          /\ \A i \in 1 .. (Len(s) + Len(t)) : (s \o t)[i] = IF i <= Len(s) THEN s[i] ELSE t[i - Len(s)]
      BY <2>3, ConcatProperties
    <3> HIDE DEF a, b, h, l
    <3> QED
      BY <2>1, <2>2, <3>1
  <2> QED
    BY <1>6, <2>4 DEF a, b, h, l
<1> QED
  BY <1>5, <1>6

(* The table of the parser, entry by entry. *)
LEMMA TableIs ==
  ASSUME ProgramInv, ParseTypes, pc \in Parsing
  PROVE  /\ cmd \in Commands /\ table \in Seq(Option)
         /\ Len(table) = (IF cmd = HELP THEN 3 ELSE 4) /\ DOMAIN table = 1 .. Len(table) /\ Len(table) \in 3 .. 4
         /\ table[1] = arg_strn(1, 1, 1) /\ table[2] = arg_strn(2, 0, 1)
         /\ table[3] = arg_litn("h", HELP, 0, 1, width)
         /\ 4 \in DOMAIN table => cmd # HELP /\ table[4] = arg_litn(NoOption, LAZY, 0, 1, width)
PROOF
<1>1. cmd \in Commands /\ table = argtable(cmd) /\ width \in Nat
  BY DEF ProgramInv, Dispatched, ParseTypes
<1>2. /\ table \in Seq(Option) /\ Len(table) = (IF cmd = HELP THEN 3 ELSE 4)
      /\ table[1] = arg_strn(1, 1, 1) /\ table[2] = arg_strn(2, 0, 1)
      /\ table[3] = arg_litn("h", HELP, 0, 1, width)
      /\ cmd # HELP => table[4] = arg_litn(NoOption, LAZY, 0, 1, width)
  BY <1>1, ArgTableIs
<1>3. DOMAIN table = 1 .. Len(table)
  BY <1>2, LenProperties
<1> QED
  BY <1>1, <1>2, <1>3

(* The options of the table: long names, and one letter. *)
LEMMA NamesAre ==
  ASSUME ProgramInv, ParseTypes, pc \in Parsing
  PROVE  /\ DOMAIN alloc_longoptions(table) = (IF cmd = HELP THEN {3} ELSE {3, 4})
         /\ alloc_longoptions(table)[3] = HELP
         /\ cmd # HELP => alloc_longoptions(table)[4] = LAZY
         /\ alloc_shortoptions(table) = {"h"}
         /\ find_shortoption(table, "h") = 3
PROOF
<1>1. table[1].longopts = <<>> /\ table[1].shortopts = "none"
  BY TableIs DEF arg_strn, NoOption
<1>2. table[2].longopts = <<>> /\ table[2].shortopts = "none"
  BY TableIs DEF arg_strn, NoOption
<1>3. table[3].longopts = HELP /\ table[3].shortopts = "h"
  BY TableIs DEF arg_litn
<1>4. cmd # HELP => table[4].longopts = LAZY /\ table[4].shortopts = "none"
  BY TableIs DEF arg_litn, NoOption
<1>5. DOMAIN table = IF cmd = HELP THEN {1, 2, 3} ELSE {1, 2, 3, 4}
  <2>1. 1 .. 3 = {1, 2, 3} /\ 1 .. 4 = {1, 2, 3, 4}
    OBVIOUS
  <2> QED
    BY <2>1, TableIs
<1>6. HELP # <<>> /\ LAZY # <<>>
  BY DEF HELP, LAZY
<1>7. {j \in DOMAIN table : table[j].longopts # <<>>} = IF cmd = HELP THEN {3} ELSE {3, 4}
  BY <1>1, <1>2, <1>3, <1>4, <1>5, <1>6
<1>8. {table[i].shortopts : i \in DOMAIN table} \ {NoOption} = {"h"}
  BY <1>1, <1>2, <1>3, <1>4, <1>5 DEF NoOption
<1>9. \A i \in DOMAIN table : table[i].shortopts = "h" <=> i = 3
  BY <1>1, <1>2, <1>3, <1>4, <1>5
<1>10. find_shortoption(table, "h") = 3
  <2>1. 3 \in DOMAIN table
    BY <1>5
  <2> QED
    BY <1>9, <2>1 DEF find_shortoption
<1> QED
  BY <1>3, <1>4, <1>7, <1>8, <1>10 DEF alloc_longoptions, alloc_shortoptions

LEMMA GivenAreWords ==
  ASSUME ProgramInv
  PROVE  Given \subseteq Word /\ Commands \subseteq Given
PROOF
<1>1. args \in Seq(Word)
  BY LinesAreLines DEF ProgramInv, Word
<1>2. \A i \in DOMAIN args : args[i] \in Word
  BY <1>1, LenProperties, ElementOfSeq
<1>3. DashDash \o HELP \in Word
  <2>1. DashDash \in Word
    BY PiecesOfWords DEF DashDash, Word
  <2>2. HELP \in Word
    BY Distinct
  <2> QED
    BY <2>1, <2>2, ConcatProperties DEF Word
<1>4. Commands \subseteq Word
  BY Distinct
<1> QED
  BY <1>2, <1>3, <1>4 DEF Given

(* One error more, or the last of them that there is room for. *)
LEMMA RegisterKeepsErrors ==
  ASSUME errors \in Seq(Err), NEW error \in Err
  PROVE  /\ arg_register_error(error) \in Seq(Err)
         /\ Len(arg_register_error(error)) =
              IF Len(errors) < MaxErrors THEN Len(errors) + 1 ELSE Len(errors)
PROOF
<1>1. CASE Len(errors) < MaxErrors
  BY <1>1, AppendProperties DEF arg_register_error
<1>2. CASE ~(Len(errors) < MaxErrors)
  <2>1. Error("ELIMIT", 0) \in Err
    BY DEF Error, Err, Kind
  <2>2. MaxErrors \in 1 .. Len(errors)
    BY <1>2, RoomForErrors
  <2> QED
    BY <1>2, <2>1, <2>2, ExceptSeq DEF arg_register_error
<1> QED
  BY <1>1, <1>2

LEMMA ErrorIsErr ==
  ASSUME NEW kind \in Kind, NEW i \in {0} \cup DOMAIN table
  PROVE  Error(kind, i) \in Err
PROOF
BY DEF Error, Err

LEMMA ScanKeepsTypes ==
  ASSUME ProgramInv, ParseTypes, pc \in Parsing, NEW i \in DOMAIN table, NEW value \in Word,
         i = CMD_NAME => value \in Given, ScanOrError(i, value)
  PROVE  /\ found' \in [DOMAIN table -> Seq(Word)] /\ found'[CMD_NAME] \in Seq(Given)
         /\ errors' \in Seq(Err)
PROOF
<1>1. i \in {0} \cup DOMAIN table /\ CMD_NAME \in DOMAIN table
  BY TableIs DEF CMD_NAME
<1>2. /\ found \in [DOMAIN table -> Seq(Word)] /\ found[CMD_NAME] \in Seq(Given) /\ errors \in Seq(Err)
  BY DEF ParseTypes
<1>3. CASE HasRoom(i) /\ Scan(i, value) /\ UNCHANGED errors
  <2>1. found' = [found EXCEPT ![i] = Append(found[i], value)] /\ errors' = errors
    BY <1>3 DEF Scan
  <2>2. Append(found[i], value) \in Seq(Word)
    BY <1>2, AppendProperties
  <2>3. i = CMD_NAME => Append(found[i], value) \in Seq(Given)
    BY <1>2, AppendProperties
  <2> QED
    BY <1>1, <1>2, <2>1, <2>2, <2>3
<1>4. CASE ~HasRoom(i) /\ errors' = arg_register_error(Error("MAXCOUNT", i)) /\ UNCHANGED found
  <2>1. Error("MAXCOUNT", i) \in Err
    BY <1>1, ErrorIsErr DEF Kind
  <2> QED
    BY <1>2, <1>4, <2>1, RegisterKeepsErrors
<1> QED
  BY <1>3, <1>4 DEF ScanOrError

(* What permute_args is made of: where an argument goes, the places of a    *)
(* cycle, and where the argument at a place comes from, if from anywhere.  *)
Onward(start, end, to, pos) == IF pos >= end THEN pos - (end - start) ELSE pos + (to - end)
Cycles(start, end, to) == gcd(end - start, to - end)
CycleLen(start, end, to) == (to - start) \div Cycles(start, end, to)
Places(start, end, to, i) ==
  LET pos[j \in 0 .. CycleLen(start, end, to)] ==
        IF j = 0 THEN CycleStart(end, i) ELSE Onward(start, end, to, pos[j - 1])
  IN  pos
From(start, end, to, k) ==
  {p \in start .. (to - 1) :
     /\ Onward(start, end, to, p) = k
     /\ \E i \in 0 .. (Cycles(start, end, to) - 1) :
          \E j \in 1 .. CycleLen(start, end, to) : Places(start, end, to, i)[j - 1] = p}

LEMMA Permuted ==
  ASSUME NEW v, NEW start, NEW end, NEW to
  PROVE  permute_args(v, start, end, to) =
           [k \in DOMAIN v |-> IF From(start, end, to, k) = {} THEN v[k]
                               ELSE v[CHOOSE p \in From(start, end, to, k) : TRUE]]
PROOF
BY DEF permute_args, From, Places, CycleLen, Cycles, Onward

(* Arguments change places only with each other. *)
LEMMA PermuteKeepsTypes ==
  ASSUME NEW S, NEW v \in Seq(S), NEW start \in Nat \ {0}, NEW end \in Nat, NEW to \in Nat, to <= Len(v) + 1
  PROVE  permute_args(v, start, end, to) \in Seq(S) /\ Len(permute_args(v, start, end, to)) = Len(v)
PROOF
<1> DEFINE from(k) == From(start, end, to, k)
           chosen(k) == CHOOSE p \in from(k) : TRUE
           w == [k \in DOMAIN v |-> IF from(k) = {} THEN v[k] ELSE v[chosen(k)]]
<1>1. permute_args(v, start, end, to) = w
  BY Permuted
<1>2. DOMAIN v = 1 .. Len(v) /\ Len(v) \in Nat
  BY LenProperties
<1>3. \A k : from(k) \subseteq 1 .. Len(v)
  BY <1>2 DEF From
<1> HIDE DEF from
<1>4. \A k : from(k) # {} => chosen(k) \in 1 .. Len(v)
  BY <1>3
<1> HIDE DEF chosen
<1>5. w = [k \in 1 .. Len(v) |-> w[k]]
  BY <1>2
<1>6. \A k \in 1 .. Len(v) : w[k] \in S
  BY <1>2, <1>4, ElementOfSeq
<1> HIDE DEF w
<1>7. w \in Seq(S) /\ Len(w) = Len(v)
  BY <1>2, <1>5, <1>6, IsASeq
<1> QED
  BY <1>1, <1>7

-------------------------------------------------------------------------------
(* What main and the handlers do. *)

LEMMA ProgramInit ==
  ASSUME Init
  PROVE  ProgramInv /\ TypeInv
PROOF
<1>1. PICK env \in Environments : posixly_correct = env.posix /\ width = env.width
                                   /\ commands = arg_hashtable_create(MinCommands, env.hashfn)
  BY DEF Init
<1>2. args \in CommandLines /\ pc = "register" /\ cmd = <<>>
  BY DEF Init
<1>3. commands.hashfn = env.hashfn
  BY <1>1 DEF arg_hashtable_create
<1>4. \A word \in Given : word \in DOMAIN env.hashfn
  <2>1. \A i \in DOMAIN args : args[i] \in DOMAIN env.hashfn
    BY <1>2, LinesAreLines DEF Range
  <2>2. \A c \in Commands : c \in DOMAIN env.hashfn
    BY CommandsAreWords
  <2>3. DashDash \o HELP \in DOMAIN env.hashfn
    BY EnvironmentsAreEnvironments
  <2> QED
    BY <2>1, <2>2, <2>3 DEF Given
<1>5. \A word \in Given : commands.hashfn[word] \in Nat
  BY <1>3, <1>4, EnvironmentsAreEnvironments
<1>6. width \in Nat /\ posixly_correct \in BOOLEAN
  BY <1>1, EnvironmentsAreEnvironments
<1> QED
  BY <1>2, <1>5, <1>6 DEF ProgramInv, TypeInv, Steps, Parsing, Late

LEMMA DispatchedStays ==
  ASSUME Dispatched, UNCHANGED <<cmd, cmd_argv, args>>
  PROVE  Dispatched'
PROOF
BY DEF Dispatched

(* The next command to register is not registered yet. *)
LEMMA NextToRegister ==
  ASSUME TableInv, unregistered # <<>>
  PROVE  Head(unregistered) \in Commands /\ Head(unregistered) \notin Registered
PROOF
<1>1. CASE unregistered = AllCommands
  BY <1>1, RegisteredAre, Distinct
<1>2. CASE unregistered = <<STORE, SWITCH>>
  <2>1. Head(unregistered) = STORE
    BY <1>2
  <2> QED
    BY <1>2, <2>1, RegisteredAre, Distinct
<1>3. CASE unregistered = <<SWITCH>>
  <2>1. Head(unregistered) = SWITCH
    BY <1>3
  <2> QED
    BY <1>3, <2>1, RegisteredAre, Distinct
<1> QED
  BY <1>1, <1>2, <1>3 DEF TableInv

(* What the program finds under a word that it was given.                  *)
LEMMA InfoFinds ==
  ASSUME TableInv, ProgramInv, pc # "exit", unregistered = <<>>, NEW word \in Given
  PROVE  arg_cmd_info(word) = IF word \in Commands THEN word ELSE NoEntry
PROOF
<1>1. Table(commands, Commands)
  BY RegisteredAre DEF TableInv
<1>2. commands.hashfn[word] \in Nat
  BY DEF ProgramInv
<1> QED
  BY <1>1, <1>2, SearchFinds DEF arg_cmd_info

LEMMA ProgramStep ==
  ASSUME TableInv, ProgramInv, TypeInv, [Next]_vars
  PROVE  ProgramInv'
PROOF
<1>1. /\ UNCHANGED <<args, width, posixly_correct>>
      /\ commands' = commands \/ pc' = "exit" \/ register_cmd
  <2>1. CASE register_cmd
    BY <2>1 DEF register_cmd, parsing, surroundings
  <2>2. CASE main_dispatch
    BY <2>2 DEF main_dispatch, parsing, surroundings, Handle, arg_parse
  <2>3. CASE append_text
    BY <2>3 DEF append_text, InHandler, parsing, surroundings
  <2>4. CASE main_cleanup
    BY <2>4 DEF main_cleanup, parsing, surroundings
  <2>5. CASE ParseStep /\ UNCHANGED cliVars
    <3>1. UNCHANGED <<args, width, commands>>
      BY <2>5 DEF cliVars
    <3>2. posixly_correct' = posixly_correct
      BY <2>5 DEF ParseStep, getopt_end, getopt_dashdash, getopt_posix_nonoption, getopt_nonoption,
                  getopt_malformed, getopt_long_option, getopt_short_option, AtOption, StopScanning,
                  untagged_exhausted, untagged_skip, untagged_scan, untagged_unmatched, AtUntagged,
                  arg_parse_check, given
    <3> QED
      BY <3>1, <3>2
  <2>6. CASE UNCHANGED vars
    BY <2>6 DEF vars, cliVars, parseVars
  <2>7. CASE help_command
    BY <2>7 DEF help_command, Handle, arg_parse, surroundings
  <2>8. CASE Handlers /\ ~help_command
    <3>1. InHandler
      BY <2>8 DEF Handlers, handler_help, handler_errors, help_list_commands, help_list_next,
                  help_unknown_command, enable_uefi_privileges, enable_sleep_privileges, enable_privileges,
                  send_uefi_command, execute_lazily, enter_sleep_s3
    <3> QED
      BY <3>1 DEF InHandler, parsing, surroundings
  <2> QED
    BY <2>1, <2>2, <2>3, <2>4, <2>5, <2>6, <2>7, <2>8, NextCases
<1>2. Given' = Given
  BY <1>1 DEF Given
<1>3. commands'.hashfn = commands.hashfn \/ pc' = "exit"
  <2>1. CASE register_cmd
    <3>1. /\ pc = "register" /\ commands' = arg_cmd_register(commands, Head(unregistered)) /\ unregistered # <<>>
      BY <2>1 DEF register_cmd
    <3> QED
      BY <3>1, NextToRegister, RegisterAdds DEF TableInv
  <2> QED
    BY <1>1, <2>1
<1>4. pc = "exit" => pc' = "exit"
  <2>1. ASSUME pc = "exit"
        PROVE  pc' = "exit"
    <3>1. CASE append_text
      BY <2>1, <3>1 DEF append_text
    <3>2. CASE UNCHANGED vars
      BY <2>1, <3>2 DEF vars, parseVars
    <3> QED
      BY <2>1, <3>1, <3>2, NextCases, ParseMoves, HandlersMove DEF register_cmd, main_dispatch, main_cleanup, Late
  <2> QED
    BY <2>1
<1>5. (pc # "exit" => \A word \in Given : commands.hashfn[word] \in Nat)'
  BY <1>2, <1>3, <1>4 DEF ProgramInv
<1>6. (args \in CommandLines /\ width \in Nat /\ posixly_correct \in BOOLEAN)'
  BY <1>1 DEF ProgramInv
<1> DEFINE Going == (cmd = <<>> \/ Dispatched) /\ (pc \in {"list"} \cup Parsing \cup Late => Dispatched)
                    /\ pc \in Steps /\ (pc = "register" => cmd = <<>>)
<1>7. ASSUME UNCHANGED <<cmd, cmd_argv>>, pc' \in Steps,
             pc' = "register" => pc = "register",
             pc' \in {"list"} \cup Parsing \cup Late => pc \in {"list"} \cup Parsing \cup Late
      PROVE  Going'
  <2>1. Dispatched => Dispatched'
    BY <1>1, <1>7, DispatchedStays
  <2> QED
    BY <1>7, <2>1 DEF ProgramInv
<1>8. ASSUME Dispatched', pc' = "getopt"
      PROVE  Going'
  BY <1>8 DEF Steps, Parsing
<1>9. Going'
  <2>1. CASE register_cmd
    BY <1>7, <2>1 DEF register_cmd, ProgramInv
  <2>2. CASE main_dispatch
    <3>1. CASE args = <<>> \/ (args # <<>> /\ arg_cmd_info(args[1]) = NoEntry)
      <4>1. UNCHANGED <<cmd, cmd_argv>> /\ pc' = "cleanup"
        BY <2>2, <3>1 DEF main_dispatch
      <4> QED
        BY <1>7, <4>1 DEF Steps, Parsing, Late
    <3>2. CASE ~(args = <<>> \/ (args # <<>> /\ arg_cmd_info(args[1]) = NoEntry))
      <4>1. cmd' = args[1] /\ cmd_argv' = args /\ pc' = "getopt" /\ unregistered = <<>> /\ pc = "register"
        BY <2>2, <3>2 DEF main_dispatch, Handle, arg_parse
      <4>2. args[1] \in Given
        <5>1. args \in Seq(Word)
          BY LinesAreLines DEF ProgramInv, Word
        <5>2. 1 \in DOMAIN args
          BY <3>2, <5>1, EmptySeq
        <5> QED
          BY <5>2 DEF Given
      <4>3. args[1] \in Commands
        BY <3>2, <4>1, <4>2, InfoFinds
      <4>4. Dispatched'
        BY <1>1, <3>2, <4>1, <4>3 DEF Dispatched
      <4> QED
        BY <1>8, <4>1, <4>4
    <3> QED
      BY <3>1, <3>2
  <2>3. CASE append_text
    BY <1>7, <2>3 DEF append_text, InHandler, ProgramInv
  <2>4. CASE main_cleanup
    BY <1>7, <2>4 DEF main_cleanup, Steps, Parsing, Late
  <2>5. CASE ParseStep /\ UNCHANGED cliVars
    <3>1. UNCHANGED <<cmd, cmd_argv>>
      BY <2>5 DEF cliVars
    <3>2. pc \in Parsing /\ pc' \in Parsing /\ pc' \in Steps /\ pc' # "register"
      BY <2>5, ParseMoves DEF Steps, Parsing
    <3> QED
      BY <1>7, <3>1, <3>2
  <2>6. CASE UNCHANGED vars
    BY <1>7, <2>6 DEF vars, cliVars, parseVars, ProgramInv
  <2>7. CASE help_command
    <3> DEFINE word == found[CMD_NAME][1]  name == arg_cmd_info(word)
    <3>1. /\ pc = "parsed" /\ cmd = HELP /\ found[CMD_NAME] # <<>> /\ name # NoEntry
          /\ cmd' = name /\ cmd_argv' = <<name, DashDash \o HELP>> /\ pc' = "getopt"
      BY <2>7 DEF help_command, Handling, Handle, arg_parse
    <3>2. ParseTypes /\ Dispatched
      BY <3>1 DEF TypeInv, ProgramInv, Parsing
    <3>3. word \in Given
      <4>1. found[CMD_NAME] \in Seq(Given)
        BY <3>2 DEF ParseTypes
      <4>2. 1 \in 1 .. Len(found[CMD_NAME])
        BY <3>1, <4>1, EmptySeq
      <4> QED
        BY <4>1, <4>2, ElementOfSeq
    <3>4. name \in Commands
      <4>1. pc # "exit" /\ unregistered = <<>>
        BY <3>1 DEF TableInv
      <4> HIDE DEF word
      <4> QED
        BY <3>1, <3>3, <4>1, InfoFinds
    <3> HIDE DEF name
    <3>5. Dispatched'
      BY <1>1, <3>1, <3>2, <3>4 DEF Dispatched
    <3> QED
      BY <1>8, <3>1, <3>5
  <2>8. CASE Handlers /\ ~help_command
    <3>1. UNCHANGED <<cmd, cmd_argv>>
      BY <2>8 DEF Handlers, handler_help, handler_errors, help_list_commands, help_list_next,
                  help_unknown_command, enable_uefi_privileges, enable_sleep_privileges, enable_privileges,
                  send_uefi_command, execute_lazily, enter_sleep_s3, InHandler
    <3>2. pc \in {"list"} \cup Parsing \cup Late
      BY <2>8, HandlersMove DEF Parsing
    <3>3. pc' \in {"list", "cleanup"} \cup Late
      <4>1. CASE handler_help
        BY <4>1 DEF handler_help, Return
      <4>2. CASE handler_errors
        BY <4>2 DEF handler_errors, Return
      <4>3. CASE help_list_commands
        BY <4>3 DEF help_list_commands
      <4>4. CASE help_list_next
        BY <4>4 DEF help_list_next, Return
      <4>5. CASE help_unknown_command
        BY <4>5 DEF help_unknown_command, Return
      <4>6. CASE enable_uefi_privileges
        BY <4>6 DEF enable_uefi_privileges, enable_privileges, Return, Late
      <4>7. CASE enable_sleep_privileges
        BY <4>7 DEF enable_sleep_privileges, enable_privileges, Return, Late
      <4>8. CASE send_uefi_command
        BY <4>8 DEF send_uefi_command, set_uefi_variable, Return, Late
      <4>9. CASE execute_lazily
        BY <4>9 DEF execute_lazily, Return
      <4>10. CASE enter_sleep_s3
        BY <4>10 DEF enter_sleep_s3, Return
      <4> QED
        BY <2>8, <4>1, <4>2, <4>3, <4>4, <4>5, <4>6, <4>7, <4>8, <4>9, <4>10 DEF Handlers
    <3>4. pc' \in Steps /\ pc' # "register"
      BY <3>3 DEF Steps, Late
    <3> QED
      BY <1>7, <3>1, <3>2, <3>4
  <2> QED
    BY <2>1, <2>2, <2>3, <2>4, <2>5, <2>6, <2>7, <2>8, NextCases
<1> QED
  BY <1>5, <1>6, <1>9 DEF ProgramInv

-------------------------------------------------------------------------------
(* The parser keeps its types, and moves only arguments that are there. *)

(* The parser's types, without what the program keeps.                     *)
ScanTypes ==
  /\ argv \in Seq(Given) /\ Len(argv) = Len(cmd_argv)
  /\ optind \in Nat \ {0} /\ place \in Word /\ nonopt_start \in Nat /\ nonopt_end \in Nat
FoundTypes ==
  /\ found \in [DOMAIN table -> Seq(Word)] /\ found[CMD_NAME] \in Seq(Given) /\ errors \in Seq(Err)
TabTypes == tabindex \in Nat \ {0} /\ errorlast \in Err

(* A parse begins with a command and arguments it was given. *)
LEMMA TypesBegin ==
  ASSUME ProgramInv, NEW name, NEW arguments, arg_parse(arguments, argtable(name)),
         cmd' = name, cmd_argv' = arguments, name \in Commands, UNCHANGED width, Given' = Given,
         arguments \in Seq(Given), arguments # <<>>, arguments[1] = name
  PROVE  TypeInv'
PROOF
<1>1. /\ pc' = "getopt" /\ table' = argtable(name) /\ argv' = arguments
      /\ optind' = 1 /\ place' = <<>> /\ nonopt_start' = 0 /\ nonopt_end' = 0
      /\ found' = [i \in DOMAIN argtable(name) |-> <<>>] /\ errors' = <<>>
      /\ tabindex' = 1 /\ errorlast' = NoError
  BY DEF arg_parse, None, arg_end
<1>2. width \in Nat
  BY DEF ProgramInv
<1>3. CMD_NAME \in DOMAIN argtable(name)
  BY <1>2, ArgTableIs, LenProperties DEF CMD_NAME
<1>4. argtable(cmd)' = argtable(name)
  BY DEF argtable
<1>5. found' \in [DOMAIN table' -> Seq(Word)] /\ found'[CMD_NAME] = <<>>
  BY <1>1, <1>3
<1>6. NoError \in Err'
  BY DEF NoError, Err, Kind
<1>7. ParseTypes'
  <2>1. <<>> \in Seq(Given') /\ <<>> \in Seq(Err') /\ <<>> \in Word
    BY EmptySeq DEF Word
  <2>2. (cmd_argv \in Seq(Given) /\ argv \in Seq(Given))'
    BY <1>1
  <2> QED
    <3>1. ScanTypes'
      BY <1>1, <2>1, <2>2 DEF ScanTypes
    <3>2. FoundTypes'
      <4>1. found'[CMD_NAME] \in Seq(Given') /\ errors' \in Seq(Err')
        BY <1>1, <1>5, <2>1
      <4> QED
        BY <1>5, <4>1 DEF FoundTypes
    <3>3. TabTypes'
      BY <1>1, <1>6 DEF TabTypes
    <3>4. (table = argtable(cmd) /\ cmd_argv \in Seq(Given) /\ cmd_argv # <<>> /\ cmd_argv[1] = cmd)'
      BY <1>1, <1>4, <2>2
    <3> QED
      BY <3>1, <3>2, <3>3, <3>4 DEF ParseTypes, ScanTypes, FoundTypes, TabTypes
<1>8. Len(arguments) \in Nat
  OBVIOUS
<1>9. Bounds'
  BY <1>1, <1>8 DEF Bounds, None
<1> QED
  BY <1>7, <1>9 DEF TypeInv

(* What no step of the parser changes. *)
LEMMA ParseKeeps ==
  ASSUME ParseStep, UNCHANGED cliVars
  PROVE  UNCHANGED <<table, posixly_correct, cmd, cmd_argv, args, width>> /\ Given' = Given
         /\ argtable(cmd)' = argtable(cmd) /\ Err' = Err
PROOF
<1>1. UNCHANGED <<cmd, cmd_argv, args, width>>
  BY DEF cliVars
<1>2. UNCHANGED <<table, posixly_correct>>
  BY DEF ParseStep, getopt_end, getopt_dashdash, getopt_posix_nonoption, getopt_nonoption,
         getopt_malformed, getopt_long_option, getopt_short_option, AtOption, StopScanning,
         untagged_exhausted, untagged_skip, untagged_scan, untagged_unmatched, AtUntagged,
         arg_parse_check, given
<1> QED
  BY <1>1, <1>2 DEF Given, argtable, Err

LEMMA TypesJoin ==
  ASSUME ParseTypes, ParseStep, UNCHANGED cliVars, ScanTypes', FoundTypes', TabTypes'
  PROVE  ParseTypes'
PROOF
<1>1. UNCHANGED <<table, cmd, cmd_argv>> /\ Given' = Given /\ argtable(cmd)' = argtable(cmd) /\ Err' = Err
  BY ParseKeeps
<1> QED
  BY <1>1 DEF ParseTypes, ScanTypes, FoundTypes, TabTypes

LEMMA NoErrorIsErr == NoError \in Err
PROOF
BY DEF NoError, Err, Kind

(* An option argument has a letter or a dash to scan. *)
LEMMA RestIs ==
  ASSUME ParseTypes, place # <<>> \/ (optind <= Len(argv) /\ IsOption(argv[optind])), ProgramInv
  PROVE  /\ Rest \in Word /\ Rest # <<>> /\ Head(Rest) \in Pieces /\ Tail(Rest) \in Word
         /\ Len(Tail(Rest)) = Len(Rest) - 1
PROOF
<1>1. Rest \in Word /\ Rest # <<>>
  <2>1. CASE place # <<>>
    BY <2>1 DEF Rest, ParseTypes
  <2>2. CASE place = <<>>
    <3> DEFINE a == argv[optind]
    <3>1. optind \in 1 .. Len(argv) /\ argv \in Seq(Given)
      BY <2>2 DEF ParseTypes
    <3>2. a \in Word /\ Len(a) > 1
      <4>1. a \in Given
        BY <3>1, ElementOfSeq
      <4> QED
        BY <2>2, <4>1, GivenAreWords DEF IsOption
    <3>3. Rest = Tail(a)
      BY <2>2 DEF Rest
    <3> HIDE DEF a
    <3>4. Tail(a) \in Seq(Pieces) /\ Len(Tail(a)) = Len(a) - 1 /\ Len(a) \in Nat
      BY <3>2, EmptySeq, HeadTailProperties DEF Word
    <3>5. Len(Rest) # 0 /\ Rest \in Seq(Pieces)
      BY <3>2, <3>3, <3>4
    <3> QED
      BY <3>5 DEF Word
  <2> QED
    BY <2>1, <2>2
<1> QED
  BY <1>1, HeadTailProperties DEF Word

LEMMA OptionTypes ==
  ASSUME ProgramInv, ParseTypes, Bounds, AtOption
  PROVE  /\ pc = "getopt" /\ pc' = pc /\ UNCHANGED <<argv, nonopt_start, table, tabindex, errorlast>>
         /\ optind <= Len(argv) /\ nonopt_end' \in Nat
         /\ nonopt_end' # None => nonopt_start # None /\ nonopt_start < nonopt_end' /\ nonopt_end' <= optind
         /\ Rest \in Word /\ Rest # <<>> /\ Head(Rest) \in Pieces /\ Tail(Rest) \in Word
         /\ Len(Tail(Rest)) = Len(Rest) - 1
PROOF
<1>1. place # <<>> \/ (optind <= Len(argv) /\ IsOption(argv[optind]))
  BY DEF AtOption
<1>2. pc = "getopt" /\ pc' = pc /\ UNCHANGED <<argv, nonopt_start, table, tabindex, errorlast>>
  BY DEF AtOption, given, untagged
<1>3. optind <= Len(argv)
  BY <1>1 DEF Bounds
<1>4. /\ nonopt_end' \in Nat
      /\ nonopt_end' # None => nonopt_start # None /\ nonopt_start < nonopt_end' /\ nonopt_end' <= optind
  BY DEF AtOption, Bounds, ParseTypes
<1> QED
  BY <1>1, <1>2, <1>3, <1>4, RestIs

LEMMA GetoptTypes ==
  ASSUME ProgramInv, ParseTypes, Bounds, ParseStep, UNCHANGED cliVars, pc = "getopt"
  PROVE  ParseTypes' /\ (pc' = "getopt" => Bounds')
PROOF
<1>1. /\ argv \in Seq(Given) /\ Len(argv) = Len(cmd_argv) /\ Len(argv) \in Nat
      /\ optind \in Nat \ {0} /\ place \in Word /\ nonopt_start \in Nat /\ nonopt_end \in Nat
      /\ found \in [DOMAIN table -> Seq(Word)] /\ found[CMD_NAME] \in Seq(Given) /\ errors \in Seq(Err)
      /\ tabindex \in Nat \ {0} /\ errorlast \in Err
  BY DEF ParseTypes
<1>2. UNCHANGED <<table, cmd, cmd_argv>> /\ Given' = Given /\ Err' = Err
  BY ParseKeeps
<1>3. pc \in Parsing
  BY DEF Parsing
<1>4. <<>> \in Word /\ 1 \in Nat \ {0} /\ 0 \in Nat
  BY EmptySeq DEF Word
<1>5. ASSUME NEW start \in Nat \ {0}, NEW end \in Nat, NEW to \in Nat, to <= Len(argv) + 1
      PROVE  permute_args(argv, start, end, to) \in Seq(Given)
             /\ Len(permute_args(argv, start, end, to)) = Len(cmd_argv)
  BY <1>1, <1>5, PermuteKeepsTypes
<1>6. ASSUME argv' \in Seq(Given) /\ Len(argv') = Len(cmd_argv), optind' \in Nat \ {0}, StopScanning
      PROVE  ParseTypes' /\ (pc' = "getopt" => Bounds')
  <2>1. /\ pc' = "untagged" /\ place' = <<>> /\ nonopt_start' = 0 /\ nonopt_end' = 0
        /\ tabindex' = 1 /\ errorlast' = NoError /\ UNCHANGED <<found, errors>>
    BY <1>6 DEF StopScanning, None, results
  <2>2. ScanTypes' /\ FoundTypes' /\ TabTypes'
    BY <1>1, <1>2, <1>4, <1>6, <2>1, NoErrorIsErr DEF ScanTypes, FoundTypes, TabTypes
  <2> QED
    BY <2>1, <2>2, TypesJoin
<1>7. CASE getopt_end
  <2>1. optind = Len(argv) + 1 /\ StopScanning
    BY <1>1, <1>7 DEF getopt_end, AtNewArg, Bounds
  <2>2. argv' \in Seq(Given) /\ Len(argv') = Len(cmd_argv) /\ optind' \in Nat \ {0}
    <3>1. CASE nonopt_end = None /\ nonopt_start # None
      BY <1>1, <1>7, <3>1 DEF getopt_end, None
    <3>2. CASE nonopt_end = None /\ nonopt_start = None
      BY <1>1, <1>7, <3>2 DEF getopt_end, PermuteUpTo
    <3>3. CASE nonopt_end # None
      <4>1. argv' = permute_args(argv, nonopt_start, nonopt_end, optind) /\ optind' = optind - (nonopt_end - nonopt_start)
        BY <1>7, <3>3 DEF getopt_end, PermuteUpTo
      <4>2. nonopt_start \in Nat \ {0} /\ nonopt_start < nonopt_end /\ nonopt_end <= optind
        BY <1>1, <3>3 DEF Bounds, None
      <4>3. argv' \in Seq(Given) /\ Len(argv') = Len(cmd_argv)
        <5>1. optind \in Nat /\ optind <= Len(argv) + 1
          BY <1>1, <2>1
        <5> QED
          BY <1>1, <1>5, <4>1, <4>2, <5>1
      <4> QED
        BY <1>1, <2>1, <4>1, <4>2, <4>3
    <3> QED
      BY <3>1, <3>2, <3>3
  <2> QED
    BY <1>6, <2>1, <2>2
<1>8. CASE getopt_dashdash
  <2> DEFINE end == IF nonopt_start # None /\ nonopt_end = None THEN optind ELSE nonopt_end
  <2>1. /\ optind <= Len(argv) /\ StopScanning
        /\ IF end # None
           THEN argv' = permute_args(argv, nonopt_start, end, optind + 1) /\ optind' = optind + 1 - (end - nonopt_start)
           ELSE argv' = argv /\ optind' = optind + 1
    BY <1>8 DEF getopt_dashdash
  <2>2. end # None => nonopt_start \in Nat \ {0} /\ end \in Nat /\ nonopt_start < end /\ end <= optind
    BY <1>1 DEF Bounds, None
  <2> HIDE DEF end
  <2>3. argv' \in Seq(Given) /\ Len(argv') = Len(cmd_argv) /\ optind' \in Nat \ {0}
    <3>1. CASE end = None
      BY <1>1, <2>1, <3>1
    <3>2. CASE end # None
      <4>1. optind + 1 \in Nat /\ optind + 1 <= Len(argv) + 1
        BY <1>1, <2>1
      <4>2. argv' \in Seq(Given) /\ Len(argv') = Len(cmd_argv)
        <5>1. argv' = permute_args(argv, nonopt_start, end, optind + 1)
          BY <2>1, <3>2
        <5>2. nonopt_start \in Nat \ {0} /\ end \in Nat
          BY <2>2, <3>2
        <5> QED
          BY <1>5, <4>1, <5>1, <5>2
      <4> QED
        BY <1>1, <2>1, <2>2, <3>2, <4>2
    <3> QED
      BY <3>1, <3>2
  <2> QED
    BY <1>6, <2>1, <2>3
<1>9. CASE getopt_posix_nonoption
  <2>1. pc' = "untagged" /\ tabindex' = 1 /\ errorlast' = NoError
        /\ UNCHANGED <<argv, optind, place, nonopt_start, nonopt_end, found, errors>>
    BY <1>9 DEF getopt_posix_nonoption, scanner, results
  <2>2. ScanTypes' /\ FoundTypes' /\ TabTypes'
    BY <1>1, <1>2, <1>4, <2>1, NoErrorIsErr DEF ScanTypes, FoundTypes, TabTypes
  <2> QED
    BY <2>1, <2>2, TypesJoin
<1>10. CASE getopt_nonoption
  <2>1. /\ optind <= Len(argv) /\ optind' = optind + 1 /\ place = <<>> /\ pc' = pc
        /\ UNCHANGED <<place, found, errors, tabindex, errorlast>>
    BY <1>10 DEF getopt_nonoption, AtNewArg, results, untagged
  <2>2. /\ argv' \in Seq(Given) /\ Len(argv') = Len(cmd_argv)
        /\ nonopt_start' \in Nat /\ nonopt_start' <= optind
        /\ nonopt_end' = None
    <3>1. CASE nonopt_end # None
      <4>1. /\ argv' = permute_args(argv, nonopt_start, nonopt_end, optind)
            /\ nonopt_start' = optind - (nonopt_end - nonopt_start) /\ nonopt_end' = None
        BY <1>10, <3>1 DEF getopt_nonoption
      <4>2. nonopt_start \in Nat \ {0} /\ nonopt_start < nonopt_end /\ nonopt_end <= optind
        BY <1>1, <3>1 DEF Bounds, None
      <4>3. argv' \in Seq(Given) /\ Len(argv') = Len(cmd_argv)
        <5>1. optind \in Nat /\ optind <= Len(argv) + 1
          BY <1>1, <2>1
        <5> QED
          BY <1>1, <1>5, <4>1, <4>2, <5>1
      <4> QED
        BY <1>1, <2>1, <4>1, <4>2, <4>3
    <3>2. CASE nonopt_end = None
      BY <1>1, <1>10, <3>2 DEF getopt_nonoption, Bounds, None
    <3> QED
      BY <3>1, <3>2
  <2>3. ScanTypes' /\ FoundTypes' /\ TabTypes'
    BY <1>1, <1>2, <2>1, <2>2 DEF ScanTypes, FoundTypes, TabTypes, None
  <2>4. Bounds'
    BY <1>1, <2>1, <2>2 DEF Bounds, None
  <2> QED
    BY <2>3, <2>4, TypesJoin
<1>11. ASSUME AtOption, FoundTypes', place' \in Word,
              \/ optind' = optind /\ (place' = place \/ place' = <<>>)
              \/ optind' = optind + 1 /\ place' = <<>>
              \/ optind' = optind
       PROVE  ParseTypes' /\ (pc' = "getopt" => Bounds')
  <2>1. /\ UNCHANGED <<argv, nonopt_start, tabindex, errorlast>>
        /\ optind <= Len(argv) /\ nonopt_end' \in Nat
        /\ nonopt_end' # None => nonopt_start # None /\ nonopt_start < nonopt_end' /\ nonopt_end' <= optind
    BY <1>11, OptionTypes
  <2>2. ScanTypes' /\ TabTypes'
    BY <1>1, <1>2, <1>11, <2>1 DEF ScanTypes, TabTypes
  <2>3. Bounds'
    BY <1>1, <1>11, <2>1 DEF Bounds
  <2> QED
    BY <1>11, <2>2, <2>3, TypesJoin
<1>12. ASSUME NEW i \in DOMAIN table, i # CMD_NAME, ScanOrError(i, <<>>)
       PROVE  FoundTypes'
  <2>1. /\ found' \in [DOMAIN table -> Seq(Word)] /\ found'[CMD_NAME] \in Seq(Given) /\ errors' \in Seq(Err)
    BY <1>3, <1>4, <1>12, ScanKeepsTypes
  <2> QED
    BY <1>2, <2>1 DEF FoundTypes
<1>13. ASSUME NEW kind \in Kind, errors' = arg_register_error(Error(kind, 0)), UNCHANGED found
       PROVE  FoundTypes'
  <2>1. Error(kind, 0) \in Err
    BY <1>13, ErrorIsErr
  <2>2. errors' \in Seq(Err)
    BY <1>1, <1>13, <2>1, RegisterKeepsErrors
  <2> QED
    BY <1>1, <1>2, <1>13, <2>2 DEF FoundTypes
<1>14. CASE getopt_malformed
  <2>1. AtOption /\ errors' = arg_register_error(Error("EMISSARG", 0)) /\ place' = <<>> /\ optind' = optind /\ found' = found
    BY <1>14 DEF getopt_malformed
  <2>2. FoundTypes'
    BY <1>13, <2>1 DEF Kind
  <2> QED
    BY <1>4, <1>11, <2>1, <2>2
<1>15. CASE getopt_long_option
  <2> DEFINE text == Tail(Rest)
             has_equal == Contains(text, "=")
             name == IF has_equal THEN SubSeq(text, 1, SelectInSeq(text, LAMBDA c : c = "=") - 1) ELSE text
             matches == matching_options(name, alloc_longoptions(table))
  <2>1. /\ AtOption /\ place' = <<>> /\ optind' = optind + 1
        /\ IF is_long_option(matches, has_equal) THEN \E i \in matches : ScanOrError(i, <<>>)
           ELSE errors' = arg_register_error(Error("ELONGOPT", 0)) /\ UNCHANGED found
    BY <1>15 DEF getopt_long_option
  <2>2. matches \subseteq DOMAIN alloc_longoptions(table)
    <3> HIDE DEF name
    <3> QED
      BY DEF matching_options
  <2>3. \A i \in DOMAIN alloc_longoptions(table) : i \in DOMAIN table /\ i # CMD_NAME
    BY <1>3, NamesAre, TableIs DEF CMD_NAME
  <2> HIDE DEF matches
  <2>4. FoundTypes'
    <3>1. CASE is_long_option(matches, has_equal)
      BY <1>12, <2>1, <2>2, <2>3, <3>1
    <3>2. CASE ~is_long_option(matches, has_equal)
      BY <1>13, <2>1, <3>2 DEF Kind
    <3> QED
      BY <3>1, <3>2
  <2> QED
    BY <1>4, <1>11, <2>1, <2>4
<1>16. CASE getopt_short_option
  <2>1. /\ AtOption /\ place' = Tail(Rest) /\ optind' = Advanced
        /\ IF Head(Rest) \in alloc_shortoptions(table)
           THEN ScanOrError(find_shortoption(table, Head(Rest)), <<>>)
           ELSE errors' = arg_register_error(Error(Head(Rest), 0)) /\ UNCHANGED found
    BY <1>16 DEF getopt_short_option
  <2>2. Head(Rest) \in Pieces /\ Tail(Rest) \in Word
    BY <2>1, OptionTypes
  <2>3. FoundTypes'
    <3>1. CASE Head(Rest) \in alloc_shortoptions(table)
      <4>1. find_shortoption(table, Head(Rest)) = 3 /\ 3 \in DOMAIN table
        BY <1>3, <3>1, NamesAre, TableIs
      <4> QED
        BY <1>12, <2>1, <3>1, <4>1 DEF CMD_NAME
    <3>2. CASE Head(Rest) \notin alloc_shortoptions(table)
      <4>1. Head(Rest) \in Kind
        BY <2>2 DEF Kind
      <4> QED
        BY <1>13, <2>1, <3>2, <4>1
    <3> QED
      BY <3>1, <3>2
  <2>4. optind' = optind \/ (optind' = optind + 1 /\ place' = <<>>)
    BY <2>1 DEF Advanced
  <2> QED
    BY <1>11, <2>1, <2>2, <2>3, <2>4
<1> QED
  BY <1>7, <1>8, <1>9, <1>10, <1>14, <1>15, <1>16 DEF ParseStep, untagged_exhausted, untagged_skip,
     untagged_scan, untagged_unmatched, AtUntagged, arg_parse_check

LEMMA UntaggedTypes ==
  ASSUME ProgramInv, ParseTypes, ParseStep, UNCHANGED cliVars, pc # "getopt"
  PROVE  ParseTypes' /\ pc' # "getopt"
PROOF
<1>1. /\ argv \in Seq(Given) /\ Len(argv) = Len(cmd_argv) /\ Len(argv) \in Nat
      /\ optind \in Nat \ {0} /\ place \in Word /\ nonopt_start \in Nat /\ nonopt_end \in Nat
      /\ found \in [DOMAIN table -> Seq(Word)] /\ found[CMD_NAME] \in Seq(Given) /\ errors \in Seq(Err)
      /\ tabindex \in Nat \ {0} /\ errorlast \in Err
  BY DEF ParseTypes
<1>2. UNCHANGED <<table, cmd, cmd_argv>> /\ Given' = Given /\ Err' = Err
  BY ParseKeeps
<1>3. pc \in Parsing
  BY ParseMoves DEF Parsing
<1>4. ASSUME UNCHANGED <<argv, place, nonopt_start, nonopt_end>>, optind' \in Nat \ {0},
             FoundTypes', TabTypes', pc' # "getopt"
      PROVE  ParseTypes' /\ pc' # "getopt"
  <2>1. ScanTypes'
    BY <1>1, <1>2, <1>4 DEF ScanTypes
  <2> QED
    BY <1>4, <2>1, TypesJoin
<1>5. CASE untagged_exhausted
  <2>1. FoundTypes' /\ TabTypes'
    BY <1>1, <1>2, <1>5 DEF untagged_exhausted, results, untagged, FoundTypes, TabTypes
  <2> QED
    BY <1>1, <1>4, <1>5, <2>1 DEF untagged_exhausted, AtUntagged
<1>6. CASE untagged_skip
  <2>1. FoundTypes' /\ TabTypes'
    BY <1>1, <1>2, <1>6 DEF untagged_skip, results, FoundTypes, TabTypes
  <2> QED
    BY <1>1, <1>4, <1>6, <2>1 DEF untagged_skip, AtUntagged
<1>7. CASE untagged_scan
  <2>1. /\ tabindex <= Len(table) /\ optind <= Len(argv) /\ pc' = pc /\ errors' = errors
        /\ UNCHANGED <<argv, place, nonopt_start, nonopt_end>>
    BY <1>7 DEF untagged_scan, AtUntagged
  <2>2. CASE HasRoom(tabindex) /\ Scan(tabindex, argv[optind]) /\ optind' = optind + 1 /\ errorlast' = NoError
             /\ UNCHANGED tabindex
    <3>1. argv[optind] \in Given /\ argv[optind] \in Word
      <4>1. optind \in 1 .. Len(argv)
        BY <1>1, <2>1
      <4> QED
        BY <1>1, <4>1, ElementOfSeq, GivenAreWords
    <3>2. tabindex \in DOMAIN table
      BY <1>1, <1>3, <2>1, TableIs
    <3>3. ScanOrError(tabindex, argv[optind])
      BY <2>1, <2>2 DEF ScanOrError
    <3>4. FoundTypes'
      <4>1. /\ found' \in [DOMAIN table -> Seq(Word)] /\ found'[CMD_NAME] \in Seq(Given) /\ errors' \in Seq(Err)
        BY <1>3, <3>1, <3>2, <3>3, ScanKeepsTypes
      <4> QED
        BY <1>2, <4>1 DEF FoundTypes
    <3>5. TabTypes'
      BY <1>1, <1>2, <2>2, NoErrorIsErr DEF TabTypes
    <3> QED
      BY <1>1, <1>4, <2>1, <2>2, <3>4, <3>5
  <2>3. CASE ~HasRoom(tabindex) /\ tabindex' = tabindex + 1 /\ errorlast' = Error("MAXCOUNT", tabindex)
             /\ UNCHANGED <<optind, found>>
    <3>1. tabindex \in DOMAIN table
      BY <1>1, <1>3, <2>1, TableIs
    <3>2. errorlast' \in Err
      BY <2>3, <3>1, ErrorIsErr DEF Kind
    <3>3. FoundTypes' /\ TabTypes'
      BY <1>1, <1>2, <2>1, <2>3, <3>2 DEF FoundTypes, TabTypes
    <3> QED
      BY <1>1, <1>4, <2>1, <2>3, <3>3
  <2> QED
    BY <1>7, <2>2, <2>3 DEF untagged_scan
<1>8. CASE untagged_unmatched
  <2>1. /\ UNCHANGED <<argv, place, nonopt_start, nonopt_end, found, tabindex>>
        /\ optind' \in Nat \ {0} /\ pc' # "getopt"
        /\ errorlast' \in Err
        /\ errors' = errors \/ errors' = arg_register_error(errorlast)
           \/ errors' = arg_register_error(Error("ENOMATCH", 0))
    BY <1>1, <1>8, NoErrorIsErr DEF untagged_unmatched, AtUntagged
  <2>2. Error("ENOMATCH", 0) \in Err
    BY ErrorIsErr DEF Kind
  <2>3. errors' \in Seq(Err)
    BY <1>1, <2>1, <2>2, RegisterKeepsErrors
  <2>4. FoundTypes' /\ TabTypes'
    BY <1>1, <1>2, <2>1, <2>3 DEF FoundTypes, TabTypes
  <2> QED
    BY <1>4, <2>1, <2>4
<1>9. CASE arg_parse_check
  <2> DEFINE missing == [i \in DOMAIN table |-> IF TooFew(i) THEN <<Error("MINCOUNT", i)>> ELSE <<>>]
  <2>1. /\ UNCHANGED <<argv, place, nonopt_start, nonopt_end, optind, found, tabindex, errorlast>>
        /\ pc' = "parsed" /\ errors' = IF errors # <<>> THEN errors ELSE FlattenSeq(missing)
    BY <1>9 DEF arg_parse_check, scanner, untagged
  <2>2. missing \in Seq(Seq(Err))
    <3>1. DOMAIN table = 1 .. Len(table) /\ Len(table) \in 3 .. 4
      BY <1>3, TableIs
    <3>2. ASSUME NEW i \in 1 .. Len(table)
          PROVE  (IF TooFew(i) THEN <<Error("MINCOUNT", i)>> ELSE <<>>) \in Seq(Err)
      <4>1. i \in DOMAIN table
        BY <3>1
      <4>2. Error("MINCOUNT", i) \in Err
        BY <4>1, ErrorIsErr DEF Kind
      <4>3. <<Error("MINCOUNT", i)>> \in Seq(Err)
        BY <4>2
      <4> QED
        BY <4>3, EmptySeq
    <3> QED
      BY <3>1, <3>2, IsASeq
  <2> HIDE DEF missing
  <2>3. errors' \in Seq(Err)
    BY <1>1, <2>1, <2>2, FlatType
  <2>4. FoundTypes' /\ TabTypes'
    BY <1>1, <1>2, <2>1, <2>3 DEF FoundTypes, TabTypes
  <2> QED
    BY <1>1, <1>4, <2>1, <2>4
<1> QED
  BY <1>5, <1>6, <1>7, <1>8, <1>9 DEF ParseStep, getopt_end, getopt_dashdash, getopt_posix_nonoption,
     getopt_nonoption, AtNewArg, getopt_malformed, getopt_long_option, getopt_short_option, AtOption

(* The handlers that do not call another one leave the parser. *)
LEMMA HandlersLeave ==
  ASSUME Handlers, ~help_command
  PROVE  pc' \notin Parsing
PROOF
<1>1. CASE handler_help
  BY <1>1 DEF handler_help, Return, Parsing
<1>2. CASE handler_errors
  BY <1>2 DEF handler_errors, Return, Parsing
<1>3. CASE help_list_commands
  BY <1>3 DEF help_list_commands, Parsing
<1>4. CASE help_list_next
  BY <1>4 DEF help_list_next, Return, Parsing
<1>5. CASE help_unknown_command
  BY <1>5 DEF help_unknown_command, Return, Parsing
<1>6. CASE enable_uefi_privileges
  BY <1>6 DEF enable_uefi_privileges, enable_privileges, Return, Parsing
<1>7. CASE enable_sleep_privileges
  BY <1>7 DEF enable_sleep_privileges, enable_privileges, Return, Parsing
<1>8. CASE send_uefi_command
  BY <1>8 DEF send_uefi_command, set_uefi_variable, Return, Parsing
<1>9. CASE execute_lazily
  BY <1>9 DEF execute_lazily, Return, Parsing
<1>10. CASE enter_sleep_s3
  BY <1>10 DEF enter_sleep_s3, Return, Parsing
<1> QED
  BY <1>1, <1>2, <1>3, <1>4, <1>5, <1>6, <1>7, <1>8, <1>9, <1>10 DEF Handlers

(* A parse begins with the command line, or with one that help makes up. *)
LEMMA ParseBegins ==
  ASSUME TableInv, ProgramInv, TypeInv, [Next]_vars, main_dispatch \/ help_command, pc' \in Parsing
  PROVE  /\ arg_parse(cmd_argv', argtable(cmd')) /\ UNCHANGED <<args, width>> /\ Given' = Given
         /\ cmd' \in Commands /\ cmd_argv' \in Seq(Given) /\ cmd_argv' # <<>> /\ cmd_argv'[1] = cmd'
         /\ main_dispatch => cmd_argv' = args
         /\ help_command => cmd_argv' = <<cmd', DashDash \o HELP>>
PROOF
<1>1. ProgramInv'
  BY ProgramStep
<1>2. CASE main_dispatch
  <2>1. ~(args = <<>> \/ (args # <<>> /\ arg_cmd_info(args[1]) = NoEntry))
    BY <1>2 DEF main_dispatch, Parsing
  <2>2. /\ arg_parse(args, argtable(args[1])) /\ cmd' = args[1] /\ cmd_argv' = args /\ pc' = "getopt"
        /\ UNCHANGED <<args, width>> /\ args # <<>> /\ pc = "register"
    BY <1>2, <2>1 DEF main_dispatch, Handle, surroundings, arg_parse
  <2>3. args \in Seq(Given)
    <3>1. args \in Seq(Word)
      BY LinesAreLines DEF ProgramInv, Word
    <3>2. args = [i \in 1 .. Len(args) |-> args[i]] /\ Len(args) \in Nat /\ DOMAIN args = 1 .. Len(args)
      BY <3>1
    <3>3. \A i \in 1 .. Len(args) : args[i] \in Given
      BY <3>2 DEF Given
    <3> QED
      BY <3>2, <3>3, IsASeq
  <2>4. args[1] \in Commands
    BY <1>1, <2>2 DEF ProgramInv, Dispatched, Parsing
  <2>5. Given' = Given
    BY <2>2 DEF Given
  <2>6. ~help_command
    BY <2>2 DEF help_command, Handling
  <2> QED
    BY <2>2, <2>3, <2>4, <2>5, <2>6
<1>3. CASE help_command
  <2> DEFINE name == arg_cmd_info(found[CMD_NAME][1])
  <2>1. /\ arg_parse(<<name, DashDash \o HELP>>, argtable(name)) /\ pc = "parsed"
        /\ cmd' = name /\ cmd_argv' = <<name, DashDash \o HELP>> /\ UNCHANGED <<args, width>> /\ pc' = "getopt"
    BY <1>3 DEF help_command, Handle, Handling, surroundings, arg_parse
  <2>2. name \in Commands
    BY <1>1, <2>1 DEF ProgramInv, Dispatched, Parsing
  <2>3. Given' = Given
    BY <2>1 DEF Given
  <2> HIDE DEF name
  <2>4. <<name, DashDash \o HELP>> \in Seq(Given)
    <3>1. name \in Given /\ DashDash \o HELP \in Given
      BY <2>2 DEF Given
    <3> QED
      BY <3>1
  <2>5. <<name, DashDash \o HELP>> # <<>> /\ <<name, DashDash \o HELP>>[1] = name
    OBVIOUS
  <2>6. ~main_dispatch
    BY <2>1 DEF main_dispatch
  <2> QED
    BY <2>1, <2>2, <2>3, <2>4, <2>5, <2>6
<1> QED
  BY <1>2, <1>3

LEMMA TypeStep ==
  ASSUME TableInv, ProgramInv, TypeInv, [Next]_vars
  PROVE  TypeInv'
PROOF
<1>1. ASSUME pc' \notin Parsing
      PROVE  TypeInv'
  BY <1>1 DEF TypeInv, Parsing
<1>2. CASE ParseStep /\ UNCHANGED cliVars
  <2>1. pc \in Parsing /\ ParseTypes
    BY <1>2, ParseMoves DEF TypeInv, Parsing
  <2>2. CASE pc = "getopt"
    BY <1>2, <2>1, <2>2, GetoptTypes DEF TypeInv
  <2>3. CASE pc # "getopt"
    BY <1>2, <2>1, <2>3, UntaggedTypes DEF TypeInv
  <2> QED
    BY <2>2, <2>3
<1>3. ASSUME UNCHANGED <<pc, table, argv, optind, place, nonopt_start, nonopt_end, found, errors, tabindex, errorlast>>,
             UNCHANGED <<cmd, cmd_argv, args, width>>
      PROVE  TypeInv'
  <2>1. Given' = Given /\ argtable(cmd)' = argtable(cmd) /\ Err' = Err
    BY <1>3 DEF Given, argtable, Err
  <2>2. ParseTypes => ParseTypes'
    BY <1>3, <2>1 DEF ParseTypes
  <2>3. Bounds => Bounds'
    BY <1>3 DEF Bounds
  <2> QED
    BY <1>3, <2>2, <2>3 DEF TypeInv
<1>4. CASE append_text
  BY <1>3, <1>4 DEF append_text, InHandler, parsing, surroundings, scanner, results, untagged
<1>5. CASE UNCHANGED vars
  BY <1>3, <1>5 DEF vars, parseVars, cliVars
<1>6. CASE register_cmd
  BY <1>1, <1>6 DEF register_cmd, Parsing
<1>7. CASE main_cleanup
  BY <1>1, <1>7 DEF main_cleanup, Parsing
<1>8. CASE main_dispatch \/ help_command
  <2>1. CASE pc' \in Parsing
    BY <1>8, <2>1, ParseBegins, TypesBegin
  <2> QED
    BY <1>1, <2>1
<1>9. CASE Handlers /\ ~help_command
  BY <1>1, <1>9, HandlersLeave
<1> QED
  BY <1>2, <1>4, <1>5, <1>6, <1>7, <1>8, <1>9, NextCases
-------------------------------------------------------------------------------
(* The output. *)

LEMMA CatFits ==
  ASSUME NEW ds, BufferOk(ds), NEW length \in Nat
  PROVE  BufferOk(arg_dstr_cat(ds, length))
PROOF
<1> DEFINE used == Used(ds)  total == (length + 1) + used
           grown == IF total < SmallAppend THEN FirstAppend ELSE 2 * total
           live == IF ds.append_data_size = 0 THEN ds.live + 1 ELSE ds.live
           roomy == setup_append_buf(ds, length + 1)
           r == arg_dstr_cat(ds, length)
<1>1. /\ ds \in Dstr /\ ds.len \in Nat /\ ds.append_data_size \in Nat /\ ds.append_used \in Nat
      /\ ds.data \in {"sbuf", "append"} /\ ds.live \in {0, 1}
      /\ ds.live = IF ds.append_data_size = 0 THEN 0 ELSE 1
  BY DEF BufferOk, Dstr
<1>2. used \in Nat /\ used >= ds.len
  BY <1>1 DEF Used
<1>3. /\ SmallAppend \in Nat /\ FirstAppend \in Nat /\ SmallAppend <= FirstAppend
  BY AppendGrows
<1>4. r = [roomy EXCEPT !.len = roomy.len + length]
  BY DEF arg_dstr_cat
<1>5. roomy = IF total >= ds.append_data_size
              THEN [ds EXCEPT !.data = "append", !.append_used = used, !.append_data_size = grown, !.live = live]
              ELSE [ds EXCEPT !.data = "append", !.append_used = used]
  BY <1>1 DEF setup_append_buf, Dstr
<1> HIDE DEF used, roomy, r
<1>6. total \in Nat /\ total >= ds.len + length + 1 /\ grown \in Nat /\ grown >= total /\ grown # 0
  BY <1>1, <1>2, <1>3
<1>7. live = 1 /\ live \in {0, 1}
  BY <1>1
<1> HIDE DEF grown, live
<1>8. CASE total >= ds.append_data_size
  <2>1. roomy = [ds EXCEPT !.data = "append", !.append_used = used, !.append_data_size = grown, !.live = live]
    BY <1>5, <1>8
  <2>2. roomy \in Dstr
    BY <1>1, <1>2, <1>6, <1>7, <2>1 DEF Dstr
  <2>3. roomy.data = "append" /\ roomy.len = ds.len /\ roomy.append_data_size = grown /\ roomy.live = live
    BY <1>1, <2>1 DEF Dstr
  <2>4. ds.len + length \in Nat /\ ds.len + length + 1 <= grown
    BY <1>1, <1>6
  <2>5. r \in Dstr
    BY <1>4, <2>2, <2>3, <2>4 DEF Dstr
  <2>6. r.data = "append" /\ r.len = ds.len + length /\ r.append_data_size = grown /\ r.live = live
    BY <1>4, <2>2, <2>3 DEF Dstr
  <2> HIDE DEF total
  <2>7. BufferOk(r)
    BY <1>6, <1>7, <2>4, <2>5, <2>6 DEF BufferOk
  <2> QED
    BY <2>7 DEF r
<1>9. CASE ~(total >= ds.append_data_size)
  <2>1. roomy = [ds EXCEPT !.data = "append", !.append_used = used]
    BY <1>5, <1>9
  <2>2. roomy \in Dstr
    BY <1>1, <1>2, <2>1 DEF Dstr
  <2>3. roomy.data = "append" /\ roomy.len = ds.len /\ roomy.append_data_size = ds.append_data_size
        /\ roomy.live = ds.live
    BY <1>1, <2>1 DEF Dstr
  <2>4. ds.len + length \in Nat /\ ds.len + length + 1 <= ds.append_data_size
    BY <1>1, <1>6, <1>9
  <2>5. r \in Dstr
    BY <1>4, <2>2, <2>3, <2>4 DEF Dstr
  <2>6. r.data = "append" /\ r.len = ds.len + length /\ r.append_data_size = ds.append_data_size
        /\ r.live = ds.live
    BY <1>4, <2>2, <2>3 DEF Dstr
  <2> HIDE DEF total
  <2>7. BufferOk(r)
    BY <1>1, <2>4, <2>5, <2>6 DEF BufferOk
  <2> QED
    BY <2>7 DEF r
<1> QED
  BY <1>8, <1>9

LEMMA DestroyFrees ==
  ASSUME NEW ds, BufferOk(ds)
  PROVE  BufferOk(arg_dstr_destroy(ds)) /\ arg_dstr_destroy(ds).append_data_size = 0
PROOF
<1> DEFINE live == IF ds.append_data_size > 0 THEN ds.live - 1 ELSE ds.live
           r == arg_dstr_destroy(ds)
<1>1. /\ ds \in Dstr /\ ds.append_used \in Nat /\ ds.append_data_size \in Nat
      /\ ds.live = IF ds.append_data_size = 0 THEN 0 ELSE 1
  BY DEF BufferOk, Dstr
<1>2. r = [ds EXCEPT !.data = "sbuf", !.len = 0, !.append_data_size = 0, !.live = live]
  BY <1>1 DEF arg_dstr_destroy, Dstr
<1>3. live = 0
  BY <1>1
<1> HIDE DEF live, r
<1>4. r \in Dstr /\ r.data = "sbuf" /\ r.len = 0 /\ r.append_data_size = 0 /\ r.live = 0
  BY <1>1, <1>2, <1>3 DEF Dstr
<1>5. BufferOk(r)
  BY <1>4 DEF BufferOk
<1> QED
  BY <1>4, <1>5 DEF r

(* What is printed about an option has a length. *)
LEMMA CatIsNumber ==
  ASSUME NEW length \in Nat, NEW src \in Nat
  PROVE  arg_cat(length, src) \in Nat
PROOF
<1> DEFINE S == {length + src, SyntaxSize - 1}
<1>1. S \subseteq Nat /\ S # {}
  BY RoomForSyntax
<1>2. Min(S) \in S
  BY <1>1, MinIsLeast
<1> QED
  BY <1>1, <1>2 DEF arg_cat

LEMMA OptionIsNumber ==
  ASSUME NEW entry \in Option, NEW separator \in Nat
  PROVE  arg_cat_optionv(entry, separator) \in Nat
PROOF
<1> DEFINE short == IF entry.shortopts # NoOption THEN 2 ELSE 0
           parted == IF entry.shortopts # NoOption /\ entry.longopts # <<>> THEN separator ELSE 0
           long == IF entry.longopts # <<>> THEN 2 + Len(entry.longopts) ELSE 0
           equals == IF entry.datatype > 0 /\ IsTagged(entry) THEN 1 ELSE 0
<1>1. short \in Nat /\ parted \in Nat /\ equals \in Nat /\ entry.datatype \in Nat
  BY DEF Option
<1>2. long \in Nat
  <2>1. Len(HELP) = 2 /\ Len(LAZY) = 2
    BY DEF HELP, LAZY
  <2> QED
    BY <2>1 DEF Option
<1>3. arg_cat_optionv(entry, separator) =
        arg_cat(arg_cat(arg_cat(arg_cat(arg_cat(0, short), parted), long), equals), entry.datatype)
  BY DEF arg_cat_optionv
<1> HIDE DEF short, parted, long, equals
<1>4. arg_cat(0, short) \in Nat
  BY <1>1, CatIsNumber
<1>5. arg_cat(arg_cat(0, short), parted) \in Nat
  BY <1>1, <1>4, CatIsNumber
<1>6. arg_cat(arg_cat(arg_cat(0, short), parted), long) \in Nat
  BY <1>2, <1>5, CatIsNumber
<1>7. arg_cat(arg_cat(arg_cat(arg_cat(0, short), parted), long), equals) \in Nat
  BY <1>1, <1>6, CatIsNumber
<1> QED
  BY <1>1, <1>3, <1>7, CatIsNumber

LEMMA InstancesAreNumbers ==
  ASSUME NEW entry \in Option
  PROVE  Instances(entry) \in Seq(Nat)
PROOF
<1> DEFINE syntax == arg_cat_optionv(entry, 1)
           optional == entry.maxcount - entry.mincount
           tail == CASE optional = 0 -> <<>>
                     [] optional = 1 -> <<2, syntax, 1>>
                     [] optional = 2 -> <<2, syntax, 1, 2, syntax, 1>>
                     [] OTHER -> <<2, syntax, 4>>
           pair == <<1, syntax>>
           front == [i \in 1 .. entry.mincount |-> pair]
<1>1. syntax \in Nat
  BY OptionIsNumber
<1>2. Instances(entry) = FlattenSeq(front) \o tail
  BY DEF Instances
<1> HIDE DEF syntax
<1>3. entry.mincount \in Nat
  BY DEF Option
<1>4. pair \in Seq(Nat)
  BY <1>1
<1> HIDE DEF pair
<1>5. front \in Seq(Seq(Nat))
  BY <1>3, <1>4, IsASeq
<1>6. FlattenSeq(front) \in Seq(Nat)
  <2> HIDE DEF front
  <2> QED
    BY <1>5, FlatType
<1>7. <<>> \in Seq(Nat) /\ <<2, syntax, 1>> \in Seq(Nat) /\ <<2, syntax, 4>> \in Seq(Nat)
  BY <1>1
<1>8. <<2, syntax, 1, 2, syntax, 1>> \in Seq(Nat)
  BY <1>1
<1> DEFINE a == <<2, syntax, 1>>  b == <<2, syntax, 1, 2, syntax, 1>>  c == <<2, syntax, 4>>
<1>9. tail \in {<<>>, a, b, c}
  <2> HIDE DEF optional
  <2> QED
    OBVIOUS
<1>10. tail \in Seq(Nat)
  <2> HIDE DEF tail
  <2> QED
    BY <1>7, <1>8, <1>9
<1> HIDE DEF front, tail
<1> QED
  BY <1>2, <1>6, <1>10, ConcatProperties

LEMMA SyntaxIsNumbers ==
  ASSUME NEW t \in Seq(Option), NEW suffix \in Nat
  PROVE  arg_print_syntaxv_ds(t, suffix) \in Seq(Nat)
PROOF
<1> DEFINE parts == [i \in DOMAIN t |-> Instances(t[i])]
<1>1. DOMAIN t = 1 .. Len(t) /\ Len(t) \in Nat
  OBVIOUS
<1>2. \A i \in 1 .. Len(t) : Instances(t[i]) \in Seq(Nat)
  BY ElementOfSeq, InstancesAreNumbers
<1>3. parts \in Seq(Seq(Nat))
  BY <1>1, <1>2, IsASeq
<1> HIDE DEF parts
<1>4. FlattenSeq(parts) \in Seq(Nat) /\ <<suffix>> \in Seq(Nat)
  BY <1>3, FlatType
<1>5. arg_print_syntaxv_ds(t, suffix) = FlattenSeq(parts) \o <<suffix>>
  BY DEF arg_print_syntaxv_ds, parts
<1> QED
  BY <1>4, <1>5, ConcatProperties

LEMMA HelpIsNumbers ==
  ASSUME NEW t \in Seq(Option), NEW description \in Nat
  PROVE  arg_make_help_msg(t, description) \in Seq(Nat)
PROOF
<1> DEFINE line(entry) == arg_cat_optionv(entry, 2) + entry.glossary
           parts == [i \in DOMAIN t |-> IF t[i].glossary > 0 THEN <<line(t[i])>> ELSE <<>>]
<1>1. DOMAIN t = 1 .. Len(t) /\ Len(t) \in Nat
  OBVIOUS
<1>2. ASSUME NEW i \in 1 .. Len(t)
      PROVE  (IF t[i].glossary > 0 THEN <<line(t[i])>> ELSE <<>>) \in Seq(Nat)
  <2>1. t[i] \in Option
    BY ElementOfSeq
  <2>2. arg_cat_optionv(t[i], 2) \in Nat /\ t[i].glossary \in Nat
    BY <2>1, OptionIsNumber DEF Option
  <2>3. line(t[i]) \in Nat
    BY <2>2
  <2> HIDE DEF line
  <2>4. <<line(t[i])>> \in Seq(Nat)
    BY <2>3
  <2> QED
    BY <2>4, EmptySeq
<1>3. parts \in Seq(Seq(Nat))
  <2> HIDE DEF line
  <2> QED
    BY <1>1, <1>2, IsASeq
<1>4. arg_print_glossary_ds(t) = FlattenSeq(parts)
  BY DEF arg_print_glossary_ds
<1> HIDE DEF parts
<1>5. arg_print_glossary_ds(t) \in Seq(Nat)
  BY <1>3, <1>4, FlatType
<1>6. arg_print_syntaxv_ds(t, 3) \in Seq(Nat)
  BY SyntaxIsNumbers
<1>7. <<description, 1, 2>> \in Seq(Nat) /\ <<1>> \in Seq(Nat)
  OBVIOUS
<1> DEFINE a == <<description, 1, 2>>  b == arg_print_syntaxv_ds(t, 3)  c == arg_print_glossary_ds(t)  d == <<1>>
<1>8. arg_make_help_msg(t, description) = a \o b \o c \o d
  BY DEF arg_make_help_msg
<1> HIDE DEF a, b, c, d
<1>9. a \in Seq(Nat) /\ b \in Seq(Nat) /\ c \in Seq(Nat) /\ d \in Seq(Nat)
  BY <1>5, <1>6, <1>7 DEF a, b, c, d
<1> QED
  BY <1>8, <1>9, ConcatProperties

LEMMA ErrorsAreNumbers ==
  ASSUME NEW t \in Seq(Option), NEW errs \in Seq([kind : Kind, entry : {0} \cup DOMAIN t])
  PROVE  arg_make_syntax_err_msg(t, errs) \in Seq(Nat)
PROOF
<1> DEFINE errorfn(error) ==
             IF error.entry = 0 THEN arg_end_errorfn
             ELSE IF t[error.entry].kind = "str" THEN arg_str_errorfn(t[error.entry])
             ELSE arg_lit_errorfn(t[error.entry], error.kind)
           parts == [i \in DOMAIN errs |-> errorfn(errs[i])]
<1>1. arg_end_errorfn \in Seq(Nat)
  BY DEF arg_end_errorfn
<1>2. ASSUME NEW entry \in Option, NEW kind
      PROVE  arg_str_errorfn(entry) \in Seq(Nat) /\ arg_lit_errorfn(entry, kind) \in Seq(Nat)
  <2> DEFINE a == <<1, 2>>  b == <<2>>  c == arg_print_option_ds(entry)
             d == IF kind = "MINCOUNT" THEN <<1>> ELSE <<>>
  <2>1. a \in Seq(Nat) /\ b \in Seq(Nat) /\ d \in Seq(Nat)
    OBVIOUS
  <2>2. c \in Seq(Nat)
    <3>1. arg_cat_optionv(entry, 1) \in Nat
      BY OptionIsNumber
    <3> QED
      BY <3>1 DEF arg_print_option_ds
  <2>3. arg_str_errorfn(entry) = a \o c /\ arg_lit_errorfn(entry, kind) = b \o c \o d
    BY DEF arg_str_errorfn, arg_lit_errorfn
  <2> HIDE DEF a, b, c, d
  <2> QED
    BY <2>1, <2>2, <2>3, ConcatProperties
<1>3. ASSUME NEW i \in 1 .. Len(errs)
      PROVE  errorfn(errs[i]) \in Seq(Nat)
  <2>1. errs[i] \in [kind : Kind, entry : {0} \cup DOMAIN t]
    BY ElementOfSeq
  <2>2. errs[i].entry # 0 => t[errs[i].entry] \in Option
    <3>1. errs[i].entry # 0 => errs[i].entry \in 1 .. Len(t)
      BY <2>1
    <3> QED
      BY <3>1, ElementOfSeq
  <2> QED
    BY <1>1, <1>2, <2>2
<1> HIDE DEF errorfn
<1>4. parts \in Seq(Seq(Nat))
  <2>1. DOMAIN errs = 1 .. Len(errs) /\ Len(errs) \in Nat
    OBVIOUS
  <2> QED
    BY <1>3, <2>1, IsASeq
<1>5. arg_print_errors_ds(t, errs) = FlattenSeq(parts)
  BY DEF arg_print_errors_ds, errorfn
<1> HIDE DEF parts
<1> DEFINE a == arg_print_errors_ds(t, errs)  b == <<1, 2>>  c == arg_print_syntaxv_ds(t, 1)  d == <<1>>
<1>6. a \in Seq(Nat) /\ b \in Seq(Nat) /\ c \in Seq(Nat) /\ d \in Seq(Nat)
  BY <1>4, <1>5, FlatType, SyntaxIsNumbers
<1>7. arg_make_syntax_err_msg(t, errs) = a \o b \o c \o d
  BY DEF arg_make_syntax_err_msg
<1> HIDE DEF a, b, c, d
<1> QED
  BY <1>6, <1>7, ConcatProperties

-------------------------------------------------------------------------------
(* The output fits, because all that is appended to it has a length. *)

(* What the runs check of the output follows. *)
LEMMA OutputIsFit ==
  ASSUME OutputInv
  PROVE  OutputFits
PROOF
<1>1. BufferOk(res) /\ res \in Dstr /\ (pc = "exit" => res.append_data_size = 0)
  BY DEF OutputInv, BufferOk
<1>2. res.len + 1 <= Capacity(res)
  <2>1. StaticSize \in Nat
    BY AppendGrows
  <2>2. CASE res.data = "sbuf"
    BY <1>1, <2>1, <2>2 DEF BufferOk, Capacity
  <2>3. CASE res.data = "append"
    BY <1>1, <2>3 DEF BufferOk, Capacity
  <2> QED
    BY <1>1, <2>2, <2>3 DEF Dstr
<1>3. pc = "exit" => res.live = 0
  BY <1>1 DEF BufferOk
<1> QED
  BY <1>2, <1>3 DEF OutputFits

LEMMA OutputInit ==
  ASSUME Init
  PROVE  OutputInv
PROOF
<1>1. /\ res = [data |-> "sbuf", len |-> 0, append_data_size |-> 0, append_used |-> 0, live |-> 0]
      /\ texts = <<>> /\ pc = "register"
  BY DEF Init, arg_dstr_create
<1>2. BufferOk(res)
  BY <1>1 DEF BufferOk, Dstr
<1> QED
  BY <1>1, <1>2, EmptySeq DEF OutputInv

LEMMA OutputStep ==
  ASSUME ProgramInv, TypeInv, OutputInv, [Next]_vars
  PROVE  OutputInv'
PROOF
<1>1. BufferOk(res) /\ texts \in Seq(Nat) /\ (pc = "exit" => texts = <<>> /\ res.append_data_size = 0)
  BY DEF OutputInv
<1>2. ASSUME UNCHANGED output, pc' = pc \/ pc' # "exit"
      PROVE  OutputInv'
  BY <1>1, <1>2 DEF OutputInv, BufferOk, output
<1>3. ASSUME UNCHANGED res, texts' \in Seq(Nat), pc' # "exit"
      PROVE  OutputInv'
  BY <1>1, <1>3 DEF OutputInv, BufferOk
<1>4. arg_make_get_help_msg \in Seq(Nat)
  BY DEF arg_make_get_help_msg
<1>5. width \in Nat
  BY DEF ProgramInv
<1>6. pc = "parsed" => ParseTypes /\ table \in Seq(Option)
  BY TableIs DEF TypeInv, Parsing
<1>7. CASE ParseStep /\ UNCHANGED cliVars
  BY <1>2, <1>7, ParseMoves DEF cliVars, output, Parsing
<1>8. CASE register_cmd
  BY <1>2, <1>8 DEF register_cmd
<1>9. CASE main_dispatch
  <2>1. UNCHANGED res /\ (texts' = texts \/ texts' = arg_make_get_help_msg) /\ pc' # "exit"
    BY <1>9 DEF main_dispatch, Emit, Handle, arg_parse
  <2> QED
    BY <1>1, <1>3, <1>4, <2>1
<1>10. CASE append_text
  <2>1. res' = arg_dstr_cat(res, Head(texts)) /\ texts' = Tail(texts) /\ pc' = pc /\ texts # <<>>
    BY <1>10 DEF append_text
  <2>2. Head(texts) \in Nat /\ Tail(texts) \in Seq(Nat)
    BY <1>1, <2>1, HeadTailProperties
  <2>3. BufferOk(res')
    BY <1>1, <2>1, <2>2, CatFits
  <2> QED
    BY <1>1, <2>1, <2>2, <2>3 DEF OutputInv, BufferOk
<1>11. CASE main_cleanup
  <2>1. res' = arg_dstr_destroy(res) /\ texts' = texts /\ texts = <<>>
    BY <1>11 DEF main_cleanup
  <2>2. BufferOk(res') /\ res'.append_data_size = 0
    BY <1>1, <2>1, DestroyFrees
  <2> QED
    BY <1>1, <2>1, <2>2 DEF OutputInv, BufferOk
<1>12. CASE Handlers
  <2>1. CASE handler_help
    <3>1. UNCHANGED res /\ texts' = arg_make_help_msg(table, width) /\ pc = "parsed" /\ pc' # "exit"
      BY <2>1 DEF handler_help, Emit, Return
    <3>2. arg_make_help_msg(table, width) \in Seq(Nat)
      BY <1>5, <1>6, <3>1, HelpIsNumbers
    <3> QED
      BY <1>3, <3>1, <3>2
  <2>2. CASE handler_errors
    <3>1. UNCHANGED res /\ texts' = arg_make_syntax_err_msg(table, errors) /\ pc = "parsed" /\ pc' # "exit"
      BY <2>2 DEF handler_errors, Emit, Return
    <3>2. errors \in Seq([kind : Kind, entry : {0} \cup DOMAIN table])
      BY <1>6, <3>1 DEF ParseTypes, Err
    <3>3. arg_make_syntax_err_msg(table, errors) \in Seq(Nat)
      BY <1>6, <3>1, <3>2, ErrorsAreNumbers
    <3> QED
      BY <1>3, <3>1, <3>3
  <2>3. CASE help_list_commands
    <3>1. UNCHANGED res /\ texts' = <<2, 2, 3>> /\ pc' # "exit"
      BY <2>3 DEF help_list_commands, Emit
    <3>2. <<2, 2, 3>> \in Seq(Nat)
      OBVIOUS
    <3> QED
      BY <1>3, <3>1, <3>2
  <2>4. CASE help_list_next
    <3>1. UNCHANGED res /\ texts' = <<1 + width>> /\ pc' # "exit"
      BY <2>4 DEF help_list_next, Emit, Return
    <3>2. <<1 + width>> \in Seq(Nat)
      BY <1>5
    <3> QED
      BY <1>3, <3>1, <3>2
  <2>5. CASE help_unknown_command
    <3>1. UNCHANGED res /\ texts' = <<1>> \o arg_make_get_help_msg /\ pc' # "exit"
      BY <2>5 DEF help_unknown_command, Emit, Return
    <3>2. <<1>> \in Seq(Nat)
      OBVIOUS
    <3>3. texts' \in Seq(Nat)
      <4> DEFINE one == <<1>>
      <4>1. one \in Seq(Nat) /\ texts' = one \o arg_make_get_help_msg
        BY <3>1, <3>2
      <4> HIDE DEF one
      <4> QED
        BY <1>4, <4>1, ConcatProperties
    <3> QED
      BY <1>3, <3>1, <3>3
  <2>6. CASE help_command
    BY <1>2, <2>6 DEF help_command, Handle, arg_parse, output
  <2>7. CASE enable_uefi_privileges
    BY <1>2, <2>7 DEF enable_uefi_privileges, enable_privileges, Return
  <2>8. CASE enable_sleep_privileges
    BY <1>2, <2>8 DEF enable_sleep_privileges, enable_privileges, Return
  <2>9. CASE send_uefi_command
    BY <1>2, <2>9 DEF send_uefi_command, set_uefi_variable, Return
  <2>10. CASE execute_lazily
    BY <1>2, <2>10 DEF execute_lazily, Return
  <2>11. CASE enter_sleep_s3
    BY <1>2, <2>11 DEF enter_sleep_s3, Return
  <2> QED
    BY <1>12, <2>1, <2>2, <2>3, <2>4, <2>5, <2>6, <2>7, <2>8, <2>9, <2>10, <2>11 DEF Handlers
<1>13. CASE UNCHANGED vars
  BY <1>2, <1>13 DEF vars, parseVars, cliVars, output
<1> QED
  BY <1>7, <1>8, <1>9, <1>10, <1>11, <1>12, <1>13, NextCases

(* The output text fits its buffer with the byte that ends it, whatever    *)
(* was appended and however often the buffer was replaced, and the buffer  *)
(* is gone when the program ends (argtable3.c:1226, main.c).               *)
THEOREM OutputAlwaysFits == Spec => []OutputFits
PROOF
<1>1. Init => TableInv /\ ProgramInv /\ TypeInv /\ OutputInv
  BY TableInit, ProgramInit, OutputInit
<1>2. TableInv /\ ProgramInv /\ TypeInv /\ OutputInv /\ [Next]_vars
        => (TableInv /\ ProgramInv /\ TypeInv /\ OutputInv)'
  BY TableStep, ProgramStep, TypeStep, OutputStep
<1>3. TableInv /\ ProgramInv /\ TypeInv /\ OutputInv => OutputFits
  BY OutputIsFit
<1> QED
  BY <1>1, <1>2, <1>3, PTL DEF Spec

-------------------------------------------------------------------------------
(* permute_args exchanges two blocks.  Its cycles begin at as many places   *)
(* as the greatest common divisor of the lengths of the blocks says, and   *)
(* that they come past every place is arithmetic modulo the sum.           *)

Divides(g, x) == \E k \in Int : x = k * g

LEMMA DivMod ==
  ASSUME NEW x \in Int, NEW y \in Nat \ {0}
  PROVE  /\ x \div y \in Int /\ x % y \in 0 .. (y - 1)
         /\ x = (x \div y) * y + (x % y)
PROOF
OBVIOUS

LEMMA Sums ==
  ASSUME NEW a \in Int, NEW b \in Int, NEW c \in Int
  PROVE  /\ a * b \in Int /\ a * b = b * a /\ (a + b) * c = a * c + b * c /\ (a - b) * c = a * c - b * c
         /\ a * (b * c) = (a * b) * c
PROOF
OBVIOUS

LEMMA Signs ==
  ASSUME NEW a \in Int, NEW g \in Nat \ {0}
  PROVE  /\ a <= 0 => a * g <= 0
         /\ a >= 1 => a * g >= g
         /\ a <= -1 => a * g <= -g
PROOF
OBVIOUS

LEMMA DividesSums ==
  ASSUME NEW g \in Int, NEW x \in Int, NEW y \in Int, NEW q \in Int, Divides(g, x), Divides(g, y)
  PROVE  Divides(g, q * y + x)
PROOF
<1>1. PICK k \in Int : x = k * g
  BY DEF Divides
<1>2. PICK l \in Int : y = l * g
  BY DEF Divides
<1>3. q * y = (q * l) * g /\ q * l \in Int
  BY <1>2, Sums
<1>4. q * y + x = (q * l + k) * g /\ q * l + k \in Int
  BY <1>1, <1>3, Sums
<1> QED
  BY <1>4 DEF Divides

LEMMA GcdsExist ==
  ASSUME NEW b \in Nat
  PROVE  \E f : f = [y \in 1 .. b |-> [x \in Nat |-> IF x % y = 0 THEN y ELSE f[x % y][y]]]
PROOF
<1> DEFINE Body(f, y) == [x \in Nat |-> IF x % y = 0 THEN y ELSE f[x % y][y]]
           S == {k \in Nat : \E f : f = [y \in 1 .. k |-> Body(f, y)]}
<1>1. 0 \in S
  <2> DEFINE f == [y \in 1 .. 0 |-> y]
  <2>1. f = [y \in 1 .. 0 |-> Body(f, y)]
    OBVIOUS
  <2> QED
    BY <2>1
<1>2. ASSUME NEW k \in Nat, k \in S
      PROVE  k + 1 \in S
  <2>1. PICK f : f = [y \in 1 .. k |-> Body(f, y)]
    BY <1>2
  <2> DEFINE h == [y \in 1 .. (k + 1) |-> IF y = k + 1 THEN Body(f, k + 1) ELSE f[y]]
  <2>2. ASSUME NEW y \in 1 .. (k + 1)
        PROVE  h[y] = Body(f, y)
    <3>1. CASE y = k + 1
      <4> HIDE DEF Body
      <4> QED
        BY <3>1
    <3>2. CASE y # k + 1
      <4>1. y \in 1 .. k /\ h[y] = f[y]
        BY <3>2
      <4> HIDE DEF Body, h
      <4> QED
        BY <2>1, <4>1
    <3> QED
      BY <3>1, <3>2
  <2>3. ASSUME NEW y \in 1 .. (k + 1), NEW x \in Nat, x % y # 0
        PROVE  h[x % y] = f[x % y]
    <3>1. x % y \in 1 .. k
      BY <2>3, DivMod
    <3> HIDE DEF Body
    <3> QED
      BY <3>1
  <2>4. \A y \in 1 .. (k + 1) : Body(f, y) = Body(h, y)
    <3> HIDE DEF h
    <3> QED
      BY <2>3
  <2>5. h = [y \in 1 .. (k + 1) |-> Body(h, y)]
    <3>1. h = [y \in 1 .. (k + 1) |-> h[y]]
      OBVIOUS
    <3> HIDE DEF h, Body
    <3> QED
      BY <2>2, <2>4, <3>1
  <2> HIDE DEF h, Body
  <2> QED
    BY <2>5
<1> HIDE DEF S
<1>3. Nat \subseteq S
  BY <1>1, <1>2, AllNumbers
<1> QED
  BY <1>3 DEF S

(* Euclid: the greatest common divisor divides both, and belongs to every  *)
(* set that has both and all remainders of its numbers.                    *)
LEMMA GcdIs ==
  ASSUME NEW a \in Nat, NEW b \in Nat \ {0}, NEW H, H \subseteq Nat, a \in H, b \in H,
         \A x, y \in H : y # 0 => x % y \in H
  PROVE  /\ gcd(a, b) \in H /\ gcd(a, b) # 0
         /\ Divides(gcd(a, b), a) /\ Divides(gcd(a, b), b)
PROOF
<1> DEFINE of == CHOOSE f : f = [y \in 1 .. b |-> [x \in Nat |-> IF x % y = 0 THEN y ELSE f[x % y][y]]]
<1>1. of = [y \in 1 .. b |-> [x \in Nat |-> IF x % y = 0 THEN y ELSE of[x % y][y]]]
  BY GcdsExist
<1>2. gcd(a, b) = of[b][a]
  BY DEF gcd
<1> HIDE DEF of
<1>3. ASSUME NEW y \in 1 .. b, NEW x \in Nat
      PROVE  of[y][x] = IF x % y = 0 THEN y ELSE of[x % y][y]
  <2>1. of[y] = [z \in Nat |-> IF z % y = 0 THEN y ELSE of[z % y][y]]
    BY <1>1
  <2> QED
    BY <2>1
<1> DEFINE Good(y, x) == of[y][x] \in H /\ of[y][x] # 0 /\ Divides(of[y][x], x) /\ Divides(of[y][x], y)
           P == {k \in Nat : \A y \in 1 .. b : y <= k => \A x \in Nat : x \in H /\ y \in H => Good(y, x)}
<1>4. 0 \in P
  OBVIOUS
<1>5. ASSUME NEW k \in Nat, k \in P
      PROVE  k + 1 \in P
  <2>1. ASSUME NEW y \in 1 .. b, y <= k + 1, NEW x \in Nat, x \in H, y \in H
        PROVE  Good(y, x)
    <3>4. x \div y \in Int /\ x % y \in 0 .. (y - 1) /\ x = (x \div y) * y + (x % y)
      <4>1. x \in Int /\ y \in Nat \ {0}
        OBVIOUS
      <4> QED
        BY <4>1, DivMod
    <3>1. CASE y <= k
      <4> HIDE DEF Good
      <4> QED
        BY <1>5, <2>1, <3>1
    <3>2. CASE y = k + 1 /\ x % y = 0
      <4>1. of[y][x] = y
        BY <1>3, <3>2
      <4>2. Divides(y, x)
        <5>1. x = (x \div y) * y /\ x \div y \in Int
          <6> DEFINE q == x \div y
          <6>1. q \in Int /\ x = q * y + 0 /\ q * y \in Int
            BY <3>4, <3>2
          <6> HIDE DEF q
          <6>2. x = q * y
            BY <6>1
          <6> QED
            BY <6>1, <6>2 DEF q
        <5> QED
          BY <5>1 DEF Divides
      <4>3. Divides(y, y)
        <5>1. y = 1 * y /\ 1 \in Int
          OBVIOUS
        <5> QED
          BY <5>1 DEF Divides
      <4> QED
        BY <2>1, <4>1, <4>2, <4>3
    <3>3. CASE y = k + 1 /\ x % y # 0
      <4> DEFINE r == x % y
      <4>1. r \in 1 .. b /\ r <= k /\ r \in H /\ x = (x \div y) * y + r /\ x \div y \in Int
        <5>1. r # 0 /\ r \in H
          BY <2>1, <3>3
        <5> HIDE DEF r
        <5>2. r \in 0 .. (y - 1) /\ x = (x \div y) * y + r /\ x \div y \in Int
          BY <3>4 DEF r
        <5> QED
          BY <3>3, <5>1, <5>2
      <4>2. of[y][x] = of[r][y]
        BY <1>3, <3>3
      <4> HIDE DEF r
      <4>3. y \in Nat
        OBVIOUS
      <4>4. Good(r, y)
        <5> HIDE DEF Good
        <5> QED
          BY <1>5, <2>1, <4>1, <4>3
      <4> DEFINE g == of[r][y]
      <4>5. g \in H /\ g # 0 /\ Divides(g, y) /\ Divides(g, r) /\ g \in Int
        <5>1. H \subseteq Int
          OBVIOUS
        <5> QED
          BY <4>4, <5>1
      <4> HIDE DEF g
      <4>6. Divides(g, (x \div y) * y + r)
        <5>1. r \in Int /\ y \in Int
          BY <4>1
        <5> QED
          BY <4>1, <4>5, <5>1, DividesSums
      <4>7. Divides(g, x)
        BY <4>1, <4>6
      <4> QED
        BY <4>2, <4>5, <4>7 DEF g
    <3> QED
      BY <2>1, <3>1, <3>2, <3>3
  <2> HIDE DEF Good
  <2> QED
    BY <2>1
<1> HIDE DEF P
<1>6. b \in P
  BY <1>4, <1>5, AllNumbers
<1>7. Good(b, a)
  <2> HIDE DEF Good
  <2> QED
    BY <1>6 DEF P
<1> QED
  BY <1>2, <1>7

(* The cycles come past every place: x is j exchanges from the begin of    *)
(* cycle i, counted modulo the length of the two blocks.                   *)
Reached(m, n, g, len) ==
  \A x \in 0 .. (m + n - 1) : \E i \in 0 .. (g - 1) : \E j \in 0 .. (len - 1) : \E w \in Int :
    x = m + i + j * n + w * (m + n)

LEMMA CyclesCover ==
  ASSUME NEW m \in Nat \ {0}, NEW n \in Nat \ {0}, NEW g, g = gcd(m, n), NEW L, L = (m + n) \div g
  PROVE  g \in 1 .. n /\ L \in Nat \ {0} /\ Reached(m, n, g, L)
PROOF
<1> DEFINE N == m + n  H == {d \in Nat : \E u, v \in Int : d = u * n + v * N}
<1>1. N \in Nat \ {0} /\ n \in Int /\ m \in Int /\ N \in Int /\ N = m + n /\ L = N \div g
  OBVIOUS
<1> HIDE DEF N
<1>2. m \in H
  <2>1. m = (-1) * n + 1 * N /\ -1 \in Int /\ 1 \in Int
    BY <1>1
  <2> QED
    BY <2>1
<1>3. n \in H
  <2>1. n = 1 * n + 0 * N /\ 0 \in Int /\ 1 \in Int
    BY <1>1
  <2> QED
    BY <2>1
<1>4. ASSUME NEW x \in H, NEW y \in H, y # 0
      PROVE  x % y \in H
  <2>1. PICK u \in Int, v \in Int : x = u * n + v * N
    OBVIOUS
  <2>2. PICK a \in Int, b \in Int : y = a * n + b * N
    OBVIOUS
  <2> DEFINE q == x \div y  r == x % y
  <2>3. x \in Int /\ y \in Nat \ {0} /\ y \in Int
    BY <1>4
  <2>4. q \in Int /\ r \in Nat /\ x = q * y + r
    <3>1. q \in Int /\ r \in 0 .. (y - 1) /\ x = q * y + r
      BY <2>3, DivMod
    <3> HIDE DEF q, r
    <3> QED
      BY <2>3, <3>1
  <2> HIDE DEF q, r
  <2>5. q * y = (q * a) * n + (q * b) * N /\ q * a \in Int /\ q * b \in Int
    <3>1. q * y = q * (a * n) + q * (b * N)
      <4>1. a * n \in Int /\ b * N \in Int
        BY <1>1, Sums
      <4> QED
        BY <2>2, <2>4, <4>1, Sums
    <3> QED
      BY <1>1, <2>4, <3>1, Sums
  <2>6. r = (u - q * a) * n + (v - q * b) * N /\ u - q * a \in Int /\ v - q * b \in Int
    <3> DEFINE c == q * a  d == q * b
    <3>1. c \in Int /\ d \in Int /\ r = (u * n + v * N) - (c * n + d * N)
      <4>1. u * n \in Int /\ v * N \in Int /\ c * n \in Int /\ d * N \in Int
        BY <1>1, <2>5, Sums
      <4> QED
        BY <2>1, <2>4, <2>5, <4>1
    <3> HIDE DEF c, d
    <3>2. r = (u - c) * n + (v - d) * N /\ u - c \in Int /\ v - d \in Int
      BY <1>1, <3>1, Sums
    <3> QED
      BY <3>2 DEF c, d
  <2>7. r \in H
    BY <2>4, <2>6
  <2> QED
    BY <2>7 DEF r
<1>5. /\ g \in H /\ g # 0 /\ Divides(g, m) /\ Divides(g, n)
  <2>1. H \subseteq Nat
    OBVIOUS
  <2> HIDE DEF H
  <2> QED
    BY <1>2, <1>3, <1>4, <2>1, GcdIs
<1>6. PICK u \in Int, v \in Int : g = u * n + v * N
  BY <1>5
<1>7. g \in Nat \ {0} /\ g \in Int
  BY <1>5
<1> HIDE DEF H
<1>8. PICK k \in Int : m = k * g
  BY <1>5 DEF Divides
<1>9. PICK l \in Int : n = l * g
  BY <1>5 DEF Divides
<1>10. g <= n
  <2>1. l >= 1
    <3>1. l <= 0 => l * g <= 0
      BY <1>7
    <3> QED
      BY <1>9, <3>1
  <2>2. l * g >= g
    BY <1>7, <2>1
  <2> QED
    BY <1>9, <2>2
<1>11. N = (k + l) * g /\ k + l \in Int
  BY <1>1, <1>7, <1>8, <1>9, Sums
<1>12. L = k + l /\ L \in Nat \ {0}
  <2>1. N = L * g + (N % g) /\ N % g \in 0 .. (g - 1) /\ L \in Int
    <3> HIDE DEF N
    <3>1. N \div g \in Int /\ N % g \in 0 .. (g - 1) /\ N = (N \div g) * g + (N % g)
      BY <1>1, <1>7, DivMod, Zenon
    <3> QED
      BY <1>1, <3>1, Zenon
  <2> DEFINE r == N % g
  <2>2. r = ((k + l) - L) * g /\ (k + l) - L \in Int
    <3>1. ((k + l) - L) * g = (k + l) * g - L * g /\ (k + l) * g \in Int /\ L * g \in Int
      <4> DEFINE s == k + l
      <4>1. s \in Int /\ L \in Int /\ g \in Int
        BY <1>7, <1>11, <2>1
      <4> HIDE DEF s
      <4>2. (s - L) * g = s * g - L * g /\ s * g \in Int /\ L * g \in Int
        BY <4>1, Sums
      <4> QED
        BY <4>2 DEF s
    <3> DEFINE a == (k + l) * g  b == L * g  c == ((k + l) - L) * g
    <3>2. c = a - b /\ a \in Int /\ b \in Int /\ N = a /\ N = b + r /\ r \in Int
      BY <1>11, <2>1, <3>1
    <3>3. (k + l) - L \in Int
      BY <2>1
    <3> HIDE DEF a, b, c, r
    <3>4. r = c
      BY <3>2
    <3> QED
      BY <3>3, <3>4 DEF c
  <2>3. (k + l) - L = 0
    <3> DEFINE d == (k + l) - L
    <3>1. r = d * g /\ d \in Int /\ r \in 0 .. (g - 1)
      BY <2>1, <2>2
    <3> HIDE DEF d, r
    <3>2. d >= 1 => d * g >= g
      BY <1>7, <3>1
    <3>3. d <= -1 => d * g <= -g
      BY <1>7, <3>1
    <3>4. d = 0
      BY <1>7, <3>1, <3>2, <3>3
    <3> QED
      BY <3>4 DEF d
  <2>4. L = k + l
    BY <2>1, <2>3
  <2>5. L <= 0 => L * g <= 0
    BY <1>7, <2>1, Signs
  <2>6. N = L * g
    BY <1>11, <2>4
  <2> QED
    BY <1>1, <2>1, <2>4, <2>5, <2>6
<1>13. N = L * g /\ L \in Int
  BY <1>11, <1>12
<1>14. L * n = l * N
  <2>1. L * n = (L * l) * g
    BY <1>7, <1>9, <1>13, Sums
  <2>2. l * N = (l * L) * g
    BY <1>7, <1>13, Sums
  <2>3. L * l = l * L
    BY <1>13, Sums
  <2> QED
    BY <2>1, <2>2, <2>3
<1>15. ASSUME NEW x \in 0 .. (N - 1)
       PROVE  \E i \in 0 .. (g - 1) : \E j \in 0 .. (L - 1) : \E w \in Int : x = m + i + j * n + w * N
  <2> DEFINE i == x % g  t == (x \div g) - k
  <2>1. i \in 0 .. (g - 1) /\ x = (x \div g) * g + i /\ x \div g \in Int
    <3>1. x \in Int
      OBVIOUS
    <3> QED
      BY <1>7, <3>1, DivMod
  <2>2. t \in Int /\ x = m + i + t * g
    <3> DEFINE p == x \div g
    <3>1. p \in Int /\ x = p * g + i
      BY <2>1
    <3> HIDE DEF p, i
    <3>2. p - k \in Int /\ (p - k) * g = p * g - k * g /\ p * g \in Int /\ k * g \in Int
      BY <1>7, <3>1, Sums
    <3>3. x = m + i + (p - k) * g
      <4> DEFINE a == p * g  b == k * g  c == (p - k) * g
      <4>1. a \in Int /\ b \in Int /\ c = a - b /\ x = a + i /\ m = b
        BY <1>8, <3>1, <3>2
      <4>2. i \in Int
        BY <2>1
      <4> HIDE DEF a, b, c
      <4>3. x = m + i + c
        BY <4>1, <4>2
      <4> QED
        BY <4>3 DEF c
    <3> QED
      BY <3>2, <3>3 DEF p
  <2> HIDE DEF i, t
  <2> DEFINE s == t * u  q == s \div L  j == s % L
  <2>3. t * g = s * n + (t * v) * N /\ s \in Int /\ t * v \in Int
    <3>1. u * n \in Int /\ v * N \in Int
      BY <1>1, Sums
    <3>2. t * (u * n + v * N) = t * (u * n) + t * (v * N)
      BY <2>2, <3>1, Sums
    <3> QED
      BY <1>1, <1>6, <2>2, <3>2, Sums
  <2> HIDE DEF s
  <2>4. s = q * L + j /\ j \in 0 .. (L - 1) /\ q \in Int
    BY <1>12, <2>3, DivMod
  <2> HIDE DEF q, j
  <2>5. s * n = (q * l) * N + j * n /\ q * l \in Int
    <3>1. j \in Int /\ q * L \in Int
      BY <1>13, <2>4, Sums
    <3>2. s * n = (q * L) * n + j * n
      BY <1>1, <2>4, <3>1, Sums
    <3>3. (q * L) * n = q * (L * n) /\ q * (l * N) = (q * l) * N
      BY <1>1, <1>13, <2>4, Sums
    <3> QED
      BY <1>14, <2>4, <3>2, <3>3, Sums
  <2> DEFINE w == q * l + t * v
  <2>6. w \in Int /\ (q * l) * N + (t * v) * N = w * N
    BY <1>1, <2>3, <2>5, Sums
  <2> HIDE DEF w
  <2>7. j \in Int /\ i \in Int /\ j * n \in Int /\ (q * l) * N \in Int /\ (t * v) * N \in Int /\ w * N \in Int
    BY <1>1, <2>1, <2>3, <2>4, <2>5, <2>6, Sums
  <2>8. x = m + i + j * n + w * N
    <3> DEFINE a == j * n  b == (q * l) * N  c == (t * v) * N  d == w * N  e == t * g  f == s * n
    <3>1. a \in Int /\ b \in Int /\ c \in Int /\ x = m + i + e /\ e = f + c /\ f = b + a /\ b + c = d
      BY <2>2, <2>3, <2>5, <2>6, <2>7
    <3> HIDE DEF a, b, c, d, e, f
    <3>2. x = m + i + a + d
      BY <1>1, <2>7, <3>1
    <3> QED
      BY <3>2 DEF a, d
  <2> QED
    BY <2>1, <2>4, <2>6, <2>8
<1>16. Reached(m, n, g, L)
  <2> SUFFICES ASSUME NEW x \in 0 .. (m + n - 1)
               PROVE  \E i \in 0 .. (g - 1) : \E j \in 0 .. (L - 1) : \E w \in Int : x = m + i + j * n + w * (m + n)
    BY DEF Reached
  <2>1. x \in 0 .. (N - 1)
    BY DEF N
  <2>2. \E i \in 0 .. (g - 1) : \E j \in 0 .. (L - 1) : \E w \in Int : x = m + i + j * n + w * N
    BY <1>15, <2>1
  <2> QED
    BY <2>2 DEF N
<1> QED
  BY <1>7, <1>10, <1>12, <1>16

(* The places of a cycle, and where they are. *)
LEMMA PlacesExist ==
  ASSUME NEW start, NEW end, NEW to, NEW c, NEW n \in Nat
  PROVE  \E f : f = [j \in 0 .. n |-> IF j = 0 THEN c ELSE Onward(start, end, to, f[j - 1])]
PROOF
<1> DEFINE Body(f, j) == IF j = 0 THEN c ELSE Onward(start, end, to, f[j - 1])
           S == {k \in Nat : \E f : f = [j \in 0 .. k |-> Body(f, j)]}
<1>1. 0 \in S
  <2> DEFINE f == [j \in 0 .. 0 |-> c]
  <2>1. f = [j \in 0 .. 0 |-> Body(f, j)]
    OBVIOUS
  <2> QED
    BY <2>1
<1>2. ASSUME NEW k \in Nat, k \in S
      PROVE  k + 1 \in S
  <2>1. PICK f : f = [j \in 0 .. k |-> Body(f, j)]
    BY <1>2
  <2> DEFINE h == [j \in 0 .. (k + 1) |-> IF j = k + 1 THEN Body(f, k + 1) ELSE f[j]]
  <2>2. ASSUME NEW j \in 0 .. (k + 1)
        PROVE  h[j] = Body(h, j)
    <3>1. CASE j = k + 1
      <4>1. h[j] = Body(f, j)
        BY <3>1
      <4>2. j # 0 => h[j - 1] = f[j - 1]
        BY <3>1
      <4> HIDE DEF h
      <4> QED
        BY <4>1, <4>2
    <3>2. CASE j # k + 1
      <4>1. j \in 0 .. k /\ h[j] = f[j] /\ (j # 0 => h[j - 1] = f[j - 1])
        BY <3>2
      <4>2. f[j] = Body(f, j)
        <5> HIDE DEF Body
        <5> QED
          BY <2>1, <4>1
      <4> HIDE DEF h
      <4> QED
        BY <4>1, <4>2
    <3> QED
      BY <3>1, <3>2
  <2>3. h = [j \in 0 .. (k + 1) |-> Body(h, j)]
    <3>1. h = [j \in 0 .. (k + 1) |-> h[j]]
      OBVIOUS
    <3> HIDE DEF h, Body
    <3> QED
      BY <2>2, <3>1
  <2> HIDE DEF h, Body
  <2> QED
    BY <2>3
<1> HIDE DEF S
<1>3. Nat \subseteq S
  BY <1>1, <1>2, AllNumbers
<1> QED
  BY <1>3 DEF S

LEMMA PlacesAre ==
  ASSUME NEW start \in Nat, NEW end \in Nat, NEW to \in Nat, start < end, end < to,
         NEW i \in 0 .. (to - end - 1), CycleLen(start, end, to) \in Nat,
         NEW j \in 0 .. CycleLen(start, end, to)
  PROVE  /\ Places(start, end, to, i)[j] \in start .. (to - 1)
         /\ \E w \in Int : Places(start, end, to, i)[j] = end + i + j * (to - end) + w * (to - start)
PROOF
<1> DEFINE len == CycleLen(start, end, to)  n == to - end  N == to - start
           pos == CHOOSE f : f = [k \in 0 .. len |-> IF k = 0 THEN CycleStart(end, i)
                                                     ELSE Onward(start, end, to, f[k - 1])]
<1>1. pos = [k \in 0 .. len |-> IF k = 0 THEN CycleStart(end, i) ELSE Onward(start, end, to, pos[k - 1])]
  <2> HIDE DEF len
  <2> QED
    BY PlacesExist DEF len
<1>2. Places(start, end, to, i) = pos
  BY DEF Places
<1> HIDE DEF pos, len
<1>3. len \in Nat /\ n \in Int /\ N \in Int
  BY DEF len
<1> HIDE DEF n, N
<1> DEFINE At(k) == pos[k] \in start .. (to - 1) /\ \E w \in Int : pos[k] = end + i + k * n + w * N
           P == {k \in Nat : k <= len => At(k)}
<1>4. 0 \in P
  <2>1. pos[0] = end + i
    BY <1>1, <1>3 DEF CycleStart
  <2>2. end + i = end + i + 0 * n + 0 * N /\ 0 \in Int /\ end + i \in start .. (to - 1)
    BY <1>3
  <2> QED
    BY <2>1, <2>2
<1>5. ASSUME NEW k \in Nat, k \in P
      PROVE  k + 1 \in P
  <2> SUFFICES ASSUME k + 1 <= len
               PROVE  At(k + 1)
    OBVIOUS
  <2>1. At(k)
    <3>1. k <= len
      BY <1>3
    <3> HIDE DEF At
    <3> QED
      BY <1>5, <3>1
  <2>2. PICK w \in Int : pos[k] = end + i + k * n + w * N
    BY <2>1
  <2>3. pos[k + 1] = Onward(start, end, to, pos[k])
    <3>1. k + 1 \in 0 .. len /\ k + 1 # 0 /\ (k + 1) - 1 = k
      BY <1>3
    <3> QED
      BY <1>1, <3>1
  <2> DEFINE p == pos[k]  q == pos[k + 1]
  <2>4. p \in start .. (to - 1) /\ p = end + i + k * n + w * N /\ q = Onward(start, end, to, p)
    BY <2>1, <2>2, <2>3
  <2> HIDE DEF p, q
  <2>5. (k + 1) * n = k * n + n /\ (w - 1) * N = w * N - N /\ w - 1 \in Int /\ k * n \in Int /\ w * N \in Int
    BY <1>3, Sums
  <2>6. CASE p < end
    <3>1. q = p + n /\ q \in start .. (to - 1)
      BY <2>4, <2>6 DEF Onward, n
    <3>2. q = end + i + (k + 1) * n + w * N
      BY <1>3, <2>4, <2>5, <3>1
    <3> QED
      BY <3>1, <3>2 DEF q
  <2>7. CASE p >= end
    <3>1. q = p - (end - start) /\ q \in start .. (to - 1)
      BY <2>4, <2>7 DEF Onward
    <3>2. end - start = N - n
      BY DEF N, n
    <3>3. q = end + i + (k + 1) * n + (w - 1) * N
      BY <1>3, <2>4, <2>5, <3>1, <3>2
    <3> QED
      BY <2>5, <3>1, <3>3 DEF q
  <2> QED
    BY <2>4, <2>6, <2>7
<1> HIDE DEF P, At
<1>6. At(j)
  <2>1. j \in Nat /\ j <= len /\ j \in P
    BY <1>3, <1>4, <1>5, AllNumbers DEF len
  <2> QED
    BY <2>1 DEF P
<1> QED
  BY <1>2, <1>6 DEF At, n, N

(* Two numbers of a range that differ by a multiple of its length. *)
LEMMA SameInRange ==
  ASSUME NEW N \in Nat \ {0}, NEW a \in Int, NEW x \in a .. (a + N - 1), NEW y \in a .. (a + N - 1),
         NEW w \in Int, x = y + w * N
  PROVE  x = y
PROOF
<1>1. w * N \in Int /\ x - y = w * N /\ x - y < N /\ x - y > -N
  BY Sums
<1>2. ~(w >= 1) /\ ~(w <= -1)
  BY <1>1, Signs
<1>3. w = 0
  BY <1>2
<1> QED
  BY <1>3

(* The blocks start .. end - 1 and end .. to - 1 change places, each in its *)
(* order. *)
THEOREM PermuteExchanges ==
  ASSUME NEW v, NEW start \in Nat, NEW end \in Nat, NEW to \in Nat,
         start < end, end < to, NEW k \in DOMAIN v, k \in Int
  PROVE  permute_args(v, start, end, to)[k] =
           IF k \in start .. (start + (to - end) - 1) THEN v[k + (end - start)]
           ELSE IF k \in (start + (to - end)) .. (to - 1) THEN v[k - (to - end)]
           ELSE v[k]
PROOF
<1> DEFINE m == end - start  n == to - end  N == to - start
           g == Cycles(start, end, to)  L == CycleLen(start, end, to)
           from == From(start, end, to, k)
<1>1. m \in Nat \ {0} /\ n \in Nat \ {0} /\ N = m + n /\ N \in Nat \ {0}
  OBVIOUS
<1>2. g = gcd(m, n) /\ L = N \div g
  BY DEF Cycles, CycleLen
<1>3. permute_args(v, start, end, to)[k] = IF from = {} THEN v[k] ELSE v[CHOOSE p \in from : TRUE]
  BY Permuted
<1> HIDE DEF m, n, N, g, L
<1>4. g \in 1 .. n /\ L \in Nat \ {0}
      /\ \A x \in 0 .. (N - 1) : \E i \in 0 .. (g - 1) : \E j \in 0 .. (L - 1) : \E w \in Int : x = m + i + j * n + w * N
  <2>1. g \in 1 .. n /\ L \in Nat \ {0} /\ Reached(m, n, g, L)
    BY <1>1, <1>2, CyclesCover
  <2> QED
    BY <1>1, <2>1 DEF Reached
<1>5. ASSUME NEW p \in start .. (to - 1)
      PROVE  \E i \in 0 .. (g - 1) : \E j \in 1 .. L : Places(start, end, to, i)[j - 1] = p
  <2>1. p - start \in 0 .. (N - 1)
    BY DEF N
  <2>2. PICK i \in 0 .. (g - 1) : \E j \in 0 .. (L - 1) : \E w \in Int : p - start = m + i + j * n + w * N
    BY <1>4, <2>1
  <2> PICK j \in 0 .. (L - 1) : \E w \in Int : p - start = m + i + j * n + w * N
    BY <2>2
  <2> PICK w \in Int : p - start = m + i + j * n + w * N
    OBVIOUS
  <2> DEFINE q == Places(start, end, to, i)[j]
  <2>3. q \in start .. (to - 1) /\ \E u \in Int : q = end + i + j * n + u * N
    <3>1. i \in 0 .. (n - 1) /\ j \in 0 .. L /\ L \in Nat
      BY <1>1, <1>4
    <3>2. i \in 0 .. (to - end - 1) /\ j \in 0 .. CycleLen(start, end, to) /\ CycleLen(start, end, to) \in Nat
      BY <3>1 DEF n, L
    <3>3. /\ Places(start, end, to, i)[j] \in start .. (to - 1)
          /\ \E u \in Int : Places(start, end, to, i)[j] = end + i + j * (to - end) + u * (to - start)
      BY <3>2, PlacesAre, Zenon
    <3> QED
      BY <3>3, Zenon DEF n, N
  <2>4. PICK u \in Int : q = end + i + j * n + u * N
    BY <2>3
  <2> HIDE DEF q
  <2>5. p = end + i + j * n + w * N
    <3> DEFINE a == j * n  b == w * N
    <3>1. a \in Int /\ b \in Int /\ p - start = m + i + a + b
      BY <1>1, Sums
    <3> HIDE DEF a, b
    <3>2. p = end + i + a + b
      BY <3>1 DEF m
    <3> QED
      BY <3>2 DEF a, b
  <2>6. p = q + (w - u) * N /\ w - u \in Int
    <3> DEFINE a == j * n  b == w * N  c == u * N
    <3>1. a \in Int /\ b \in Int /\ c \in Int /\ (w - u) * N = b - c
      BY <1>1, Sums
    <3>2. p = end + i + a + b /\ q = end + i + a + c
      BY <2>4, <2>5
    <3> HIDE DEF a, b, c
    <3>3. p = q + (b - c)
      BY <3>1, <3>2
    <3> QED
      BY <3>1, <3>3
  <2>7. start + N - 1 = to - 1
    BY DEF N
  <2>8. p = q
    <3>1. p \in start .. (start + N - 1) /\ q \in start .. (start + N - 1) /\ start \in Int
      BY <2>3, <2>7
    <3> QED
      BY <1>1, <2>6, <3>1, SameInRange
  <2>9. j + 1 \in 1 .. L /\ (j + 1) - 1 = j
    BY <1>4
  <2> QED
    BY <2>8, <2>9 DEF q
<1>6. \A p : p \in from <=> p \in start .. (to - 1) /\ Onward(start, end, to, p) = k
  BY <1>5 DEF From, g, L
<1> HIDE DEF from
<1>7. CASE k \in start .. (start + (to - end) - 1)
  <2>1. from = {k + (end - start)}
    BY <1>6, <1>7 DEF Onward
  <2> QED
    BY <1>3, <1>7, <2>1
<1>8. CASE k \in (start + (to - end)) .. (to - 1)
  <2>1. from = {k - (to - end)}
    BY <1>6, <1>8 DEF Onward
  <2>2. ~(k \in start .. (start + (to - end) - 1))
    BY <1>8
  <2> QED
    BY <1>3, <1>8, <2>1, <2>2
<1>9. CASE ~(k \in start .. (to - 1))
  <2>1. from = {}
    BY <1>6, <1>9 DEF Onward
  <2>2. ~(k \in start .. (start + (to - end) - 1)) /\ ~(k \in (start + (to - end)) .. (to - 1))
    BY <1>9
  <2> QED
    BY <1>3, <2>1, <2>2
<1> QED
  BY <1>7, <1>8, <1>9

-------------------------------------------------------------------------------
(* What a command line means, argument by argument. *)

Meaning == {HELP, LAZY, <<"?">>}

LEMMA MeaningsDiffer == HELP # LAZY /\ HELP # <<"?">> /\ LAZY # <<"?">>
PROOF
<1>1. Len(HELP) = 2 /\ Len(LAZY) = 2 /\ Len(<<"?">>) = 1 /\ HELP[1] = "h" /\ LAZY[1] = "l"
  BY DEF HELP, LAZY
<1> QED
  BY <1>1

LEMMA CountNone ==
  ASSUME NEW x
  PROVE  Count(<<>>, x) = 0
PROOF
<1>1. {i \in DOMAIN <<>> : <<>>[i] = x} = {}
  OBVIOUS
<1> QED
  BY <1>1, FS_EmptySet DEF Count

LEMMA CountNumber ==
  ASSUME NEW S, NEW s \in Seq(S), NEW x
  PROVE  Count(s, x) \in Nat /\ IsFiniteSet({i \in DOMAIN s : s[i] = x})
PROOF
<1>1. DOMAIN s = 1 .. Len(s) /\ Len(s) \in Nat
  OBVIOUS
<1>2. IsFiniteSet(1 .. Len(s))
  BY <1>1, FS_Interval
<1>3. {i \in DOMAIN s : s[i] = x} \subseteq 1 .. Len(s)
  BY <1>1
<1>4. IsFiniteSet({i \in DOMAIN s : s[i] = x})
  BY <1>2, <1>3, FS_Subset
<1> QED
  BY <1>4, FS_CardinalityType DEF Count

LEMMA CountNext ==
  ASSUME NEW S, NEW s \in Seq(S), NEW y \in S, NEW x
  PROVE  Count(Append(s, y), x) = Count(s, x) + (IF y = x THEN 1 ELSE 0)
PROOF
<1> DEFINE t == Append(s, y)  n == Len(s) + 1  A == {i \in DOMAIN s : s[i] = x}  B == {i \in DOMAIN t : t[i] = x}
<1>1. DOMAIN s = 1 .. Len(s) /\ Len(s) \in Nat
  OBVIOUS
<1>2. DOMAIN t = 1 .. n /\ t[n] = y /\ \A i \in 1 .. Len(s) : t[i] = s[i]
  OBVIOUS
<1> HIDE DEF t
<1>3. B = IF y = x THEN A \cup {n} ELSE A
  BY <1>1, <1>2
<1>4. n \notin A
  BY <1>1
<1>5. IsFiniteSet(A) /\ Cardinality(A) \in Nat
  BY CountNumber, FS_CardinalityType
<1> HIDE DEF A, B
<1>6. y = x => Cardinality(B) = Cardinality(A) + 1
  BY <1>3, <1>4, <1>5, FS_AddElement
<1>7. Cardinality(B) = Cardinality(A) + (IF y = x THEN 1 ELSE 0)
  BY <1>3, <1>5, <1>6
<1> QED
  BY <1>7 DEF Count, A, B, t

LEMMA CountPositive ==
  ASSUME NEW S, NEW s \in Seq(S), NEW x
  PROVE  Count(s, x) = 0 <=> \A i \in DOMAIN s : s[i] # x
PROOF
<1>1. IsFiniteSet({i \in DOMAIN s : s[i] = x})
  BY CountNumber
<1>2. Count(s, x) = 0 <=> {i \in DOMAIN s : s[i] = x} = {}
  BY <1>1, FS_EmptySet DEF Count
<1> QED
  BY <1>2

(* The first dash among the pieces behind the first. *)
FirstDash(arg) == SelectInSeq(Tail(arg), LAMBDA c : c = "-")

LEMMA FirstDashIs ==
  ASSUME NEW arg \in Word, Len(arg) > 1
  PROVE  /\ FirstDash(arg) \in 0 .. (Len(arg) - 1)
         /\ FirstDash(arg) = 0 => \A k \in 2 .. Len(arg) : arg[k] # "-"
         /\ FirstDash(arg) # 0 => /\ arg[FirstDash(arg) + 1] = "-"
                                  /\ \A k \in 2 .. FirstDash(arg) : arg[k] # "-"
PROOF
<1> DEFINE t == Tail(arg)  I == {i \in 1 .. Len(t) : t[i] = "-"}
<1>1. /\ arg # <<>> /\ arg \in Seq(Pieces)
      /\ t \in Seq(Pieces) /\ Len(t) = Len(arg) - 1 /\ \A i \in 1 .. Len(t) : t[i] = arg[i + 1]
  BY HeadTailProperties, EmptySeq DEF Word
<1>2. FirstDash(arg) = IF I # {} THEN Min(I) ELSE 0
  BY DEF FirstDash, SelectInSeq
<1>3. Len(arg) \in Nat /\ I \subseteq 1 .. Len(t) /\ I \subseteq Nat
  BY <1>1
<1>4. CASE I = {}
  <2>1. ASSUME NEW k \in 2 .. Len(arg)
        PROVE  arg[k] # "-"
    <3>1. k - 1 \in 1 .. Len(t) /\ (k - 1) + 1 = k
      BY <1>1, <1>3
    <3> QED
      BY <1>1, <1>4, <3>1
  <2> QED
    BY <1>2, <1>3, <1>4, <2>1
<1>5. CASE I # {}
  <2> DEFINE d == Min(I)
  <2>1. d \in I /\ \A m \in I : d <= m
    BY <1>3, <1>5, MinIsLeast
  <2> HIDE DEF d
  <2>2. d \in 1 .. (Len(arg) - 1) /\ arg[d + 1] = "-"
    BY <1>1, <1>3, <2>1
  <2>3. ASSUME NEW k \in 2 .. d
        PROVE  arg[k] # "-"
    <3>1. k - 1 \in 1 .. Len(t) /\ (k - 1) + 1 = k /\ ~(d <= k - 1)
      BY <1>1, <1>3, <2>2
    <3>2. k - 1 \notin I
      BY <2>1, <3>1
    <3> QED
      BY <1>1, <3>1, <3>2
  <2>4. FirstDash(arg) = d
    BY <1>2, <1>5 DEF d
  <2> QED
    BY <1>3, <2>2, <2>3, <2>4
<1> QED
  BY <1>4, <1>5

LEMMA NameMeansOne ==
  ASSUME NEW name
  PROVE  MeaningOfName(name) \in Meaning /\ (cmd = HELP => MeaningOfName(name) # LAZY)
PROOF
<1> DEFINE full == {n \in LongNames : IsPrefix(name, n)}
<1>1. LongNames \subseteq {HELP, LAZY} /\ (cmd = HELP => LongNames = {HELP})
  BY DEF LongNames
<1>2. CASE Contains(name, "=") \/ Cardinality(full) # 1
  BY <1>2, MeaningsDiffer DEF MeaningOfName, Meaning
<1>3. CASE ~(Contains(name, "=") \/ Cardinality(full) # 1)
  <2>1. full # {}
    BY <1>3, FS_EmptySet
  <2>2. MeaningOfName(name) = CHOOSE n \in LongNames : IsPrefix(name, n)
    BY <1>3 DEF MeaningOfName
  <2>3. \E n \in LongNames : IsPrefix(name, n)
    BY <2>1
  <2>4. MeaningOfName(name) \in LongNames
    BY <2>2, <2>3
  <2> QED
    BY <1>1, <2>4, MeaningsDiffer DEF Meaning
<1> QED
  BY <1>2, <1>3

LEMMA MeaningsAre ==
  ASSUME NEW arg \in Word, Len(arg) > 1
  PROVE  /\ Meanings(arg) \in Seq(Meaning)
         /\ Len(Meanings(arg)) = IF FirstDash(arg) = 0 THEN Len(arg) - 1 ELSE FirstDash(arg)
         /\ \A j \in 1 .. (Len(arg) - 1) : FirstDash(arg) = 0 \/ j < FirstDash(arg) =>
              Meanings(arg)[j] = IF arg[j + 1] = "h" THEN HELP ELSE <<"?">>
         /\ FirstDash(arg) # 0 =>
              Meanings(arg)[FirstDash(arg)] = MeaningOfName(SubSeq(arg, FirstDash(arg) + 2, Len(arg)))
PROOF
<1> DEFINE t == Tail(arg)  dash == FirstDash(arg)
           len == IF dash = 0 THEN Len(arg) - 1 ELSE dash - 1
           letters == SubSeq(t, 1, len)
           front == [i \in DOMAIN letters |-> IF letters[i] = "h" THEN HELP ELSE <<"?">>]
           name == MeaningOfName(SubSeq(arg, dash + 2, Len(arg)))
           back == IF dash = 0 THEN <<>> ELSE <<name>>
<1>1. /\ arg # <<>> /\ arg \in Seq(Pieces) /\ Len(arg) \in Nat
      /\ t \in Seq(Pieces) /\ Len(t) = Len(arg) - 1 /\ \A i \in 1 .. Len(t) : t[i] = arg[i + 1]
  BY HeadTailProperties, EmptySeq DEF Word
<1>2. dash \in 0 .. (Len(arg) - 1)
  BY FirstDashIs
<1>3. Meanings(arg) = front \o back
  BY DEF Meanings, FirstDash
<1>4. name \in Meaning
  BY NameMeansOne
<1> HIDE DEF name, t, dash
<1>5. len \in 0 .. (Len(arg) - 1)
  BY <1>1, <1>2
<1> HIDE DEF len
<1>6. DOMAIN letters = 1 .. len /\ \A i \in 1 .. len : letters[i] = arg[i + 1]
  <2>1. len <= Len(t) /\ len \in Nat
    BY <1>1, <1>5
  <2>2. letters \in Seq(Pieces) /\ Len(letters) = len /\ \A i \in 1 .. len : letters[i] = t[i]
    BY <1>1, <2>1
  <2> HIDE DEF letters
  <2>3. DOMAIN letters = 1 .. Len(letters)
    BY <2>2
  <2>4. \A i \in 1 .. len : i \in 1 .. Len(t)
    BY <2>1, <1>1
  <2> QED
    BY <1>1, <2>2, <2>3, <2>4
<1> HIDE DEF letters
<1>7. front \in Seq(Meaning) /\ Len(front) = len /\ \A i \in 1 .. len : front[i] = IF arg[i + 1] = "h" THEN HELP ELSE <<"?">>
  <2>1. \A i \in 1 .. len : front[i] = IF arg[i + 1] = "h" THEN HELP ELSE <<"?">>
    BY <1>6
  <2>2. \A i \in 1 .. len : front[i] \in Meaning
    BY <2>1 DEF Meaning
  <2>3. front = [i \in 1 .. len |-> front[i]]
    BY <1>6
  <2>4. len \in Nat
    BY <1>5
  <2> HIDE DEF front
  <2>5. front \in Seq(Meaning) /\ Len(front) = len
    BY <2>2, <2>3, <2>4, IsASeq
  <2> QED
    BY <2>1, <2>5
<1> HIDE DEF front
<1>8. back \in Seq(Meaning) /\ Len(back) = (IF dash = 0 THEN 0 ELSE 1) /\ (dash # 0 => back[1] = name)
  BY <1>4
<1> HIDE DEF back
<1>9. /\ front \o back \in Seq(Meaning) /\ Len(front \o back) = Len(front) + Len(back)
      /\ \A i \in 1 .. Len(front) + Len(back) :
           (front \o back)[i] = IF i <= Len(front) THEN front[i] ELSE back[i - Len(front)]
  BY <1>7, <1>8, ConcatProperties
<1> DEFINE M == front \o back
<1>10. Len(M) = IF dash = 0 THEN Len(arg) - 1 ELSE dash
  BY <1>1, <1>2, <1>7, <1>8, <1>9 DEF len
<1>11. ASSUME NEW j \in 1 .. (Len(arg) - 1), dash = 0 \/ j < dash
       PROVE  M[j] = IF arg[j + 1] = "h" THEN HELP ELSE <<"?">>
  <2>1. j \in 1 .. len
    BY <1>1, <1>2, <1>11 DEF len
  <2>2. j \in 1 .. Len(front) + Len(back) /\ j <= Len(front)
    BY <1>5, <1>7, <1>8, <2>1
  <2> QED
    BY <1>7, <1>9, <2>1, <2>2
<1>12. ASSUME dash # 0
       PROVE  M[dash] = name
  <2>1. len = dash - 1
    BY <1>12 DEF len
  <2>2. dash \in 1 .. Len(front) + Len(back) /\ ~(dash <= Len(front)) /\ dash - Len(front) = 1
    BY <1>2, <1>7, <1>8, <1>12, <2>1
  <2> QED
    BY <1>8, <1>9, <1>12, <2>2
<1> HIDE DEF M
<1>13. Meanings(arg) = M /\ M \in Seq(Meaning)
  BY <1>3, <1>9 DEF M
<1> QED
  BY <1>10, <1>11, <1>12, <1>13 DEF dash, name

-------------------------------------------------------------------------------
(* What the first arguments mean, one after the other. *)

LEMMA OthersAre ==
  ASSUME NEW line \in Seq(Word), NEW n \in 0 .. Len(line)
  PROVE  /\ Others(line, 0) = <<>>
         /\ Others(line, n) \in Seq(Word)
         /\ n < Len(line) =>
              Others(line, n + 1) = Others(line, n) \o (IF IsOption(line[n + 1]) THEN <<>> ELSE <<line[n + 1]>>)
PROOF
<1> DEFINE b == [i \in 1 .. Len(line) |-> IF IsOption(line[i]) THEN <<>> ELSE <<line[i]>>]
<1>1. /\ \A i \in 1 .. Len(line) : b[i] = (IF IsOption(line[i]) THEN <<>> ELSE <<line[i]>>)
      /\ \A i \in 1 .. Len(line) : b[i] \in Seq(Word)
  <2>1. ASSUME NEW i \in 1 .. Len(line)
        PROVE  (IF IsOption(line[i]) THEN <<>> ELSE <<line[i]>>) \in Seq(Word)
    <3>1. line[i] \in Word
      BY ElementOfSeq
    <3> QED
      BY <3>1
  <2> QED
    BY <2>1
<1>2. ASSUME NEW m \in 0 .. Len(line)
      PROVE  [i \in 1 .. m |-> IF IsOption(line[i]) THEN <<>> ELSE <<line[i]>>] = [i \in 1 .. m |-> b[i]]
  OBVIOUS
<1> HIDE DEF b
<1>3. \A m \in 0 .. Len(line) : Others(line, m) = FlattenSeq([i \in 1 .. m |-> b[i]])
  BY <1>2 DEF Others
<1>0. Len(line) \in Nat /\ n \in Nat /\ n <= Len(line) /\ 0 \in 0 .. Len(line)
  OBVIOUS
<1>4. Others(line, 0) = <<>>
  <2>1. Others(line, 0) = FlattenSeq([i \in 1 .. 0 |-> b[i]])
    BY <1>0, <1>3
  <2> QED
    BY <2>1, FlatNone
<1>5. Others(line, n) \in Seq(Word)
  <2>1. [i \in 1 .. n |-> b[i]] \in Seq(Seq(Word))
    <3>1. \A i \in 1 .. n : b[i] \in Seq(Word)
      BY <1>0, <1>1
    <3> QED
      BY <1>0, <3>1, IsASeq
  <2> QED
    BY <1>3, <2>1, FlatType
<1>6. ASSUME n < Len(line)
      PROVE  Others(line, n + 1) = Others(line, n) \o b[n + 1]
  <2>1. \A i \in 1 .. (n + 1) : b[i] \in Seq(Word)
    BY <1>0, <1>1, <1>6
  <2>2. FlattenSeq([i \in 1 .. (n + 1) |-> b[i]]) = FlattenSeq([i \in 1 .. n |-> b[i]]) \o b[n + 1]
    BY <1>0, <2>1, FlatNext
  <2>3. n + 1 \in 0 .. Len(line) /\ n \in 0 .. Len(line)
    BY <1>0, <1>6
  <2> QED
    BY <1>3, <2>2, <2>3
<1>7. n < Len(line) => n + 1 \in 1 .. Len(line)
  BY <1>0
<1> QED
  BY <1>1, <1>4, <1>5, <1>6, <1>7

LEMMA OptionsAre ==
  ASSUME NEW line \in Seq(Word), NEW n \in 0 .. Len(line)
  PROVE  /\ Options(line, 0) = <<>>
         /\ Options(line, n) \in Seq(Meaning)
         /\ n < Len(line) =>
              Options(line, n + 1) = Options(line, n) \o (IF IsOption(line[n + 1]) THEN Meanings(line[n + 1]) ELSE <<>>)
PROOF
<1> DEFINE b == [i \in 1 .. Len(line) |-> IF IsOption(line[i]) THEN Meanings(line[i]) ELSE <<>>]
<1>1. /\ \A i \in 1 .. Len(line) : b[i] = (IF IsOption(line[i]) THEN Meanings(line[i]) ELSE <<>>)
      /\ \A i \in 1 .. Len(line) : b[i] \in Seq(Meaning)
  <2>1. ASSUME NEW i \in 1 .. Len(line), IsOption(line[i])
        PROVE  Meanings(line[i]) \in Seq(Meaning)
    <3>1. line[i] \in Word /\ Len(line[i]) > 1
      BY <2>1, ElementOfSeq DEF IsOption
    <3> QED
      BY <3>1, MeaningsAre
  <2> QED
    BY <2>1
<1>2. ASSUME NEW m \in 0 .. Len(line)
      PROVE  [i \in 1 .. m |-> IF IsOption(line[i]) THEN Meanings(line[i]) ELSE <<>>] = [i \in 1 .. m |-> b[i]]
  OBVIOUS
<1> HIDE DEF b
<1>3. \A m \in 0 .. Len(line) : Options(line, m) = FlattenSeq([i \in 1 .. m |-> b[i]])
  BY <1>2 DEF Options
<1>0. Len(line) \in Nat /\ n \in Nat /\ n <= Len(line) /\ 0 \in 0 .. Len(line)
  OBVIOUS
<1>4. Options(line, 0) = <<>>
  <2>1. Options(line, 0) = FlattenSeq([i \in 1 .. 0 |-> b[i]])
    BY <1>0, <1>3
  <2> QED
    BY <2>1, FlatNone
<1>5. Options(line, n) \in Seq(Meaning)
  <2>1. [i \in 1 .. n |-> b[i]] \in Seq(Seq(Meaning))
    <3>1. \A i \in 1 .. n : b[i] \in Seq(Meaning)
      BY <1>0, <1>1
    <3> QED
      BY <1>0, <3>1, IsASeq
  <2> QED
    BY <1>3, <2>1, FlatType
<1>6. ASSUME n < Len(line)
      PROVE  Options(line, n + 1) = Options(line, n) \o b[n + 1]
  <2>1. \A i \in 1 .. (n + 1) : b[i] \in Seq(Meaning)
    BY <1>0, <1>1, <1>6
  <2>2. FlattenSeq([i \in 1 .. (n + 1) |-> b[i]]) = FlattenSeq([i \in 1 .. n |-> b[i]]) \o b[n + 1]
    BY <1>0, <2>1, FlatNext
  <2>3. n + 1 \in 0 .. Len(line) /\ n \in 0 .. Len(line)
    BY <1>0, <1>6
  <2> QED
    BY <1>3, <2>2, <2>3
<1>7. n < Len(line) => n + 1 \in 1 .. Len(line)
  BY <1>0
<1> QED
  BY <1>1, <1>4, <1>5, <1>6, <1>7

(* What ends the options of a line. *)
Ends(arg) == IF posixly_correct THEN ~IsOption(arg) ELSE arg = DashDash

LEMMA OptionsEndIs ==
  ASSUME NEW line \in Seq(Word), NEW n \in 0 .. Len(line), \A k \in 1 .. n : ~Ends(line[k]),
         n = Len(line) \/ Ends(line[n + 1])
  PROVE  OptionsEnd(line) = n
PROOF
<1> DEFINE I == {i \in 1 .. Len(line) : Ends(line[i])}
           stop == IF I # {} THEN Min(I) ELSE 0
<1>1. OptionsEnd(line) = IF stop = 0 THEN Len(line) ELSE stop - 1
  BY DEF OptionsEnd, SelectInSeq, Ends
<1>2. Len(line) \in Nat /\ I \subseteq Nat /\ I \subseteq 1 .. Len(line)
  OBVIOUS
<1>3. CASE n = Len(line)
  <2>1. I = {}
    BY <1>3
  <2> QED
    BY <1>1, <1>3, <2>1
<1>4. CASE n < Len(line) /\ Ends(line[n + 1])
  <2>1. n + 1 \in I
    BY <1>2, <1>4
  <2>2. Min(I) \in I /\ Min(I) <= n + 1
    BY <1>2, <2>1, MinIsLeast
  <2>3. ~(Min(I) <= n)
    BY <1>2, <2>2
  <2>4. Min(I) = n + 1
    BY <1>2, <2>2, <2>3
  <2>5. stop = n + 1
    BY <2>1, <2>4
  <2> HIDE DEF stop
  <2> QED
    BY <1>1, <2>5
<1> QED
  BY <1>2, <1>3, <1>4

LEMMA MinIs ==
  ASSUME NEW a \in Nat, NEW b \in Nat
  PROVE  Min({a, b}) = IF a <= b THEN a ELSE b
PROOF
<1>1. Min({a, b}) \in {a, b} /\ \A m \in {a, b} : Min({a, b}) <= m
  BY MinIsLeast
<1> QED
  BY <1>1

(* One more option, taken or refused. *)
LEMMA AmountsNext ==
  ASSUME ProgramInv, ParseTypes, pc \in Parsing, NEW seen \in Seq(Meaning), NEW more \in Nat, Amounts(seen, more),
         NEW m \in Meaning,
         \/ m = HELP /\ ScanOrError(HELP_OPT, <<>>)
         \/ m = LAZY /\ cmd # HELP /\ ScanOrError(LAZY_OPT, <<>>)
         \/ /\ m = <<"?">> /\ UNCHANGED found
            /\ \E error \in Err : errors' = arg_register_error(error)
  PROVE  /\ AmountTo(found', errors', cmd, Append(seen, m), more)
         /\ found'[1] = found[1] /\ found'[CMD_NAME] = found[CMD_NAME]
PROOF
<1> DEFINE h == Count(seen, HELP)  l == Count(seen, LAZY)  q == Count(seen, <<"?">>)
           now == Append(seen, m)
           total == q + Excess(h, 1) + Excess(l, 1) + more
<1>1. h \in Nat /\ l \in Nat /\ q \in Nat
  BY CountNumber
<1>2. /\ Count(now, HELP) = h + (IF m = HELP THEN 1 ELSE 0)
      /\ Count(now, LAZY) = l + (IF m = LAZY THEN 1 ELSE 0)
      /\ Count(now, <<"?">>) = q + (IF m = <<"?">> THEN 1 ELSE 0)
  <2>1. \A x : Count(now, x) = Count(seen, x) + (IF m = x THEN 1 ELSE 0)
    BY CountNext
  <2> QED
    BY <2>1
<1>3. /\ Len(found[3]) = Min({1, h})
      /\ IF cmd = HELP THEN l = 0 ELSE Len(found[4]) = Min({1, l})
      /\ Len(errors) = Min({MaxErrors, total})
  BY DEF Amounts, AmountTo, HELP_OPT, LAZY_OPT
<1> HIDE DEF h, l, q, now
<1>4. \A n \in Nat : Excess(n, 1) \in Nat /\ Excess(n + 1, 1) = IF n = 0 THEN 0 ELSE Excess(n, 1) + 1
  BY DEF Excess
<1>5. total \in Nat /\ MaxErrors \in Nat \ {0}
  <2>1. Excess(h, 1) \in Nat /\ Excess(l, 1) \in Nat
    BY <1>1, <1>4
  <2> QED
    BY <1>1, <2>1, RoomForErrors
<1>6. /\ DOMAIN table = 1 .. Len(table) /\ Len(table) = (IF cmd = HELP THEN 3 ELSE 4)
      /\ table[3].maxcount = 1 /\ (cmd # HELP => table[4].maxcount = 1)
  BY TableIs DEF arg_litn
<1>7. found \in [DOMAIN table -> Seq(Word)] /\ errors \in Seq(Err)
  BY DEF ParseTypes
<1>8. ASSUME NEW error \in Err
      PROVE  Len(arg_register_error(error)) = Min({MaxErrors, total + 1})
  <2>1. Len(arg_register_error(error)) = IF Len(errors) < MaxErrors THEN Len(errors) + 1 ELSE Len(errors)
    BY <1>7, RegisterKeepsErrors
  <2>2. Len(errors) = IF MaxErrors <= total THEN MaxErrors ELSE total
    BY <1>3, <1>5, MinIs
  <2>3. Min({MaxErrors, total + 1}) = IF MaxErrors <= total + 1 THEN MaxErrors ELSE total + 1
    BY <1>5, MinIs
  <2> HIDE DEF total
  <2> QED
    BY <1>5, <2>1, <2>2, <2>3
<1>9. \A n \in Nat : Min({1, n}) = IF n = 0 THEN 0 ELSE 1
  BY MinIs
<1>10. ASSUME NEW i \in {3, 4}, i \in DOMAIN table, NEW n \in Nat, Len(found[i]) = Min({1, n}), ScanOrError(i, <<>>),
              table[i].maxcount = 1
       PROVE  /\ Len(found'[i]) = Min({1, n + 1})
              /\ \A j \in DOMAIN table : j # i => found'[j] = found[j]
              /\ Len(errors') = Min({MaxErrors, total + (IF n = 0 THEN 0 ELSE 1)})
  <2>1. Len(found[i]) = (IF n = 0 THEN 0 ELSE 1) /\ Min({1, n + 1}) = 1
    BY <1>9, <1>10
  <2>2. HasRoom(i) <=> n = 0
    BY <1>10, <2>1 DEF HasRoom
  <2>3. CASE n = 0
    <3>1. found' = [found EXCEPT ![i] = Append(@, <<>>)] /\ errors' = errors
      BY <1>10, <2>2, <2>3 DEF ScanOrError, Scan
    <3>2. <<>> \in Word /\ found[i] \in Seq(Word)
      BY <1>7, <1>10, EmptySeq DEF Word
    <3>3. found'[i] = Append(found[i], <<>>) /\ \A j \in DOMAIN table : j # i => found'[j] = found[j]
      BY <1>7, <1>10, <3>1
    <3>4. Len(found'[i]) = 1
      BY <2>1, <2>3, <3>2, <3>3, AppendProperties
    <3> HIDE DEF total
    <3> QED
      BY <1>3, <1>5, <2>1, <2>3, <3>1, <3>3, <3>4
  <2>4. CASE n # 0
    <3>1. found' = found /\ errors' = arg_register_error(Error("MAXCOUNT", i))
      BY <1>10, <2>2, <2>4 DEF ScanOrError
    <3>2. Error("MAXCOUNT", i) \in Err
      BY <1>10, ErrorIsErr DEF Kind
    <3> HIDE DEF total
    <3> QED
      BY <1>8, <2>1, <2>4, <3>1, <3>2
  <2> QED
    BY <2>3, <2>4
<1>11. /\ AmountTo(found', errors', cmd, now, more) <=>
            /\ Len(found'[3]) = Min({1, Count(now, HELP)})
            /\ IF cmd = HELP THEN Count(now, LAZY) = 0 ELSE Len(found'[4]) = Min({1, Count(now, LAZY)})
            /\ Len(errors') = Min({MaxErrors, Count(now, <<"?">>) + Excess(Count(now, HELP), 1)
                                              + Excess(Count(now, LAZY), 1) + more})
       /\ HELP_OPT = 3 /\ LAZY_OPT = 4 /\ CMD_NAME = 2
  BY DEF AmountTo, HELP_OPT, LAZY_OPT, CMD_NAME
<1>12. CASE m = HELP /\ ScanOrError(HELP_OPT, <<>>)
  <2>1. Count(now, HELP) = h + 1 /\ Count(now, LAZY) = l /\ Count(now, <<"?">>) = q
    BY <1>1, <1>2, <1>12, MeaningsDiffer
  <2>6. 3 \in DOMAIN table /\ table[3].maxcount = 1
    BY <1>6
  <2>2. /\ Len(found'[3]) = Min({1, h + 1}) /\ \A j \in DOMAIN table : j # 3 => found'[j] = found[j]
        /\ Len(errors') = Min({MaxErrors, total + (IF h = 0 THEN 0 ELSE 1)})
    BY <1>1, <1>3, <1>10, <1>11, <1>12, <2>6
  <2>5. Excess(h, 1) \in Nat /\ Excess(l, 1) \in Nat /\ Excess(h + 1, 1) = IF h = 0 THEN 0 ELSE Excess(h, 1) + 1
    BY <1>1, <1>4
  <2>3. total + (IF h = 0 THEN 0 ELSE 1) = q + Excess(h + 1, 1) + Excess(l, 1) + more
    <3>1. h = 0 => Excess(h, 1) = 0
      BY DEF Excess
    <3> QED
      BY <1>1, <2>5, <3>1
  <2>4. 1 \in DOMAIN table /\ 2 \in DOMAIN table /\ (cmd # HELP => 4 \in DOMAIN table)
    BY <1>6
  <2>7. /\ IF cmd = HELP THEN l = 0 ELSE Len(found'[4]) = Min({1, l})
        /\ found'[1] = found[1] /\ found'[2] = found[2]
    BY <1>3, <2>2, <2>4
  <2>8. AmountTo(found', errors', cmd, now, more)
    <3> HIDE DEF total
    <3> QED
      BY <1>11, <2>1, <2>2, <2>3, <2>7
  <2> QED
    BY <1>11, <2>7, <2>8 DEF now
<1>13. CASE m = LAZY /\ cmd # HELP /\ ScanOrError(LAZY_OPT, <<>>)
  <2>1. Count(now, HELP) = h /\ Count(now, LAZY) = l + 1 /\ Count(now, <<"?">>) = q
    BY <1>1, <1>2, <1>13, MeaningsDiffer
  <2>6. 4 \in DOMAIN table /\ table[4].maxcount = 1
    BY <1>6, <1>13
  <2>2. /\ Len(found'[4]) = Min({1, l + 1}) /\ \A j \in DOMAIN table : j # 4 => found'[j] = found[j]
        /\ Len(errors') = Min({MaxErrors, total + (IF l = 0 THEN 0 ELSE 1)})
    BY <1>1, <1>3, <1>10, <1>11, <1>13, <2>6
  <2>5. Excess(h, 1) \in Nat /\ Excess(l, 1) \in Nat /\ Excess(l + 1, 1) = IF l = 0 THEN 0 ELSE Excess(l, 1) + 1
    BY <1>1, <1>4
  <2>3. total + (IF l = 0 THEN 0 ELSE 1) = q + Excess(h, 1) + Excess(l + 1, 1) + more
    <3>1. l = 0 => Excess(l, 1) = 0
      BY DEF Excess
    <3> QED
      BY <1>1, <2>5, <3>1
  <2>4. 1 \in DOMAIN table /\ 2 \in DOMAIN table /\ 3 \in DOMAIN table
    BY <1>6
  <2>7. /\ Len(found'[3]) = Min({1, h})
        /\ found'[1] = found[1] /\ found'[2] = found[2]
    BY <1>3, <2>2, <2>4
  <2>8. AmountTo(found', errors', cmd, now, more)
    <3> HIDE DEF total
    <3> QED
      BY <1>11, <1>13, <2>1, <2>2, <2>3, <2>7
  <2> QED
    BY <1>11, <2>7, <2>8 DEF now
<1>14. CASE m = <<"?">> /\ UNCHANGED found /\ \E error \in Err : errors' = arg_register_error(error)
  <2>1. Count(now, HELP) = h /\ Count(now, LAZY) = l /\ Count(now, <<"?">>) = q + 1
    BY <1>1, <1>2, <1>14, MeaningsDiffer
  <2>2. Len(errors') = Min({MaxErrors, total + 1})
    BY <1>8, <1>14
  <2>4. Excess(h, 1) \in Nat /\ Excess(l, 1) \in Nat
    BY <1>1, <1>4
  <2>3. total + 1 = (q + 1) + Excess(h, 1) + Excess(l, 1) + more
    BY <1>1, <2>4
  <2> HIDE DEF total
  <2> QED
    BY <1>3, <1>11, <1>14, <2>1, <2>2, <2>3 DEF now
<1> QED
  BY <1>12, <1>13, <1>14
-------------------------------------------------------------------------------
(* Long options. *)

LEMMA PrefixOfNames == IsPrefix(HELP, HELP) /\ IsPrefix(LAZY, LAZY) /\ ~IsPrefix(HELP, LAZY) /\ ~IsPrefix(LAZY, HELP)
PROOF
<1>1. Len(HELP) = 2 /\ Len(LAZY) = 2 /\ HELP[1] = "h" /\ LAZY[1] = "l"
  BY DEF HELP, LAZY
<1>2. HELP \in Seq({"h", "elp"}) /\ LAZY \in Seq({"l", "azy"})
  BY DEF HELP, LAZY
<1>3. SubSeq(HELP, 1, 2) = HELP /\ SubSeq(LAZY, 1, 2) = LAZY
  BY <1>1, <1>2, SubSeqFull
<1> QED
  BY <1>1, <1>3, MeaningsDiffer DEF IsPrefix

(* The entry that parse_long_options finds is the one the name means. *)
LEMMA MatchIsMeant ==
  ASSUME ProgramInv, ParseTypes, pc \in Parsing, NEW text \in Word, NEW has_equal, has_equal = Contains(text, "="),
         NEW name, ~has_equal => name = text,
         NEW matches, matches = matching_options(name, alloc_longoptions(table))
  PROVE  IF is_long_option(matches, has_equal)
         THEN \/ matches = {HELP_OPT} /\ MeaningOfName(text) = HELP
              \/ matches = {LAZY_OPT} /\ MeaningOfName(text) = LAZY /\ cmd # HELP
         ELSE MeaningOfName(text) = <<"?">>
PROOF
<1> DEFINE names == alloc_longoptions(table)
           full == {n \in LongNames : IsPrefix(text, n)}
           ph == IsPrefix(text, HELP)
           pl == cmd # HELP /\ IsPrefix(text, LAZY)
<1>1. CASE has_equal
  BY <1>1 DEF is_long_option, MeaningOfName
<1>2. CASE ~has_equal
  <2>1. /\ DOMAIN names = (IF cmd = HELP THEN {3} ELSE {3, 4})
        /\ names[3] = HELP /\ (cmd # HELP => names[4] = LAZY)
    BY NamesAre
  <2>2. LongNames = (IF cmd = HELP THEN {HELP} ELSE {HELP, LAZY})
    BY DEF LongNames
  <2>3. matches = matching_options(text, names)
    BY <1>2
  <2> HIDE DEF names
  <2>4. matches = {i \in DOMAIN names : IsPrefix(text, names[i])}
    <3>1. CASE ~\E i \in DOMAIN names : names[i] = text
      BY <2>3, <3>1 DEF matching_options
    <3>2. CASE text = HELP
      <4>1. \E i \in DOMAIN names : names[i] = text
        BY <2>1, <3>2
      <4>2. (CHOOSE i \in DOMAIN names : names[i] = text) = 3
        BY <2>1, <3>2, MeaningsDiffer
      <4>3. matches = {3}
        BY <2>3, <4>1, <4>2 DEF matching_options
      <4> QED
        BY <2>1, <3>2, <4>3, PrefixOfNames
    <3>3. CASE text = LAZY /\ cmd # HELP
      <4>1. \E i \in DOMAIN names : names[i] = text
        BY <2>1, <3>3
      <4>2. (CHOOSE i \in DOMAIN names : names[i] = text) = 4
        BY <2>1, <3>3, MeaningsDiffer
      <4>3. matches = {4}
        BY <2>3, <4>1, <4>2 DEF matching_options
      <4> QED
        BY <2>1, <3>3, <4>3, PrefixOfNames
    <3> QED
      BY <2>1, <3>1, <3>2, <3>3
  <2>5. matches = (IF ph THEN {3} ELSE {}) \cup (IF pl THEN {4} ELSE {})
    BY <2>1, <2>4
  <2>6. full = (IF ph THEN {HELP} ELSE {}) \cup (IF pl THEN {LAZY} ELSE {})
    BY <2>2
  <2>7. MeaningOfName(text) = IF Cardinality(full) # 1 THEN <<"?">> ELSE CHOOSE n \in LongNames : IsPrefix(text, n)
    BY <1>2 DEF MeaningOfName
  <2>8. is_long_option(matches, has_equal) <=> Cardinality(matches) = 1
    BY <1>2 DEF is_long_option
  <2>9. /\ Cardinality({3}) = 1 /\ Cardinality({4}) = 1 /\ Cardinality({}) = 0 /\ Cardinality({3, 4}) # 1
        /\ Cardinality({HELP}) = 1 /\ Cardinality({LAZY}) = 1 /\ Cardinality({HELP, LAZY}) # 1
    <3>1. ASSUME NEW x, NEW y, x # y
          PROVE  Cardinality({x} \cup {y}) = 2
      <4>1. IsFiniteSet({x}) /\ Cardinality({x}) = 1 /\ y \notin {x}
        BY <3>1, FS_Singleton
      <4> QED
        BY <4>1, FS_AddElement
    <3>2. {3} \cup {4} = {3, 4} /\ {HELP} \cup {LAZY} = {HELP, LAZY}
      OBVIOUS
    <3>3. Cardinality({3, 4}) = 2
      <4>1. 3 # 4
        OBVIOUS
      <4>2. Cardinality({3} \cup {4}) = 2
        BY <3>1, <4>1, Zenon
      <4> QED
        BY <3>2, <4>2, Zenon
    <3>4. Cardinality({HELP, LAZY}) = 2
      <4>1. Cardinality({HELP} \cup {LAZY}) = 2
        BY <3>1, MeaningsDiffer
      <4> QED
        BY <3>2, <4>1, Zenon
    <3>5. Cardinality({}) = 0
      BY FS_EmptySet
    <3>6. Cardinality({3}) = 1 /\ Cardinality({4}) = 1 /\ Cardinality({HELP}) = 1 /\ Cardinality({LAZY}) = 1
      BY FS_Singleton, Zenon
    <3>7. 2 # 1
      OBVIOUS
    <3> QED
      BY <3>3, <3>4, <3>5, <3>6, <3>7, Zenon
  <2>10. CASE ph /\ ~pl
    <3>1. matches = {3} /\ full = {HELP}
      BY <2>5, <2>6, <2>10
    <3>2. (CHOOSE n \in LongNames : IsPrefix(text, n)) = HELP
      BY <2>2, <2>10
    <3> QED
      BY <2>7, <2>8, <2>9, <3>1, <3>2 DEF HELP_OPT
  <2>11. CASE ~ph /\ pl
    <3>1. matches = {4} /\ full = {LAZY}
      BY <2>5, <2>6, <2>11
    <3>2. (CHOOSE n \in LongNames : IsPrefix(text, n)) = LAZY
      BY <2>2, <2>11
    <3> QED
      BY <2>7, <2>8, <2>9, <2>11, <3>1, <3>2 DEF LAZY_OPT
  <2>12. CASE ph /\ pl
    <3>1. matches = {3, 4} /\ full = {HELP, LAZY}
      BY <2>5, <2>6, <2>12
    <3> QED
      BY <2>7, <2>8, <2>9, <3>1
  <2>13. CASE ~ph /\ ~pl
    <3>1. matches = {} /\ full = {}
      BY <2>5, <2>6, <2>13
    <3> QED
      BY <2>7, <2>8, <2>9, <3>1
  <2> QED
    BY <2>10, <2>11, <2>12, <2>13
<1> QED
  BY <1>1, <1>2

(* No command is an option. *)
LEMMA CommandsAreNoOptions ==
  ASSUME NEW c \in Commands
  PROVE  ~IsOption(c) /\ c # DashDash
PROOF
<1>1. Head(HELP) = "h" /\ Head(STORE) = "store" /\ Head(SWITCH) = "switch"
  BY DEF HELP, STORE, SWITCH
<1>2. ~IsOption(c)
  BY <1>1, Distinct DEF IsOption
<1>3. IsOption(DashDash)
  BY DEF IsOption, DashDash
<1> QED
  BY <1>2, <1>3

LEMMA DashDashIs ==
  /\ IsOption(DashDash) /\ ~EndsInDash(DashDash) /\ DashDash \in Word
  /\ \A arg \in Word : Len(arg) = 2 /\ arg[1] = "-" /\ arg[2] = "-" => arg = DashDash
PROOF
<1>1. IsOption(DashDash) /\ ~EndsInDash(DashDash)
  BY DEF IsOption, DashDash, EndsInDash
<1>2. DashDash \in Word
  BY PiecesOfWords DEF DashDash, Word
<1>3. ASSUME NEW arg \in Word, Len(arg) = 2, arg[1] = "-", arg[2] = "-"
      PROVE  arg = DashDash
  <2>1. Len(DashDash) = 2 /\ DashDash[1] = "-" /\ DashDash[2] = "-"
    BY DEF DashDash
  <2>2. \A i \in 1 .. Len(arg) : arg[i] = DashDash[i]
    <3>1. \A i \in 1 .. 2 : i = 1 \/ i = 2
      OBVIOUS
    <3> QED
      BY <1>3, <2>1, <3>1
  <2> QED
    BY <1>2, <1>3, <2>1, <2>2, SeqEqual DEF Word
<1> QED
  BY <1>1, <1>2, <1>3

(* An argument all but the dash of which is scanned. *)
LEMMA StuckAt ==
  ASSUME NEW arg \in Word
  PROVE  EndsInDash(arg) <=> /\ Len(arg) > 2 /\ arg[Len(arg)] = "-"
                             /\ \A k \in 2 .. (Len(arg) - 1) : arg[k] # "-"
PROOF
<1>1. EndsInDash(arg) <=> Len(arg) > 2 /\ FirstDash(arg) = Len(arg) - 1
  BY DEF EndsInDash, FirstDash
<1>2. Len(arg) \in Nat
  BY DEF Word
<1>3. CASE Len(arg) > 2
  <2> DEFINE d == FirstDash(arg)
  <2>1. /\ d \in 0 .. (Len(arg) - 1)
        /\ d = 0 => \A k \in 2 .. Len(arg) : arg[k] # "-"
        /\ d # 0 => arg[d + 1] = "-" /\ \A k \in 2 .. d : arg[k] # "-"
    BY <1>2, <1>3, FirstDashIs
  <2> HIDE DEF d
  <2>2. ASSUME d = Len(arg) - 1
        PROVE  arg[Len(arg)] = "-" /\ \A k \in 2 .. (Len(arg) - 1) : arg[k] # "-"
    <3>1. d # 0 /\ d + 1 = Len(arg)
      BY <1>2, <1>3, <2>2
    <3> QED
      BY <2>1, <2>2, <3>1
  <2>3. ASSUME arg[Len(arg)] = "-", \A k \in 2 .. (Len(arg) - 1) : arg[k] # "-"
        PROVE  d = Len(arg) - 1
    <3>1. d # 0
      <4>1. Len(arg) \in 2 .. Len(arg)
        BY <1>2, <1>3
      <4> QED
        BY <2>1, <2>3, <4>1
    <3>2. ~(d + 1 \in 2 .. (Len(arg) - 1))
      BY <2>1, <2>3, <3>1
    <3> QED
      BY <1>2, <2>1, <3>1, <3>2
  <2> QED
    BY <1>1, <1>3, <2>2, <2>3 DEF d
<1> QED
  BY <1>1, <1>2, <1>3
-------------------------------------------------------------------------------
(* The steps of getopt at an option. *)

(* How much of the argument at optind was scanned. *)
Scanned == IF place = <<>> THEN 1 ELSE Len(argv[optind]) - Len(place)

LEMMA AtOptionIs ==
  ASSUME ProgramInv, ParseTypes, Bounds, GetoptInv, AtOption
  PROVE  LET arg == argv[optind]  r == Scanned
         IN  /\ optind \in 2 .. Len(argv) /\ Len(argv) = Len(cmd_argv)
             /\ arg = cmd_argv[optind] /\ arg \in Word /\ IsOption(arg) /\ arg # DashDash
             /\ cmd_argv \in Seq(Word)
             /\ Len(arg) \in Nat /\ r \in 1 .. (Len(arg) - 1) /\ arg[1] = "-"
             /\ \A k \in 2 .. r : arg[k] # "-"
             /\ Rest = SubSeq(arg, r + 1, Len(arg))
             /\ Seen = Options(cmd_argv, optind - 1) \o SubSeq(Meanings(arg), 1, r - 1)
             /\ ~posixly_correct /\ nonopt_start # None /\ Skipped
             /\ nonopt_end' = IF nonopt_end = None THEN optind ELSE nonopt_end
             /\ nonopt_end' # None /\ nonopt_end' <= optind
PROOF
<1> DEFINE arg == argv[optind]  r == Scanned
<1>1. /\ pc = "getopt" /\ optind <= Len(argv)
      /\ place # <<>> \/ (IsOption(argv[optind]) /\ argv[optind] # DashDash)
      /\ nonopt_end' = IF place = <<>> /\ nonopt_start # None /\ nonopt_end = None THEN optind ELSE nonopt_end
  BY OptionTypes DEF AtOption
<1>2. Cursors /\ InOption
  BY <1>1 DEF GetoptInv, InOption
<1>3. /\ argv \in Seq(Word) /\ cmd_argv \in Seq(Word) /\ Len(argv) = Len(cmd_argv) /\ Len(argv) \in Nat
      /\ optind \in Nat \ {0} /\ cmd_argv # <<>> /\ cmd_argv[1] = cmd
      /\ nonopt_end \in Nat /\ place \in Word
  <2>1. Given \subseteq Word
    BY GivenAreWords
  <2> QED
    BY <2>1, SeqMonotonic DEF ParseTypes
<1>4. arg = cmd_argv[optind] /\ arg \in Word /\ IsOption(arg) /\ arg # DashDash
  <2>1. arg \in Word
    BY <1>1, <1>3, ElementOfSeq
  <2>2. arg = cmd_argv[optind]
    BY <1>1, <1>2, <1>3 DEF Cursors
  <2>3. IsOption(arg) /\ arg # DashDash
    BY <1>1, <1>2 DEF Cursors
  <2> QED
    BY <2>1, <2>2, <2>3
<1>5. optind \in 2 .. Len(argv)
  <2>1. optind # 1
    <3>1. cmd \in Commands
      BY <1>1, TableIs DEF Parsing
    <3> QED
      BY <1>3, <1>4, <3>1, CommandsAreNoOptions
  <2> QED
    BY <1>1, <1>3, <2>1
<1>6. nonopt_start # None /\ ~posixly_correct /\ Skipped
  BY <1>2, <1>3, <1>5 DEF Cursors
<1>7. /\ nonopt_end' = IF nonopt_end = None THEN optind ELSE nonopt_end
      /\ nonopt_end' # None /\ nonopt_end' <= optind
  <2>1. place # <<>> => nonopt_end # None
    BY <1>2 DEF Cursors
  <2>2. nonopt_end # None => nonopt_end <= optind
    BY DEF Bounds
  <2> QED
    BY <1>1, <1>3, <1>6, <2>1, <2>2 DEF None
<1>8. Len(arg) \in Nat /\ Len(arg) > 1 /\ arg[1] = "-" /\ arg # <<>> /\ arg \in Seq(Pieces)
  BY <1>4 DEF IsOption, Word
<1>9. CASE place = <<>>
  <2>1. r = 1 /\ Rest = Tail(arg)
    BY <1>9 DEF Scanned, Rest
  <2>2. Rest = SubSeq(arg, 2, Len(arg))
    BY <1>8, <2>1, TailIsSubSeq
  <2>3. Seen = Options(cmd_argv, optind - 1) \o <<>> /\ SubSeq(Meanings(arg), 1, 0) = <<>>
    BY <1>9, SubSeqEmpty DEF Seen
  <2>4. r - 1 = 0 /\ r + 1 = 2
    BY <2>1
  <2>5. Seen = Options(cmd_argv, optind - 1) \o SubSeq(Meanings(arg), 1, r - 1)
    BY <2>3, <2>4
  <2>6. Rest = SubSeq(arg, r + 1, Len(arg))
    BY <2>2, <2>4
  <2>7. r \in 1 .. (Len(arg) - 1) /\ \A k \in 2 .. r : arg[k] # "-"
    BY <1>8, <2>1
  <2> HIDE DEF arg, r
  <2> QED
    BY <1>3, <1>4, <1>5, <1>6, <1>7, <1>8, <2>5, <2>6, <2>7 DEF arg, r
<1>10. CASE place # <<>>
  <2>1. r = Len(arg) - Len(place) /\ Rest = place
    BY <1>10 DEF Scanned, Rest
  <2>2. r \in 2 .. (Len(arg) - 1) /\ (\A k \in 2 .. r : arg[k] # "-") /\ place = SubSeq(arg, r + 1, Len(arg))
    BY <1>2, <1>10, <2>1 DEF InOption, Letter
  <2>3. Seen = Options(cmd_argv, optind - 1) \o SubSeq(Meanings(arg), 1, r - 1)
    BY <1>10, <2>1 DEF Seen
  <2> HIDE DEF arg, r
  <2>4. r \in 1 .. (Len(arg) - 1)
    BY <1>8, <2>2
  <2>5. Rest = SubSeq(arg, r + 1, Len(arg))
    BY <2>1, <2>2
  <2> QED
    BY <1>3, <1>4, <1>5, <1>6, <1>7, <1>8, <2>2, <2>3, <2>4, <2>5 DEF arg, r
<1> QED
  BY <1>9, <1>10

LEMMA OptionMoves ==
  ASSUME ProgramInv, ParseTypes, Bounds, GetoptInv, AtOption, UNCHANGED cliVars,
         optind' = optind \/ (optind' = optind + 1 /\ place' = <<>>)
  PROVE  Cursors'
PROOF
<1>1. /\ optind \in 2 .. Len(argv) /\ Len(argv) = Len(cmd_argv)
      /\ argv[optind] = cmd_argv[optind] /\ IsOption(argv[optind]) /\ argv[optind] # DashDash
      /\ cmd_argv \in Seq(Word) /\ ~posixly_correct /\ nonopt_start # None /\ Skipped
      /\ nonopt_end' = IF nonopt_end = None THEN optind ELSE nonopt_end
      /\ nonopt_end' # None /\ nonopt_end' <= optind
  BY AtOptionIs
<1>2. UNCHANGED <<pc, argv, cmd_argv, cmd, nonopt_start, posixly_correct>> /\ pc = "getopt"
  BY DEF AtOption, cliVars, given
<1>3. Cursors
  BY <1>2 DEF GetoptInv
<1>4. nonopt_end \in Nat /\ nonopt_start \in Nat /\ Len(argv) \in Nat
  BY DEF ParseTypes
<1>5. optind' - 1 \in 0 .. Len(cmd_argv) /\ Others(cmd_argv, optind' - 1) = Others(cmd_argv, optind - 1)
  <2>1. CASE optind' = optind
    BY <1>1, <2>1
  <2>2. CASE optind' = optind + 1
    <3> DEFINE n == optind - 1
    <3>1. n \in 0 .. Len(cmd_argv) /\ n < Len(cmd_argv) /\ n + 1 = optind /\ optind' - 1 = n + 1
      BY <1>1, <2>2
    <3> HIDE DEF n
    <3>2. Others(cmd_argv, n + 1) = Others(cmd_argv, n) \o <<>> /\ Others(cmd_argv, n) \in Seq(Word)
      BY <1>1, <3>1, OthersAre
    <3>3. Others(cmd_argv, n + 1) = Others(cmd_argv, n)
      BY <3>2, ConcatEmptySeq
    <3>4. Others(cmd_argv, optind' - 1) = Others(cmd_argv, optind - 1)
      BY <3>1, <3>3 DEF n
    <3>5. optind' - 1 \in 0 .. Len(cmd_argv)
      BY <1>1, <2>2
    <3> QED
      BY <3>4, <3>5
  <2> QED
    BY <2>1, <2>2
<1> DEFINE others == Others(cmd_argv, optind - 1)
<1>6. Others(cmd_argv, optind - 1)' = others
  BY <1>2, <1>5 DEF Others, IsOption
<1>7. LET end == IF nonopt_end = None THEN optind ELSE nonopt_end
      IN  /\ end <= optind /\ nonopt_start + Len(others) = end /\ others # <<>> /\ others[1] = cmd
          /\ \A k \in 1 .. Len(others) : argv[nonopt_start + k - 1] = others[k]
  BY <1>1 DEF Skipped, StandsAt
<1> HIDE DEF others
<1>8. Skipped'
  <2> DEFINE end == nonopt_end'
  <2>1. /\ end <= optind /\ nonopt_start + Len(others) = end /\ others # <<>> /\ others[1] = cmd
        /\ \A k \in 1 .. Len(others) : argv[nonopt_start + k - 1] = others[k]
    BY <1>1, <1>7
  <2>2. end <= optind'
    BY <1>1, <1>4, <2>1
  <2> QED
    BY <1>1, <1>2, <1>6, <2>1, <2>2 DEF Skipped, None, StandsAt
<1>9. \A k \in 1 .. (optind' - 1) : cmd_argv[k] # DashDash
  <2>1. \A k \in 1 .. (optind - 1) : cmd_argv[k] # DashDash
    BY <1>3 DEF Cursors
  <2>2. ASSUME NEW k \in 1 .. (optind' - 1)
        PROVE  k \in 1 .. (optind - 1) \/ k = optind
    BY <1>1
  <2> QED
    BY <1>1, <2>1, <2>2
<1>10. \A k \in optind' .. Len(argv) : argv[k] = cmd_argv[k]
  <2>1. \A k \in optind .. Len(argv) : argv[k] = cmd_argv[k]
    BY <1>3 DEF Cursors
  <2> QED
    BY <1>1, <2>1
<1>11. nonopt_end' = optind' \/ place' # <<>> =>
         optind' <= Len(argv) /\ IsOption(argv[optind']) /\ argv[optind'] # DashDash
  <2>1. CASE optind' = optind
    BY <1>1, <2>1
  <2>2. CASE optind' = optind + 1 /\ place' = <<>>
    <3>1. nonopt_end' # optind'
      BY <1>1, <1>4, <2>2
    <3> QED
      BY <2>2, <3>1
  <2> QED
    BY <2>1, <2>2
<1> QED
  BY <1>1, <1>2, <1>8, <1>9, <1>10, <1>11 DEF Cursors, IsOption, None

(* A dash behind letters: there getopt stays. *)
LEMMA MalformedKeeps ==
  ASSUME ProgramInv, ParseTypes, Bounds, GetoptInv, UNCHANGED cliVars, getopt_malformed
  PROVE  GetoptInv'
PROOF
<1>1. /\ AtOption /\ Rest = Dash /\ place' = <<>> /\ UNCHANGED <<optind, found>>
      /\ UNCHANGED argv /\ pc = "getopt"
  BY DEF getopt_malformed, AtOption
<1>2. Cursors'
  BY <1>1, OptionMoves
<1> DEFINE arg == argv[optind]  r == Scanned
<1>3. /\ optind \in 2 .. Len(argv) /\ arg \in Word /\ IsOption(arg) /\ arg # DashDash
      /\ Len(arg) \in Nat /\ r \in 1 .. (Len(arg) - 1) /\ arg[1] = "-"
      /\ \A k \in 2 .. r : arg[k] # "-"
      /\ Rest = SubSeq(arg, r + 1, Len(arg))
  BY <1>1, AtOptionIs
<1> HIDE DEF arg, r
<1>4. Len(Dash) = 1 /\ Dash[1] = "-"
  BY DEF Dash
<1>5. r = Len(arg) - 1 /\ arg[Len(arg)] = "-"
  <2>1. \A i \in (r + 1) .. Len(arg) : arg[i] \in Pieces
    <3>1. \A i \in (r + 1) .. Len(arg) : i \in 1 .. Len(arg)
      BY <1>3
    <3> QED
      BY <1>3, <3>1, ElementOfSeq DEF Word
  <2>2. /\ Len(SubSeq(arg, r + 1, Len(arg))) = Len(arg) - r
        /\ \A i \in 1 .. (Len(arg) - r) : SubSeq(arg, r + 1, Len(arg))[i] = arg[r + i]
    BY <1>3, <2>1, SubSeqProperties
  <2> DEFINE rest == SubSeq(arg, r + 1, Len(arg))
  <2>3. rest = Dash
    BY <1>1, <1>3
  <2> HIDE DEF rest
  <2>4. Len(arg) - r = 1
    BY <1>4, <2>2, <2>3 DEF rest
  <2>5. 1 \in 1 .. (Len(arg) - r) /\ r + 1 = Len(arg) /\ r = Len(arg) - 1
    BY <1>3, <2>4
  <2>6. rest[1] = arg[r + 1]
    BY <2>2, <2>5 DEF rest
  <2> QED
    BY <1>4, <2>3, <2>5, <2>6
<1>6. Len(arg) > 2
  <2>1. Len(arg) # 2
    BY <1>3, <1>5, DashDashIs
  <2> DEFINE n == Len(arg)
  <2>2. n \in Nat /\ n > 1 /\ n # 2
    BY <1>3, <2>1 DEF IsOption
  <2> HIDE DEF n
  <2>3. n > 2
    BY <2>2
  <2> QED
    BY <2>3 DEF n
<1>7. EndsInDash(arg)
  BY <1>3, <1>5, <1>6, StuckAt
<1>8. Stuck'
  <2>1. Stuck
    BY <1>3, <1>7 DEF Stuck, arg
  <2> QED
    BY <1>1, <2>1 DEF Stuck
<1>9. found[1] = <<>> /\ found[CMD_NAME] = <<>>
  BY <1>1 DEF GetoptInv
<1> QED
  BY <1>1, <1>2, <1>8, <1>9 DEF GetoptInv, CMD_NAME
LEMMA SeenNext ==
  ASSUME NEW a \in Seq(Meaning), NEW M \in Seq(Meaning), NEW r \in 1 .. Len(M)
  PROVE  /\ a \o SubSeq(M, 1, r) = Append(a \o SubSeq(M, 1, r - 1), M[r])
         /\ a \o SubSeq(M, 1, r - 1) \in Seq(Meaning) /\ M[r] \in Meaning
PROOF
<1> DEFINE s == SubSeq(M, 1, r - 1)  e == M[r]
<1>1. e \in Meaning /\ Len(M) \in Nat /\ 1 \in 1 .. Len(M) /\ r \in 1 .. Len(M)
  BY ElementOfSeq
<1>2. SubSeq(M, 1, r) = s \o <<e>>
  BY <1>1, SubSeqRecursiveSecond
<1>3. s \in Seq(Meaning)
  <2>1. \A i \in 1 .. (r - 1) : M[i] \in Meaning
    <3>1. \A i \in 1 .. (r - 1) : i \in 1 .. Len(M)
      BY <1>1
    <3> QED
      BY <3>1, ElementOfSeq
  <2> QED
    BY <1>1, <2>1, SubSeqProperties
<1> HIDE DEF s, e
<1>4. <<e>> \in Seq(Meaning)
  BY <1>1
<1>5. a \o (s \o <<e>>) = (a \o s) \o <<e>>
  <2> DEFINE last == <<e>>
  <2>1. last \in Seq(Meaning)
    BY <1>4
  <2> HIDE DEF last
  <2>2. a \in Seq(Meaning)
    OBVIOUS
  <2>3. (a \o s) \o last = a \o (s \o last)
    BY ONLY <1>3, <2>1, <2>2, ConcatAssociative, SMTT(60)
  <2> QED
    BY <2>3 DEF last
<1>6. a \o s \in Seq(Meaning)
  BY <1>3, ConcatProperties
<1>7. Append(a \o s, e) = (a \o s) \o <<e>>
  BY <1>1, <1>6, AppendIsConcat
<1> QED
  BY <1>1, <1>2, <1>5, <1>6, <1>7 DEF s, e

(* What is left to scan begins behind what was scanned. *)
LEMMA RestParts ==
  ASSUME ProgramInv, ParseTypes, Bounds, GetoptInv, AtOption
  PROVE  LET arg == argv[optind]  r == Scanned
         IN  /\ Head(Rest) = arg[r + 1] /\ Tail(Rest) = SubSeq(arg, r + 2, Len(arg))
             /\ Len(Tail(Rest)) = Len(arg) - (r + 1)
             /\ Rest = Dash <=> r + 1 = Len(arg) /\ arg[r + 1] = "-"
PROOF
<1> DEFINE arg == argv[optind]  r == Scanned
<1>1. /\ arg \in Word /\ Len(arg) \in Nat /\ r \in 1 .. (Len(arg) - 1) /\ Rest = SubSeq(arg, r + 1, Len(arg))
  BY AtOptionIs
<1> HIDE DEF arg, r
<1>2. r + 1 \in 1 .. Len(arg) /\ Len(arg) \in (r + 1) .. Len(arg) /\ (r + 1) + 1 = r + 2
  BY <1>1
<1>3. Head(Rest) = arg[r + 1] /\ Tail(Rest) = SubSeq(arg, r + 2, Len(arg))
  BY <1>1, <1>2, HeadTailOfSubSeq DEF Word
<1>4. /\ Rest \in Word /\ Rest # <<>> /\ Len(Tail(Rest)) = Len(Rest) - 1 /\ Tail(Rest) \in Word
  BY OptionTypes
<1>5. \A i \in (r + 1) .. Len(arg) : arg[i] \in Pieces
  <2>1. \A i \in (r + 1) .. Len(arg) : i \in 1 .. Len(arg)
    BY <1>1
  <2> QED
    BY <1>1, <2>1, ElementOfSeq DEF Word
<1>6. Len(Rest) = Len(arg) - r
  BY <1>1, <1>5, SubSeqProperties
<1>8. Len(arg) \in Nat /\ r \in Nat
  BY <1>1
<1>7. Rest = Dash <=> r + 1 = Len(arg) /\ arg[r + 1] = "-"
  <2>1. Len(Dash) = 1 /\ Head(Dash) = "-" /\ Dash \in Word /\ Dash[1] = "-"
    BY PiecesOfWords DEF Dash, Word
  <2>2. ASSUME Rest = Dash
        PROVE  r + 1 = Len(arg) /\ arg[r + 1] = "-"
    <3>1. Len(Rest) = 1 /\ arg[r + 1] = "-"
      BY <1>3, <2>1, <2>2
    <3>2. Len(arg) - r = 1
      BY <1>6, <3>1
    <3> QED
      BY <1>8, <3>1, <3>2
  <2>3. ASSUME r + 1 = Len(arg), arg[r + 1] = "-"
        PROVE  Rest = Dash
    <3>1. Len(Rest) = 1
      <4>1. Len(arg) - r = 1
        BY <1>8, <2>3
      <4> QED
        BY <1>6, <4>1
    <3>2. Rest[1] = "-"
      BY <1>3, <1>4, <2>3 DEF Word
    <3> QED
      BY <1>4, <2>1, <3>1, <3>2, SeqEqual DEF Word
  <2> QED
    BY <2>2, <2>3
<1> QED
  BY <1>1, <1>3, <1>4, <1>6, <1>7 DEF arg, r

(* The options seen before the one that is being scanned, and with it. *)
LEMMA SeenBefore ==
  ASSUME ProgramInv, ParseTypes, Bounds, GetoptInv, AtOption
  PROVE  LET arg == argv[optind]  r == Scanned
         IN  /\ r \in 1 .. Len(Meanings(arg))
             /\ Meanings(arg)[r] = IF arg[r + 1] = "-" THEN MeaningOfName(SubSeq(arg, r + 2, Len(arg)))
                                   ELSE IF arg[r + 1] = "h" THEN HELP ELSE <<"?">>
             /\ Seen \in Seq(Meaning) /\ Meanings(arg)[r] \in Meaning /\ Meanings(arg) \in Seq(Meaning)
             /\ Append(Seen, Meanings(arg)[r]) = Options(cmd_argv, optind - 1) \o SubSeq(Meanings(arg), 1, r)
             /\ Len(Meanings(arg)) = r <=> arg[r + 1] = "-" \/ r + 1 = Len(arg)
             /\ Len(Meanings(arg)) = r =>
                  Append(Seen, Meanings(arg)[r]) = Options(cmd_argv, optind)
PROOF
<1> DEFINE arg == argv[optind]  r == Scanned  M == Meanings(arg)  d == FirstDash(arg)
           before == Options(cmd_argv, optind - 1)
<1>1. /\ optind \in 2 .. Len(argv) /\ Len(argv) = Len(cmd_argv) /\ arg = cmd_argv[optind]
      /\ arg \in Word /\ IsOption(arg) /\ cmd_argv \in Seq(Word)
      /\ Len(arg) \in Nat /\ r \in 1 .. (Len(arg) - 1)
      /\ \A k \in 2 .. r : arg[k] # "-"
      /\ Seen = before \o SubSeq(M, 1, r - 1)
  BY AtOptionIs
<1>2. Len(arg) > 1
  BY <1>1 DEF IsOption
<1>3. /\ M \in Seq(Meaning) /\ Len(M) = (IF d = 0 THEN Len(arg) - 1 ELSE d)
      /\ \A j \in 1 .. (Len(arg) - 1) : d = 0 \/ j < d => M[j] = IF arg[j + 1] = "h" THEN HELP ELSE <<"?">>
      /\ d # 0 => M[d] = MeaningOfName(SubSeq(arg, d + 2, Len(arg)))
  BY <1>1, <1>2, MeaningsAre
<1>4. /\ d \in 0 .. (Len(arg) - 1)
      /\ d = 0 => \A k \in 2 .. Len(arg) : arg[k] # "-"
      /\ d # 0 => arg[d + 1] = "-" /\ \A k \in 2 .. d : arg[k] # "-"
  BY <1>1, <1>2, FirstDashIs
<1>5. optind - 1 \in 0 .. Len(cmd_argv) /\ optind - 1 < Len(cmd_argv) /\ (optind - 1) + 1 = optind
  BY <1>1
<1>6. before \in Seq(Meaning) /\ Options(cmd_argv, optind) = before \o M
  <2> DEFINE n == optind - 1
  <2>1. n \in 0 .. Len(cmd_argv) /\ n < Len(cmd_argv) /\ n + 1 = optind
    BY <1>5
  <2> HIDE DEF n
  <2>2. Options(cmd_argv, n) \in Seq(Meaning)
    BY <1>1, <2>1, OptionsAre
  <2>3. Options(cmd_argv, n + 1) = Options(cmd_argv, n) \o M
    BY <1>1, <2>1, OptionsAre
  <2>4. Options(cmd_argv, optind) = Options(cmd_argv, n) \o M
    BY <2>1, <2>3
  <2> QED
    BY <2>2, <2>4 DEF n
<1> HIDE DEF arg, r, M, d, before
<1>7. r + 1 \in 2 .. Len(arg) /\ (d = 0 \/ r <= d)
  <2>1. r + 1 \in 2 .. Len(arg)
    BY <1>1
  <2>2. ASSUME d # 0, ~(r <= d)
        PROVE  FALSE
    <3>1. d + 1 \in 2 .. r
      BY <1>1, <1>4, <2>2
    <3> QED
      BY <1>1, <1>4, <2>2, <3>1
  <2> QED
    BY <2>1, <2>2
<1>8. arg[r + 1] = "-" <=> d = r
  <2>1. ASSUME d # r, arg[r + 1] = "-"
        PROVE  FALSE
    <3>1. d # 0
      BY <1>4, <1>7, <2>1
    <3>2. r + 1 \in 2 .. d
      BY <1>1, <1>4, <1>7, <2>1, <3>1
    <3> QED
      BY <1>4, <2>1, <3>1, <3>2
  <2>2. d = r => d # 0
    BY <1>1
  <2> QED
    BY <1>4, <2>1, <2>2
<1>9. r \in 1 .. Len(M)
  BY <1>1, <1>3, <1>4, <1>7
<1>10. M[r] = IF arg[r + 1] = "-" THEN MeaningOfName(SubSeq(arg, r + 2, Len(arg)))
              ELSE IF arg[r + 1] = "h" THEN HELP ELSE <<"?">>
  <2>1. CASE d = r
    BY <1>1, <1>3, <1>8, <2>1
  <2>2. CASE d # r
    <3>1. d = 0 \/ r < d
      BY <1>1, <1>4, <1>7, <2>2
    <3> QED
      BY <1>1, <1>3, <1>8, <2>2, <3>1
  <2> QED
    BY <2>1, <2>2
<1>11. /\ before \o SubSeq(M, 1, r) = Append(before \o SubSeq(M, 1, r - 1), M[r])
       /\ before \o SubSeq(M, 1, r - 1) \in Seq(Meaning) /\ M[r] \in Meaning
  BY <1>3, <1>6, <1>9, SeenNext
<1>12. Len(M) = r <=> arg[r + 1] = "-" \/ r + 1 = Len(arg)
  BY <1>1, <1>3, <1>4, <1>7, <1>8
<1>13. Len(M) = r => SubSeq(M, 1, r) = M
  BY <1>3, SubSeqFull
<1> QED
  BY <1>1, <1>3, <1>6, <1>9, <1>10, <1>11, <1>12, <1>13 DEF arg, r, M, before

Letters(arg) ==
  LET letters == SubSeq(Tail(arg), 1, IF FirstDash(arg) = 0 THEN Len(arg) - 1 ELSE FirstDash(arg) - 1)
  IN  [i \in DOMAIN letters |-> IF letters[i] = "h" THEN HELP ELSE <<"?">>]
Name(arg) == SubSeq(arg, FirstDash(arg) + 2, Len(arg))

HaveParts ==
  \A arg : Meanings(arg) = Letters(arg) \o IF FirstDash(arg) = 0 THEN <<>> ELSE <<MeaningOfName(Name(arg))>>

LEMMA MeaningsHaveParts == HaveParts
PROOF
BY DEF HaveParts, Meanings, FirstDash, Letters, Name

(* What an option means depends on nothing but the command. *)
LEMMA OptionsStay ==
  ASSUME UNCHANGED cmd
  PROVE  /\ \A name : MeaningOfName(name)' = MeaningOfName(name)
         /\ \A arg : Meanings(arg)' = Meanings(arg)
         /\ \A line, n : Options(line, n)' = Options(line, n)
PROOF
<1>1. \A name : MeaningOfName(name)' = MeaningOfName(name)
  BY DEF MeaningOfName, LongNames
<1>2. ASSUME NEW arg
      PROVE  Meanings(arg)' = Meanings(arg)
  <2>1. HaveParts /\ HaveParts'
    BY MeaningsHaveParts, PTL
  <2> QED
    BY <1>1, <2>1 DEF HaveParts
<1>3. \A line, n : Options(line, n)' = Options(line, n)
  BY <1>2 DEF Options, IsOption
<1> QED
  BY <1>1, <1>2, <1>3

(* A long option, whole or abbreviated. *)
LEMMA LongKeeps ==
  ASSUME ProgramInv, ParseTypes, Bounds, GetoptInv, UNCHANGED cliVars, getopt_long_option
  PROVE  GetoptInv'
PROOF
<1> DEFINE arg == argv[optind]  r == Scanned  m == Meanings(arg)[r]
           text == Tail(Rest)
           has_equal == Contains(text, "=")
           name == IF has_equal THEN SubSeq(text, 1, SelectInSeq(text, LAMBDA c : c = "=") - 1) ELSE text
           matches == matching_options(name, alloc_longoptions(table))
<1>1. /\ AtOption /\ Rest # Dash /\ Head(Rest) = "-" /\ place' = <<>> /\ optind' = optind + 1
      /\ pc = "getopt" /\ pc' = "getopt" /\ UNCHANGED <<argv, cmd, cmd_argv, table>>
      /\ IF is_long_option(matches, has_equal) THEN \E i \in matches : ScanOrError(i, <<>>)
         ELSE errors' = arg_register_error(Error("ELONGOPT", 0)) /\ UNCHANGED found
  BY DEF getopt_long_option, AtOption, cliVars, given
<1>2. Cursors'
  BY <1>1, OptionMoves
<1>3. /\ arg \in Word /\ IsOption(arg) /\ Len(arg) \in Nat /\ r \in 1 .. (Len(arg) - 1)
      /\ optind \in 2 .. Len(argv) /\ \A k \in 2 .. r : arg[k] # "-"
  BY <1>1, AtOptionIs
<1>4. text = SubSeq(arg, r + 2, Len(arg)) /\ arg[r + 1] = "-" /\ text \in Word /\ r + 1 # Len(arg)
  BY <1>1, RestParts, OptionTypes
<1>5. /\ m = MeaningOfName(text) /\ Seen \in Seq(Meaning) /\ m \in Meaning
      /\ Append(Seen, m) = Options(cmd_argv, optind)
  BY <1>1, <1>4, SeenBefore
<1> HIDE DEF arg, r, m
<1>6. ~Stuck
  <2>1. ASSUME EndsInDash(arg)
        PROVE  FALSE
    <3>1. \A k \in 2 .. (Len(arg) - 1) : arg[k] # "-"
      BY <1>3, <2>1, StuckAt
    <3>2. r + 1 \in 2 .. (Len(arg) - 1)
      BY <1>3, <1>4
    <3> QED
      BY <1>4, <3>1, <3>2
  <2> QED
    BY <2>1 DEF Stuck, arg
<1>7. Amounts(Seen, 0) /\ found[1] = <<>> /\ found[CMD_NAME] = <<>>
  BY <1>1, <1>6 DEF GetoptInv
<1>8. \/ m = HELP /\ ScanOrError(HELP_OPT, <<>>)
      \/ m = LAZY /\ cmd # HELP /\ ScanOrError(LAZY_OPT, <<>>)
      \/ m = <<"?">> /\ UNCHANGED found /\ \E error \in Err : errors' = arg_register_error(error)
  <2> HIDE DEF text, has_equal
  <2>1. ~has_equal => name = text
    OBVIOUS
  <2> HIDE DEF name, matches
  <2>2. IF is_long_option(matches, has_equal)
        THEN \/ matches = {HELP_OPT} /\ MeaningOfName(text) = HELP
             \/ matches = {LAZY_OPT} /\ MeaningOfName(text) = LAZY /\ cmd # HELP
        ELSE MeaningOfName(text) = <<"?">>
    <3>1. pc \in Parsing
      BY <1>1 DEF Parsing
    <3> QED
      BY <1>4, <2>1, <3>1, MatchIsMeant DEF has_equal, matches
  <2>3. Error("ELONGOPT", 0) \in Err
    BY ErrorIsErr DEF Kind
  <2>4. CASE is_long_option(matches, has_equal) /\ matches = {HELP_OPT} /\ MeaningOfName(text) = HELP
    BY <1>1, <1>5, <2>4
  <2>5. CASE is_long_option(matches, has_equal) /\ matches = {LAZY_OPT} /\ MeaningOfName(text) = LAZY /\ cmd # HELP
    BY <1>1, <1>5, <2>5
  <2>6. CASE ~is_long_option(matches, has_equal)
    BY <1>1, <1>5, <2>2, <2>3, <2>6
  <2> QED
    BY <2>2, <2>4, <2>5, <2>6
<1>9. /\ AmountTo(found', errors', cmd, Append(Seen, m), 0)
      /\ found'[1] = found[1] /\ found'[CMD_NAME] = found[CMD_NAME]
  <2>1. pc \in Parsing
    BY <1>1 DEF Parsing
  <2> QED
    BY <1>5, <1>7, <1>8, <2>1, AmountsNext
<1>10. Seen' = Append(Seen, m)
  <2>1. Seen' = Options(cmd_argv, optind) \o <<>>
    <3>1. optind' - 1 = optind
      BY <1>1, <1>3
    <3> QED
      BY <1>1, <3>1, OptionsStay DEF Seen, IsOption
  <2>2. Options(cmd_argv, optind) \in Seq(Meaning)
    BY <1>5, AppendProperties
  <2> QED
    BY <1>5, <2>1, <2>2, ConcatEmptySeq
<1>11. Amounts(Seen, 0)'
  BY <1>1, <1>9, <1>10 DEF Amounts, AmountTo
<1>12. InOption'
  BY <1>1 DEF InOption
<1> QED
  BY <1>1, <1>2, <1>7, <1>9, <1>11, <1>12 DEF GetoptInv, CMD_NAME
(* A letter, the last of its argument or not. *)
LEMMA ShortKeeps ==
  ASSUME ProgramInv, ParseTypes, Bounds, GetoptInv, UNCHANGED cliVars, getopt_short_option
  PROVE  GetoptInv'
PROOF
<1> DEFINE arg == argv[optind]  r == Scanned  m == Meanings(arg)[r]  rest == Tail(Rest)
<1>1. /\ AtOption /\ Head(Rest) # "-" /\ place' = rest
      /\ optind' = IF rest = <<>> THEN optind + 1 ELSE optind
      /\ pc = "getopt" /\ pc' = "getopt" /\ UNCHANGED <<argv, cmd, cmd_argv, table>>
      /\ IF Head(Rest) \in alloc_shortoptions(table)
         THEN ScanOrError(find_shortoption(table, Head(Rest)), <<>>)
         ELSE errors' = arg_register_error(Error(Head(Rest), 0)) /\ UNCHANGED found
  BY DEF getopt_short_option, AtOption, cliVars, given, Advanced
<1>2. Cursors'
  BY <1>1, OptionMoves
<1>3. /\ arg \in Word /\ IsOption(arg) /\ Len(arg) \in Nat /\ r \in 1 .. (Len(arg) - 1)
      /\ optind \in 2 .. Len(argv) /\ \A k \in 2 .. r : arg[k] # "-"
  BY <1>1, AtOptionIs
<1>4. /\ Head(Rest) = arg[r + 1] /\ arg[r + 1] # "-" /\ rest = SubSeq(arg, r + 2, Len(arg)) /\ rest \in Word
      /\ Len(rest) = Len(arg) - (r + 1) /\ Head(Rest) \in Pieces
  BY <1>1, RestParts, OptionTypes
<1>5. /\ m = (IF arg[r + 1] = "h" THEN HELP ELSE <<"?">>) /\ Seen \in Seq(Meaning) /\ m \in Meaning
      /\ Append(Seen, m) = Options(cmd_argv, optind - 1) \o SubSeq(Meanings(arg), 1, r)
      /\ r + 1 = Len(arg) => Append(Seen, m) = Options(cmd_argv, optind)
  BY <1>1, <1>4, SeenBefore
<1> HIDE DEF arg, r, m, rest
<1>13. Len(rest) = Len(arg) - (r + 1) /\ Len(arg) \in Nat /\ r \in 1 .. (Len(arg) - 1)
  BY <1>3, <1>4
<1>6. rest = <<>> <=> r + 1 = Len(arg)
  <2>1. rest = <<>> <=> Len(rest) = 0
    BY <1>4, EmptySeq DEF Word
  <2>2. Len(rest) = 0 <=> r + 1 = Len(arg)
    BY <1>13
  <2> QED
    BY <2>1, <2>2
<1>7. InOption' /\ (rest = <<>> => ~Stuck) /\ (Stuck => Stuck')
  <2>1. CASE rest = <<>>
    <3>1. ~EndsInDash(arg)
      BY <1>3, <1>4, <1>6, <2>1, StuckAt
    <3>2. ~Stuck
      BY <3>1 DEF Stuck, arg
    <3>3. InOption'
      BY <1>1, <2>1 DEF InOption
    <3> QED
      BY <2>1, <3>2, <3>3
  <2>2. CASE rest # <<>>
    <3>1. optind' = optind /\ argv' = argv /\ place' = rest
      BY <1>1, <2>2
    <3>2. Stuck => Stuck'
      BY <3>1 DEF Stuck
    <3>3. Len(arg) - Len(rest) = r + 1 /\ r + 1 \in 2 .. (Len(arg) - 1)
      BY <1>6, <1>13, <2>2
    <3>4. Letter(arg, r + 1)
      <4>1. ASSUME NEW k \in 2 .. (r + 1)
            PROVE  arg[k] # "-"
        <5>1. k \in 2 .. r \/ k = r + 1
          BY <1>3
        <5> QED
          BY <1>3, <1>4, <5>1
      <4> QED
        BY <4>1 DEF Letter
    <3>5. rest = SubSeq(arg, (r + 1) + 1, Len(arg))
      <4>1. (r + 1) + 1 = r + 2
        BY <1>3
      <4> QED
        BY <1>4, <4>1
    <3>6. (argv[optind])' = arg
      BY <3>1 DEF arg
    <3>7. InOption'
      <4> DEFINE j == Len(arg) - Len(rest)
      <4>1. j \in 2 .. (Len(arg) - 1) /\ Letter(arg, j) /\ rest = SubSeq(arg, j + 1, Len(arg))
        BY <3>3, <3>4, <3>5
      <4> HIDE DEF j
      <4> QED
        BY <3>1, <3>6, <4>1 DEF InOption, j, Letter
    <3> QED
      BY <2>2, <3>2, <3>7
  <2> QED
    BY <2>1, <2>2
<1>8. Seen' = Append(Seen, m)
  <2>0. Options(cmd_argv, optind - 1)' = Options(cmd_argv, optind' - 1) /\ Meanings(argv[optind])' = Meanings(argv[optind'])
    BY <1>1, OptionsStay
  <2>1. CASE rest = <<>>
    <3>1. optind' - 1 = optind
      BY <1>1, <1>3, <2>1
    <3>2. Seen' = Options(cmd_argv, optind) \o <<>>
      BY <1>1, <2>0, <2>1, <3>1 DEF Seen
    <3>3. Options(cmd_argv, optind) \in Seq(Meaning)
      BY <1>5, <1>6, <2>1, AppendProperties
    <3> QED
      BY <1>5, <1>6, <2>1, <3>2, <3>3, ConcatEmptySeq
  <2>2. CASE rest # <<>>
    <3>1. optind' = optind /\ argv' = argv /\ place' = rest
      BY <1>1, <2>2
    <3>2. Len(arg) - Len(rest) - 1 = r
      BY <1>13
    <3>3. Seen' = Options(cmd_argv, optind - 1) \o SubSeq(Meanings(arg), 1, Len(arg) - Len(rest) - 1)
      BY <2>0, <2>2, <3>1 DEF Seen, arg
    <3> QED
      BY <1>5, <3>2, <3>3
  <2> QED
    BY <2>1, <2>2
<1>9. found[1] = <<>> /\ found[CMD_NAME] = <<>> /\ (~Stuck => Amounts(Seen, 0))
  BY <1>1 DEF GetoptInv
<1>10. /\ found'[1] = found[1] /\ found'[CMD_NAME] = found[CMD_NAME]
       /\ Amounts(Seen, 0) => AmountTo(found', errors', cmd, Append(Seen, m), 0)
  <2>1. pc \in Parsing
    BY <1>1 DEF Parsing
  <2>2. \/ m = HELP /\ ScanOrError(HELP_OPT, <<>>)
        \/ m = <<"?">> /\ UNCHANGED found /\ \E error \in Err : errors' = arg_register_error(error)
    <3>1. alloc_shortoptions(table) = {"h"} /\ find_shortoption(table, "h") = 3
      BY <2>1, NamesAre
    <3>2. Error(Head(Rest), 0) \in Err
      BY <1>4, ErrorIsErr DEF Kind
    <3>3. CASE arg[r + 1] = "h"
      BY <1>1, <1>4, <1>5, <3>1, <3>3 DEF HELP_OPT
    <3>4. CASE arg[r + 1] # "h"
      BY <1>1, <1>4, <1>5, <3>1, <3>2, <3>4
    <3> QED
      BY <3>3, <3>4
  <2>3. found'[1] = found[1] /\ found'[CMD_NAME] = found[CMD_NAME]
    <3>1. CASE ScanOrError(HELP_OPT, <<>>)
      <4>1. found \in [DOMAIN table -> Seq(Word)] /\ 1 \in DOMAIN table /\ 2 \in DOMAIN table
        BY <2>1, TableIs DEF ParseTypes
      <4>2. found' = found \/ found' = [found EXCEPT ![3] = Append(@, <<>>)]
        BY <3>1 DEF ScanOrError, Scan, HELP_OPT
      <4> QED
        BY <4>1, <4>2 DEF CMD_NAME
    <3> QED
      BY <2>2, <3>1
  <2>4. Amounts(Seen, 0) => AmountTo(found', errors', cmd, Append(Seen, m), 0)
    BY <1>5, <2>1, <2>2, AmountsNext
  <2> QED
    BY <2>3, <2>4
<1>11. Amounts(Seen, 0) => Amounts(Seen, 0)'
  BY <1>1, <1>8, <1>10 DEF Amounts, AmountTo
<1>12. Stuck' \/ (InOption' /\ Amounts(Seen, 0)')
  BY <1>7, <1>9, <1>11
<1> QED
  BY <1>1, <1>2, <1>7, <1>9, <1>10, <1>12 DEF GetoptInv, CMD_NAME

LEMMA Exchanged ==
  ASSUME NEW v \in Seq(Word), NEW start \in Nat, NEW from \in Nat, NEW to \in Nat, start < from, from < to,
         NEW w, w = permute_args(v, start, from, to)
  PROVE  \A k \in 1 .. Len(v) :
           /\ k \in (start + (to - from)) .. (to - 1) => w[k] = v[k - (to - from)]
           /\ k >= to => w[k] = v[k]
PROOF
<1> SUFFICES ASSUME NEW k \in 1 .. Len(v)
             PROVE  /\ k \in (start + (to - from)) .. (to - 1) => w[k] = v[k - (to - from)]
                    /\ k >= to => w[k] = v[k]
  OBVIOUS
<1>1. k \in DOMAIN v /\ k \in Int
  OBVIOUS
<1>2. permute_args(v, start, from, to)[k] =
        IF k \in start .. (start + (to - from) - 1) THEN v[k + (from - start)]
        ELSE IF k \in (start + (to - from)) .. (to - 1) THEN v[k - (to - from)]
        ELSE v[k]
  BY <1>1, PermuteExchanges
<1>3. k \in (start + (to - from)) .. (to - 1) => ~(k \in start .. (start + (to - from) - 1))
  BY <1>1
<1>4. k >= to => ~(k \in start .. (start + (to - from) - 1)) /\ ~(k \in (start + (to - from)) .. (to - 1))
  BY <1>1
<1> QED
  BY <1>2, <1>3, <1>4

(* A block of arguments that may change places with those behind it up to  *)
(* `to`, and what is in w then. *)
Movable(v, start, from, to, block) ==
  /\ v \in Seq(Word) /\ start \in Nat \ {0} /\ from \in Nat /\ to \in Nat
  /\ start < from /\ from < to /\ to <= Len(v) + 1
  /\ block \in Seq(Word) /\ start + Len(block) = from /\ StandsAt(v, start, block)
Moved(w, v, s, to, block) ==
  /\ Len(w) = Len(v) /\ w \in Seq(Word) /\ s \in Nat \ {0} /\ s + Len(block) = to
  /\ StandsAt(w, s, block)
  /\ \A k \in to .. Len(v) : w[k] = v[k]

LEMMA BlockMoves ==
  ASSUME NEW v, NEW start, NEW from, NEW to, NEW block, Movable(v, start, from, to, block)
  PROVE  Moved(permute_args(v, start, from, to), v, to - (from - start), to, block)
PROOF
<1> DEFINE w == permute_args(v, start, from, to)  s == to - (from - start)
<1>2. /\ Len(v) \in Nat /\ Len(block) \in Nat /\ start \in Nat \ {0} /\ from \in Nat /\ to \in Nat
      /\ start < from /\ from < to /\ to <= Len(v) + 1 /\ start + Len(block) = from /\ s = to - (from - start)
      /\ v \in Seq(Word) /\ block \in Seq(Word)
  BY DEF Movable
<1>1. Len(w) = Len(v) /\ w \in Seq(Word)
  BY <1>2, PermuteKeepsTypes
<1>3. \A k \in 1 .. Len(v) :
        /\ k \in (start + (to - from)) .. (to - 1) => w[k] = v[k - (to - from)]
        /\ k >= to => w[k] = v[k]
  BY <1>2, Exchanged
<1> HIDE DEF w
<1>4. s + Len(block) = to /\ s \in Nat \ {0}
  BY <1>2
<1>5. ASSUME NEW k \in to .. Len(v)
      PROVE  w[k] = v[k]
  BY <1>2, <1>3
<1>6. ASSUME NEW k \in 1 .. Len(block)
      PROVE  w[s + k - 1] = block[k]
  <2> DEFINE p == s + k - 1
  <2>1. /\ p \in (start + (to - from)) .. (to - 1) /\ p \in 1 .. Len(v) /\ p - (to - from) = start + k - 1
    BY <1>2
  <2> HIDE DEF p
  <2>2. w[p] = v[p - (to - from)]
    BY <1>3, <2>1
  <2>3. v[start + k - 1] = block[k]
    BY DEF StandsAt, Movable
  <2> QED
    BY <2>1, <2>2, <2>3 DEF p
<1>7. StandsAt(w, s, block)
  BY <1>6 DEF StandsAt
<1> QED
  BY <1>1, <1>2, <1>4, <1>5, <1>7 DEF Moved, w

(* What is no option is skipped, behind those skipped before.              *)
LEMMA NonoptionKeeps ==
  ASSUME ProgramInv, ParseTypes, Bounds, GetoptInv, UNCHANGED cliVars, getopt_nonoption
  PROVE  GetoptInv'
PROOF
<1> DEFINE arg == argv[optind]  others == Others(cmd_argv, optind - 1)
           end == IF nonopt_end = None THEN optind ELSE nonopt_end
<1>1. /\ pc = "getopt" /\ pc' = "getopt" /\ place = <<>> /\ place' = <<>>
      /\ optind <= Len(argv) /\ ~IsOption(arg) /\ ~posixly_correct /\ optind' = optind + 1
      /\ UNCHANGED <<posixly_correct, cmd, cmd_argv, found, errors>>
      /\ IF nonopt_end # None
         THEN /\ argv' = permute_args(argv, nonopt_start, nonopt_end, optind)
              /\ nonopt_start' = optind - (nonopt_end - nonopt_start)
              /\ nonopt_end' = None
         ELSE /\ nonopt_start' = IF nonopt_start = None THEN optind ELSE nonopt_start
              /\ UNCHANGED <<argv, nonopt_end>>
  BY DEF getopt_nonoption, AtNewArg, cliVars, given, results
<1>2. Cursors
  BY <1>1 DEF GetoptInv
<1>3. /\ argv \in Seq(Word) /\ cmd_argv \in Seq(Word) /\ Len(argv) = Len(cmd_argv) /\ Len(argv) \in Nat
      /\ optind \in Nat \ {0} /\ cmd_argv # <<>> /\ cmd_argv[1] = cmd /\ DOMAIN argv = 1 .. Len(argv)
      /\ nonopt_end \in Nat /\ nonopt_start \in Nat
  <2>1. Given \subseteq Word
    BY GivenAreWords
  <2> QED
    BY <2>1, SeqMonotonic DEF ParseTypes
<1>4. arg = cmd_argv[optind] /\ arg # DashDash
  BY <1>1, <1>2, <1>3, DashDashIs DEF Cursors
<1>5. optind - 1 \in 0 .. Len(cmd_argv) /\ others \in Seq(Word) /\ Others(cmd_argv, optind) = others \o <<arg>>
  <2> DEFINE n == optind - 1
  <2>1. n \in 0 .. Len(cmd_argv) /\ n < Len(cmd_argv) /\ n + 1 = optind
    BY <1>1, <1>3
  <2> HIDE DEF n
  <2>2. Others(cmd_argv, n) \in Seq(Word) /\ Others(cmd_argv, n + 1) = Others(cmd_argv, n) \o <<arg>>
    BY <1>1, <1>3, <1>4, <2>1, OthersAre
  <2> QED
    BY <2>1, <2>2 DEF n
<1> DEFINE now == Others(cmd_argv, optind)
<1>6. arg \in Word
  BY <1>1, <1>3, ElementOfSeq
<1> HIDE DEF arg, others, now
<1>7. /\ now \in Seq(Word) /\ Len(now) = Len(others) + 1 /\ Len(others) \in Nat /\ now # <<>>
      /\ now[Len(others) + 1] = arg /\ \A k \in 1 .. Len(others) : now[k] = others[k]
  <2>1. now = others \o <<arg>> /\ others \in Seq(Word) /\ <<arg>> \in Seq(Word)
    BY <1>5, <1>6 DEF now
  <2>2. Append(others, arg) = now
    BY <1>6, <2>1, AppendIsConcat
  <2> QED
    BY <1>6, <2>1, <2>2, AppendProperties, LenProperties
<1>8. Others(cmd_argv, optind - 1)' = now
  <2>1. optind' - 1 = optind
    BY <1>1, <1>3
  <2> QED
    BY <1>1, <2>1 DEF Others, IsOption, now
<1>9. nonopt_end # None => nonopt_end < optind
  <2>1. nonopt_end # optind
    BY <1>1, <1>2 DEF Cursors, arg
  <2> QED
    BY <1>1, <1>3, <2>1 DEF Bounds
<1>10. /\ nonopt_start' \in Nat \ {0} /\ nonopt_start' + Len(now) = optind + 1 /\ nonopt_end' = None
       /\ now[1] = cmd
       /\ \A k \in 1 .. Len(now) : argv'[nonopt_start' + k - 1] = now[k]
       /\ \A k \in (optind + 1) .. Len(argv) : argv'[k] = argv[k]
       /\ Len(argv') = Len(argv)
  <2>1. CASE nonopt_start = None
    <3>1. optind = 1 /\ nonopt_end = None
      BY <1>2, <2>1 DEF Cursors
    <3>2. nonopt_start' = 1 /\ argv' = argv /\ nonopt_end' = None
      BY <1>1, <2>1, <3>1
    <3>3. others = <<>>
      <4>1. optind - 1 = 0 /\ 0 \in 0 .. Len(cmd_argv)
        BY <1>3, <3>1
      <4>2. Others(cmd_argv, 0) = <<>>
        BY <1>3, <4>1, OthersAre
      <4> QED
        BY <4>1, <4>2 DEF others
    <3>4. Len(now) = 1 /\ now[1] = arg /\ arg = cmd
      BY <1>3, <1>4, <1>7, <3>1, <3>3
    <3> QED
      BY <1>3, <3>1, <3>2, <3>4 DEF arg, None
  <2>2. CASE nonopt_start # None
    <3>1. /\ end <= optind /\ nonopt_start + Len(others) = end /\ others # <<>> /\ others[1] = cmd
          /\ \A k \in 1 .. Len(others) : argv[nonopt_start + k - 1] = others[k]
      BY <1>2, <2>2 DEF Cursors, Skipped, others, StandsAt
    <3>2. 1 \in 1 .. Len(others) /\ now[1] = cmd
      <4>1. Len(others) # 0
        BY <1>5, <3>1 DEF others
      <4>2. 1 \in 1 .. Len(others)
        BY <1>7, <4>1
      <4> QED
        BY <1>7, <3>1, <4>2
    <3>3. CASE nonopt_end = None
      <4>1. nonopt_start' = nonopt_start /\ argv' = argv /\ nonopt_end' = None
        BY <1>1, <2>2, <3>3
      <4>2. nonopt_start + Len(others) = optind
        BY <3>1, <3>3
      <4>3. ASSUME NEW k \in 1 .. Len(now)
            PROVE  argv[nonopt_start + k - 1] = now[k]
        <5>1. CASE k \in 1 .. Len(others)
          BY <1>7, <3>1, <5>1
        <5>2. CASE k = Len(others) + 1
          <6>1. nonopt_start + k - 1 = optind
            BY <1>3, <1>7, <4>2, <5>2
          <6> QED
            BY <1>7, <5>2, <6>1 DEF arg
        <5> QED
          BY <1>7, <5>1, <5>2
      <4>4. nonopt_start + Len(now) = optind + 1 /\ nonopt_start \in Nat \ {0}
        BY <1>3, <1>7, <2>2, <4>2 DEF None
      <4> QED
        BY <3>2, <4>1, <4>3, <4>4
    <3>4. CASE nonopt_end # None
      <4> DEFINE moved == permute_args(argv, nonopt_start, nonopt_end, optind)
                 now_start == optind - (nonopt_end - nonopt_start)
      <4>1. argv' = moved /\ nonopt_start' = now_start /\ nonopt_end' = None
        BY <1>1, <3>4
      <4>2. /\ nonopt_start \in Nat \ {0} /\ nonopt_start < nonopt_end /\ nonopt_end < optind
            /\ nonopt_start + Len(others) = nonopt_end /\ optind <= Len(argv) + 1
        BY <1>1, <1>3, <1>9, <2>2, <3>1, <3>4 DEF Bounds, None
      <4>3. /\ Len(moved) = Len(argv) /\ now_start \in Nat \ {0} /\ now_start + Len(others) = optind
            /\ \A k \in 1 .. Len(others) : moved[now_start + k - 1] = others[k]
            /\ \A k \in optind .. Len(argv) : moved[k] = argv[k]
        <5>1. Movable(argv, nonopt_start, nonopt_end, optind, others)
          BY <1>3, <1>5, <3>1, <4>2 DEF Movable, StandsAt
        <5>2. Moved(moved, argv, now_start, optind, others)
          BY <5>1, BlockMoves
        <5> HIDE DEF moved, now_start
        <5> QED
          BY <5>2 DEF Moved, StandsAt
      <4> HIDE DEF moved, now_start
      <4>4. ASSUME NEW k \in 1 .. Len(now)
            PROVE  moved[now_start + k - 1] = now[k]
        <5>1. CASE k \in 1 .. Len(others)
          BY <1>7, <4>3, <5>1
        <5>2. CASE k = Len(others) + 1
          <6>1. now_start + k - 1 = optind /\ optind \in optind .. Len(argv)
            BY <1>1, <1>3, <1>7, <4>3, <5>2
          <6>2. moved[optind] = arg
            BY <4>3, <6>1 DEF arg
          <6> QED
            BY <1>7, <5>2, <6>1, <6>2
        <5> QED
          BY <1>7, <5>1, <5>2
      <4>5. now_start + Len(now) = optind + 1
        BY <1>3, <1>7, <4>3
      <4>6. \A k \in (optind + 1) .. Len(argv) : moved[k] = argv[k]
        BY <1>3, <4>3
      <4> QED
        BY <3>2, <4>1, <4>3, <4>4, <4>5, <4>6
    <3> QED
      BY <3>3, <3>4
  <2> QED
    BY <2>1, <2>2
<1>11. Skipped'
  BY <1>1, <1>3, <1>7, <1>8, <1>10 DEF Skipped, None, StandsAt
<1>12. Cursors'
  <2>1. \A k \in optind' .. Len(argv') : argv'[k] = cmd_argv[k]
    <3>1. \A k \in optind .. Len(argv) : argv[k] = cmd_argv[k]
      BY <1>2 DEF Cursors
    <3>2. \A k \in (optind + 1) .. Len(argv) : k \in optind .. Len(argv)
      BY <1>3
    <3> QED
      BY <1>1, <1>10, <3>1, <3>2
  <2>2. \A k \in 1 .. (optind' - 1) : cmd_argv[k] # DashDash
    <3>1. \A k \in 1 .. (optind - 1) : cmd_argv[k] # DashDash
      BY <1>2 DEF Cursors
    <3>2. \A k \in 1 .. (optind' - 1) : k \in 1 .. (optind - 1) \/ k = optind
      BY <1>1, <1>3
    <3> QED
      BY <1>4, <3>1, <3>2
  <2>3. nonopt_start' # None /\ nonopt_end' # optind' /\ place' = <<>>
    BY <1>1, <1>3, <1>10 DEF None
  <2> QED
    BY <1>1, <1>11, <2>1, <2>2, <2>3 DEF Cursors
<1>13. Seen' = Seen
  <2>1. Options(cmd_argv, optind - 1)' = Options(cmd_argv, optind' - 1) /\ optind' - 1 = optind
    BY <1>1, <1>3, OptionsStay
  <2>2. Seen' = Options(cmd_argv, optind) \o <<>> /\ Seen = Options(cmd_argv, optind - 1) \o <<>>
    BY <1>1, <2>1 DEF Seen
  <2>3. Options(cmd_argv, optind) = Options(cmd_argv, optind - 1) \o <<>> /\ Options(cmd_argv, optind - 1) \in Seq(Meaning)
    <3> DEFINE n == optind - 1
    <3>1. n \in 0 .. Len(cmd_argv) /\ n < Len(cmd_argv) /\ n + 1 = optind
      BY <1>1, <1>3
    <3> HIDE DEF n
    <3>2. Options(cmd_argv, n) \in Seq(Meaning) /\ Options(cmd_argv, n + 1) = Options(cmd_argv, n) \o <<>>
      BY <1>1, <1>3, <1>4, <3>1, OptionsAre
    <3> QED
      BY <3>1, <3>2 DEF n
  <2> QED
    BY <2>2, <2>3, ConcatEmptySeq
<1>14. Amounts(Seen, 0) /\ found[1] = <<>> /\ found[CMD_NAME] = <<>>
  <2>1. ~Stuck
    BY <1>1 DEF Stuck, arg
  <2> QED
    BY <1>1, <2>1 DEF GetoptInv
<1>15. Amounts(Seen, 0)'
  BY <1>1, <1>13, <1>14 DEF Amounts, AmountTo
<1>16. InOption'
  BY <1>1 DEF InOption
<1> QED
  BY <1>1, <1>12, <1>14, <1>15, <1>16 DEF GetoptInv, CMD_NAME
-------------------------------------------------------------------------------
(* The steps after which getopt has come to the end of the options. *)

(* What stands behind the options, without the "--" that ended them. *)
Behind(line, n) ==
  LET rest == SubSeq(line, n + 1, Len(line))
  IN  IF ~posixly_correct /\ rest # <<>> THEN Tail(rest) ELSE rest

EndsAt(line) ==
  LET I == {i \in 1 .. Len(line) : Ends(line[i])}
      stop == IF I # {} THEN Min(I) ELSE 0
  IN  IF stop = 0 THEN Len(line) ELSE stop - 1

LineParts ==
  \A line : /\ OptionsEnd(line) = EndsAt(line)
            /\ Positionals(line) = Others(line, OptionsEnd(line)) \o Behind(line, OptionsEnd(line))
            /\ MeaningsOf(line) = Options(line, OptionsEnd(line))

LEMMA LinesHaveParts == LineParts
PROOF
<1> SUFFICES ASSUME NEW line
             PROVE  /\ OptionsEnd(line) = EndsAt(line)
                    /\ Positionals(line) = Others(line, OptionsEnd(line)) \o Behind(line, OptionsEnd(line))
                    /\ MeaningsOf(line) = Options(line, OptionsEnd(line))
  BY DEF LineParts
<1>1. OptionsEnd(line) = EndsAt(line)
  BY DEF OptionsEnd, SelectInSeq, Ends, EndsAt
<1>2. Positionals(line) = Others(line, OptionsEnd(line)) \o Behind(line, OptionsEnd(line))
  BY DEF Positionals, Others, Behind
<1>3. MeaningsOf(line) = Options(line, OptionsEnd(line))
  BY DEF MeaningsOf, Options
<1> QED
  BY <1>1, <1>2, <1>3

LEMMA MeaningStays ==
  ASSUME UNCHANGED <<cmd, posixly_correct>>
  PROVE  /\ \A line : OptionsEnd(line)' = OptionsEnd(line)
         /\ \A line : Positionals(line)' = Positionals(line)
         /\ \A line : MeaningsOf(line)' = MeaningsOf(line)
PROOF
<1>1. LineParts /\ LineParts'
  BY LinesHaveParts, PTL
<1>2. \A line : EndsAt(line)' = EndsAt(line)
  BY DEF EndsAt, Ends, IsOption
<1>3. \A line : OptionsEnd(line)' = OptionsEnd(line)
  BY <1>1, <1>2 DEF LineParts
<1>4. \A line, n : Behind(line, n)' = Behind(line, n)
  BY DEF Behind
<1>5. \A line, n : Others(line, n)' = Others(line, n)
  BY DEF Others, IsOption
<1>6. \A line, n : Options(line, n)' = Options(line, n)
  BY OptionsStay
<1>7. \A line : Positionals(line)' = Positionals(line)
  BY <1>1, <1>3, <1>4, <1>5 DEF LineParts
<1>8. \A line : MeaningsOf(line)' = MeaningsOf(line)
  BY <1>1, <1>3, <1>6 DEF LineParts
<1> QED
  BY <1>3, <1>7, <1>8

LEMMA PositionalsAre ==
  ASSUME NEW line \in Seq(Word), NEW n \in 0 .. Len(line), n = OptionsEnd(line)
  PROVE  /\ MeaningsOf(line) = Options(line, n)
         /\ Positionals(line) = Others(line, n) \o Behind(line, n)
         /\ Behind(line, n) = IF ~posixly_correct /\ n < Len(line) THEN SubSeq(line, n + 2, Len(line))
                              ELSE SubSeq(line, n + 1, Len(line))
         /\ Behind(line, n) \in Seq(Word)
PROOF
<1> DEFINE rest == SubSeq(line, n + 1, Len(line))
<1>1. Len(line) \in Nat /\ n \in Nat /\ n <= Len(line)
  OBVIOUS
<1>2. rest \in Seq(Word) /\ Len(rest) = Len(line) - n
  <2>1. \A i \in (n + 1) .. Len(line) : line[i] \in Word
    <3>1. \A i \in (n + 1) .. Len(line) : i \in 1 .. Len(line)
      BY <1>1
    <3> QED
      BY <3>1, ElementOfSeq
  <2>2. n + 1 \in Int /\ Len(line) - (n + 1) + 1 = Len(line) - n
    BY <1>1
  <2>3. Len(rest) = IF n + 1 <= Len(line) THEN Len(line) - (n + 1) + 1 ELSE 0
    BY <1>1, <2>1, SubSeqProperties
  <2> QED
    BY <1>1, <2>1, <2>2, <2>3, SubSeqProperties
<1>3. n < Len(line) => Tail(rest) = SubSeq(line, n + 2, Len(line))
  <2>1. n < Len(line) => n + 1 \in 1 .. Len(line) /\ Len(line) \in (n + 1) .. Len(line) /\ (n + 1) + 1 = n + 2
    BY <1>1
  <2> QED
    BY <2>1, HeadTailOfSubSeq
<1> HIDE DEF rest
<1>4. rest # <<>> <=> n < Len(line)
  <2>1. rest # <<>> <=> Len(rest) # 0
    BY <1>2, EmptySeq
  <2> QED
    BY <1>1, <1>2, <2>1
<1>5. rest # <<>> => Tail(rest) \in Seq(Word)
  BY <1>2, HeadTailProperties
<1>6. Behind(line, n) = IF ~posixly_correct /\ rest # <<>> THEN Tail(rest) ELSE rest
  BY DEF Behind, rest
<1> QED
  BY <1>2, <1>3, <1>4, <1>5, <1>6, LinesHaveParts DEF LineParts, rest
(* What getopt leaves behind: the values of the line, in their order. *)
LEMMA UntaggedBegins ==
  ASSUME ProgramInv, ParseTypes, GetoptInv, pc = "getopt", pc' = "untagged", tabindex' = 1, errorlast' = NoError,
         UNCHANGED <<found, errors, table, posixly_correct, cmd, cmd_argv>>, Len(argv') = Len(argv),
         Amounts(MeaningsOf(cmd_argv), 0), NEW values, values = Positionals(cmd_argv),
         values \in Seq(Word), values # <<>>, values[1] = cmd,
         optind' \in Nat, optind' + Len(values) = Len(argv) + 1, StandsAt(argv', optind', values)
  PROVE  UntaggedInv'
PROOF
<1>1. Positionals(cmd_argv)' = values /\ MeaningsOf(cmd_argv)' = MeaningsOf(cmd_argv)
  BY MeaningStays
<1>2. Len(values) \in Nat /\ Len(argv) \in Nat /\ Len(table) \in 3 .. 4
  BY TableIs DEF ParseTypes, Parsing
<1>3. Taken' = 0
  BY <1>1, <1>2 DEF Taken
<1>4. ASSUME NEW k \in optind' .. Len(argv)
      PROVE  argv'[k] = values[k + (Len(values) - Len(argv))]
  <2> DEFINE m == Len(values)  l == Len(argv)  o == optind'  j == k + (m - l)
  <2>0. m \in Nat /\ l \in Nat /\ o \in Nat /\ o + m = l + 1 /\ k \in o .. l
    BY <1>2
  <2>1. k + (m - l) \in 1 .. m /\ o + (k + (m - l)) - 1 = k
    <3> HIDE DEF m, l, o
    <3> QED
      BY <2>0
  <2> HIDE DEF j
  <2>2. argv'[optind' + j - 1] = values[j]
    BY <2>1 DEF StandsAt, j, m, o
  <2> QED
    BY <2>1, <2>2 DEF j, o, m, l
<1>5. Values(cmd_argv, Taken)'
  <2>1. found[1] = <<>> /\ found[2] = <<>>
    BY DEF GetoptInv, CMD_NAME
  <2>2. (found[1])' = <<>> /\ (found[CMD_NAME])' = <<>>
    BY <2>1 DEF CMD_NAME
  <2> QED
    BY <1>3, <2>2 DEF Values, CMD_NAME
<1>6. Amounts(MeaningsOf(cmd_argv), Excess(Taken, 2))'
  <2>1. Excess(Taken, 2)' = 0
    BY <1>3 DEF Excess
  <2> QED
    BY <1>1, <2>1 DEF Amounts, AmountTo
<1> DEFINE n == Len(table)
<1>7. 0 \in 0 .. Len(values) /\ 1 \notin 3 .. n /\ ~(1 > n) /\ 1 <= n + 1
  <2>1. n \in 3 .. 4
    BY <1>2
  <2> HIDE DEF n
  <2>2. 1 \notin 3 .. n /\ ~(1 > n) /\ 1 <= n + 1
    BY <2>1
  <2> QED
    BY <1>2, <2>2
<1>8. WalkedTo(tabindex, errorlast, Taken, Len(table), optind <= Len(argv))'
  <2>1. WalkedTo(tabindex', errorlast', Taken', n, (optind <= Len(argv))')
    BY <1>3, <1>7 DEF WalkedTo
  <2> QED
    BY <2>1 DEF WalkedTo
<1> QED
  BY <1>1, <1>2, <1>3, <1>4, <1>5, <1>6, <1>7, <1>8 DEF UntaggedInv

LEMMA StandsBehind ==
  ASSUME NEW w, NEW s \in Nat, NEW a \in Seq(Word), NEW b \in Seq(Word), StandsAt(w, s, a), StandsAt(w, s + Len(a), b)
  PROVE  StandsAt(w, s, a \o b)
PROOF
<1> DEFINE c == a \o b
<1>1. /\ Len(c) = Len(a) + Len(b) /\ Len(a) \in Nat /\ Len(b) \in Nat
      /\ \A i \in 1 .. Len(a) + Len(b) : c[i] = IF i <= Len(a) THEN a[i] ELSE b[i - Len(a)]
  BY ConcatProperties
<1> HIDE DEF c
<1>2. ASSUME NEW k \in 1 .. Len(c)
      PROVE  w[s + k - 1] = c[k]
  <2>1. CASE k <= Len(a)
    <3>1. k \in 1 .. Len(a) /\ k \in 1 .. Len(a) + Len(b)
      BY <1>1, <2>1
    <3> QED
      BY <1>1, <2>1, <3>1 DEF StandsAt
  <2>2. CASE ~(k <= Len(a))
    <3> DEFINE j == k - Len(a)
    <3>1. j \in 1 .. Len(b) /\ k \in 1 .. Len(a) + Len(b) /\ (s + Len(a)) + j - 1 = s + k - 1
      BY <1>1, <2>2
    <3>2. c[k] = b[j]
      BY <1>1, <2>2, <3>1
    <3> HIDE DEF j
    <3> QED
      BY <3>1, <3>2 DEF StandsAt
  <2> QED
    BY <2>1, <2>2
<1> QED
  BY <1>2 DEF StandsAt, c

(* Where getopt stops, the options of the line end. *)
LEMMA ScanEnds ==
  ASSUME ProgramInv, ParseTypes, Bounds, GetoptInv, AtNewArg, optind > Len(argv) \/ Ends(argv[optind]),
         NEW n, n = optind - 1
  PROVE  /\ n \in 0 .. Len(cmd_argv) /\ Cursors
         /\ Len(argv) \in Nat /\ Len(argv) = Len(cmd_argv) /\ argv \in Seq(Word) /\ cmd_argv \in Seq(Word)
         /\ Others(cmd_argv, n) \in Seq(Word)
         /\ n = OptionsEnd(cmd_argv)
         /\ ~Stuck => Amounts(MeaningsOf(cmd_argv), 0)
PROOF
<1>1. pc = "getopt" /\ place = <<>> /\ Cursors
  BY DEF GetoptInv, AtNewArg
<1>2. /\ argv \in Seq(Word) /\ cmd_argv \in Seq(Word) /\ Len(argv) = Len(cmd_argv) /\ Len(argv) \in Nat
      /\ optind \in Nat \ {0} /\ optind <= Len(argv) + 1
  <2>1. Given \subseteq Word
    BY GivenAreWords
  <2> QED
    BY <2>1, SeqMonotonic DEF ParseTypes, Bounds
<1>3. n \in 0 .. Len(cmd_argv) /\ n + 1 = optind
  BY <1>2
<1>4. ASSUME NEW k \in 1 .. n
      PROVE  ~Ends(cmd_argv[k])
  <2>1. ~posixly_correct
    <3>1. optind # 1
      BY <1>3
    <3> QED
      BY <1>1, <3>1 DEF Cursors
  <2>2. cmd_argv[k] # DashDash
    BY <1>1 DEF Cursors
  <2> QED
    BY <2>1, <2>2 DEF Ends
<1>5. n = Len(cmd_argv) \/ Ends(cmd_argv[n + 1])
  <2>1. optind > Len(argv) => n = Len(cmd_argv)
    BY <1>2
  <2>2. ~(optind > Len(argv)) => argv[optind] = cmd_argv[optind]
    BY <1>1, <1>2 DEF Cursors
  <2> QED
    BY <1>3, <2>1, <2>2
<1>6. n = OptionsEnd(cmd_argv)
  BY <1>2, <1>3, <1>4, <1>5, OptionsEndIs
<1>7. Others(cmd_argv, n) \in Seq(Word) /\ Options(cmd_argv, n) \in Seq(Meaning)
  BY <1>2, <1>3, OthersAre, OptionsAre
<1>8. Seen = MeaningsOf(cmd_argv)
  <2>1. Seen = Options(cmd_argv, n) \o <<>>
    BY <1>1 DEF Seen
  <2> QED
    BY <1>6, <1>7, <2>1, ConcatEmptySeq, LinesHaveParts DEF LineParts
<1>9. ~Stuck => Amounts(Seen, 0)
  BY <1>1 DEF GetoptInv
<1> QED
  BY <1>1, <1>2, <1>3, <1>6, <1>7, <1>8, <1>9
(* What Skipped and Cursors say where options of a line have ended. *)
LEMMA SkippedIs ==
  ASSUME ProgramInv, ParseTypes, Bounds, Cursors, optind > 1, NEW others, others = Others(cmd_argv, optind - 1),
         NEW end, end = IF nonopt_end = None THEN optind ELSE nonopt_end
  PROVE  /\ ~posixly_correct /\ nonopt_start \in Nat \ {0} /\ nonopt_start # None /\ end \in Nat /\ end <= optind
         /\ nonopt_start < end /\ nonopt_start + Len(others) = end /\ others # <<>> /\ others[1] = cmd
         /\ StandsAt(argv, nonopt_start, others)
PROOF
<1>1. /\ optind \in Nat \ {0} /\ nonopt_end \in Nat /\ nonopt_start \in Nat /\ nonopt_start < optind
      /\ nonopt_end # None => nonopt_start < nonopt_end
  BY DEF ParseTypes, Bounds
<1>2. nonopt_start # None
  BY <1>1 DEF Cursors
<1>3. ~posixly_correct /\ Skipped
  BY <1>2 DEF Cursors
<1>4. /\ end <= optind /\ nonopt_start + Len(others) = end /\ others # <<>> /\ others[1] = cmd
      /\ StandsAt(argv, nonopt_start, others)
  BY <1>3 DEF Skipped
<1>5. nonopt_start \in Nat \ {0} /\ end \in Nat /\ nonopt_start < end
  BY <1>1, <1>2 DEF None
<1> QED
  BY <1>2, <1>3, <1>4, <1>5

LEMMA EndBegins ==
  ASSUME ProgramInv, ParseTypes, Bounds, GetoptInv, UNCHANGED cliVars, getopt_end
  PROVE  UntaggedInv'
PROOF
<1> DEFINE n == optind - 1  others == Others(cmd_argv, n)
<1>1. /\ AtNewArg /\ optind > Len(argv) /\ pc = "getopt" /\ place = <<>>
      /\ pc' = "untagged" /\ tabindex' = 1 /\ errorlast' = NoError
      /\ UNCHANGED <<found, errors, table, posixly_correct, cmd, cmd_argv>>
      /\ IF nonopt_end = None /\ nonopt_start # None THEN optind' = nonopt_start /\ UNCHANGED argv
         ELSE PermuteUpTo(optind)
  BY DEF getopt_end, AtNewArg, StopScanning, results, given, cliVars
<1>2. /\ n \in 0 .. Len(cmd_argv) /\ Cursors
      /\ Len(argv) \in Nat /\ Len(argv) = Len(cmd_argv) /\ argv \in Seq(Word) /\ cmd_argv \in Seq(Word)
      /\ others \in Seq(Word) /\ n = OptionsEnd(cmd_argv)
      /\ ~Stuck => Amounts(MeaningsOf(cmd_argv), 0)
  BY <1>1, ScanEnds
<1>3. Amounts(MeaningsOf(cmd_argv), 0)
  <2>1. ~Stuck
    BY <1>1, <1>2 DEF Stuck, ParseTypes
  <2> QED
    BY <1>2, <2>1
<1>4. optind \in Nat /\ optind = Len(argv) + 1 /\ n = Len(cmd_argv) /\ nonopt_end \in Nat /\ optind > 1
  <2>1. optind \in Nat \ {0} /\ optind <= Len(argv) + 1 /\ cmd_argv # <<>> /\ nonopt_end \in Nat
    BY DEF ParseTypes, Bounds
  <2>2. Len(cmd_argv) # 0
    BY <1>2, <2>1, EmptySeq
  <2> QED
    BY <1>1, <1>2, <2>1, <2>2
<1>5. others = Others(cmd_argv, optind - 1)
  OBVIOUS
<1> HIDE DEF n, others
<1>6. Positionals(cmd_argv) = others
  <2>0. ~(n < Len(cmd_argv))
    BY <1>2, <1>4
  <2>1. /\ Positionals(cmd_argv) = others \o Behind(cmd_argv, n)
        /\ Behind(cmd_argv, n) = SubSeq(cmd_argv, n + 1, Len(cmd_argv))
    BY <1>2, <2>0, PositionalsAre DEF others
  <2>2. SubSeq(cmd_argv, n + 1, Len(cmd_argv)) = <<>>
    <3>1. n + 1 > Len(cmd_argv)
      BY <1>2, <1>4
    <3> QED
      BY <1>2, <1>4, <3>1, SubSeqEmpty
  <2> QED
    BY <1>2, <2>1, <2>2, ConcatEmptySeq
<1> DEFINE end == IF nonopt_end = None THEN optind ELSE nonopt_end
<1>7. /\ nonopt_start \in Nat \ {0} /\ nonopt_start # None /\ end \in Nat /\ end <= optind
      /\ nonopt_start < end /\ nonopt_start + Len(others) = end /\ others # <<>> /\ others[1] = cmd
      /\ StandsAt(argv, nonopt_start, others)
  BY <1>2, <1>4, <1>5, SkippedIs
<1>8. CASE nonopt_end = None
  <2>1. optind' = nonopt_start /\ argv' = argv
    BY <1>1, <1>7, <1>8
  <2>2. optind' \in Nat /\ optind' + Len(others) = Len(argv) + 1 /\ StandsAt(argv', optind', others)
    BY <1>4, <1>7, <1>8, <2>1
  <2> QED
    BY <1>1, <1>2, <1>3, <1>6, <1>7, <2>1, <2>2, UntaggedBegins
<1>9. CASE nonopt_end # None
  <2> DEFINE w == permute_args(argv, nonopt_start, nonopt_end, optind)
             s == optind - (nonopt_end - nonopt_start)
  <2>1. optind' = s /\ argv' = w
    BY <1>1, <1>9 DEF PermuteUpTo
  <2>2. nonopt_end < optind
    <3>1. nonopt_end = optind => optind <= Len(argv)
      BY <1>2 DEF Cursors
    <3>2. ~(optind <= Len(argv))
      BY <1>2, <1>4
    <3> QED
      BY <1>4, <1>7, <1>9, <3>1, <3>2
  <2>3. Movable(argv, nonopt_start, nonopt_end, optind, others)
    BY <1>2, <1>4, <1>7, <1>9, <2>2 DEF Movable
  <2>4. Moved(w, argv, s, optind, others)
    BY <2>3, BlockMoves
  <2> HIDE DEF w, s
  <2>5. Len(w) = Len(argv) /\ s \in Nat /\ s + Len(others) = Len(argv) + 1 /\ StandsAt(w, s, others)
    BY <1>4, <2>4 DEF Moved
  <2> QED
    BY <1>1, <1>2, <1>3, <1>6, <1>7, <2>1, <2>5, UntaggedBegins
<1> QED
  BY <1>8, <1>9

LEMMA PosixBegins ==
  ASSUME ProgramInv, ParseTypes, Bounds, GetoptInv, UNCHANGED cliVars, getopt_posix_nonoption
  PROVE  UntaggedInv'
PROOF
<1>1. /\ AtNewArg /\ optind <= Len(argv) /\ ~IsOption(argv[optind]) /\ posixly_correct /\ pc = "getopt"
      /\ pc' = "untagged" /\ tabindex' = 1 /\ errorlast' = NoError /\ UNCHANGED <<argv, optind>>
      /\ UNCHANGED <<found, errors, table, posixly_correct, cmd, cmd_argv>>
  BY DEF getopt_posix_nonoption, AtNewArg, scanner, results, given, cliVars
<1>2. optind = 1 /\ optind - 1 = 0
  <2>1. Cursors
    BY <1>1 DEF GetoptInv
  <2>2. optind = 1
    BY <1>1, <2>1 DEF Cursors
  <2> QED
    BY <2>2
<1>3. /\ Cursors /\ Len(argv) \in Nat /\ Len(argv) = Len(cmd_argv) /\ argv \in Seq(Word) /\ cmd_argv \in Seq(Word)
      /\ 0 = OptionsEnd(cmd_argv) /\ 0 \in 0 .. Len(cmd_argv)
      /\ ~Stuck => Amounts(MeaningsOf(cmd_argv), 0)
  <2>1. Ends(argv[optind])
    BY <1>1 DEF Ends
  <2> QED
    BY <1>1, <1>2, <2>1, ScanEnds
<1>4. Amounts(MeaningsOf(cmd_argv), 0)
  <2>1. ~Stuck
    BY <1>1 DEF Stuck
  <2> QED
    BY <1>3, <2>1
<1>5. Positionals(cmd_argv) = cmd_argv
  <2>1. /\ Positionals(cmd_argv) = Others(cmd_argv, 0) \o Behind(cmd_argv, 0)
        /\ Behind(cmd_argv, 0) = SubSeq(cmd_argv, 0 + 1, Len(cmd_argv))
    BY <1>1, <1>3, PositionalsAre
  <2>2. Others(cmd_argv, 0) = <<>>
    BY <1>3, OthersAre
  <2>3. SubSeq(cmd_argv, 0 + 1, Len(cmd_argv)) = cmd_argv
    BY <1>3, SubSeqFull
  <2> QED
    BY <1>3, <2>1, <2>2, <2>3, ConcatEmptySeq
<1>6. cmd_argv # <<>> /\ cmd_argv[1] = cmd
  BY DEF ParseTypes
<1>7. optind' = 1 /\ StandsAt(argv', optind', cmd_argv)
  <2>1. optind' = 1 /\ argv' = argv
    BY <1>1, <1>2
  <2>2. ASSUME NEW k \in 1 .. Len(cmd_argv)
        PROVE  argv[1 + k - 1] = cmd_argv[k]
    <3>1. 1 + k - 1 = k /\ k \in optind .. Len(argv)
      BY <1>2, <1>3
    <3> QED
      BY <1>3, <3>1 DEF Cursors
  <2> QED
    BY <2>1, <2>2 DEF StandsAt
<1>8. optind' \in Nat /\ optind' + Len(cmd_argv) = Len(argv) + 1
  BY <1>3, <1>7
<1> QED
  BY <1>1, <1>3, <1>4, <1>5, <1>6, <1>7, <1>8, UntaggedBegins
LEMMA DashDashBegins ==
  ASSUME ProgramInv, ParseTypes, Bounds, GetoptInv, UNCHANGED cliVars, getopt_dashdash
  PROVE  UntaggedInv'
PROOF
<1> DEFINE n == optind - 1  others == Others(cmd_argv, n)
           end == IF nonopt_end = None THEN optind ELSE nonopt_end
           w == permute_args(argv, nonopt_start, end, optind + 1)
           s == (optind + 1) - (end - nonopt_start)
           back == SubSeq(cmd_argv, optind + 1, Len(cmd_argv))
<1>1. /\ AtNewArg /\ optind <= Len(argv) /\ argv[optind] = DashDash /\ pc = "getopt" /\ place = <<>>
      /\ pc' = "untagged" /\ tabindex' = 1 /\ errorlast' = NoError
      /\ UNCHANGED <<found, errors, table, posixly_correct, cmd, cmd_argv>>
  BY DEF getopt_dashdash, AtNewArg, StopScanning, results, given, cliVars
<1>2. optind > 1 /\ optind \in Nat /\ Len(argv) \in Nat
  <2>1. optind \in Nat \ {0} /\ cmd_argv[1] = cmd /\ Len(argv) = Len(cmd_argv) /\ Len(argv) \in Nat
    BY DEF ParseTypes
  <2>2. optind # 1
    <3>1. Cursors /\ cmd \in Commands
      BY <1>1, TableIs DEF GetoptInv, Parsing
    <3>2. ASSUME optind = 1
          PROVE  argv[optind] = cmd
      <4>1. 1 \in optind .. Len(argv)
        BY <1>1, <2>1, <3>2
      <4> QED
        BY <2>1, <3>1, <3>2, <4>1 DEF Cursors
    <3> QED
      BY <1>1, <3>1, <3>2, CommandsAreNoOptions
  <2> QED
    BY <2>1, <2>2
<1>3. ~posixly_correct
  <2>1. Cursors
    BY <1>1 DEF GetoptInv
  <2> QED
    BY <1>2, <2>1 DEF Cursors
<1>4. /\ n \in 0 .. Len(cmd_argv) /\ Cursors
      /\ Len(argv) = Len(cmd_argv) /\ argv \in Seq(Word) /\ cmd_argv \in Seq(Word)
      /\ others \in Seq(Word) /\ n = OptionsEnd(cmd_argv)
      /\ ~Stuck => Amounts(MeaningsOf(cmd_argv), 0)
  <2>1. Ends(argv[optind])
    BY <1>1, <1>3 DEF Ends
  <2> QED
    BY <1>1, <2>1, ScanEnds
<1>5. Amounts(MeaningsOf(cmd_argv), 0)
  <2>1. ~Stuck
    BY <1>1, DashDashIs DEF Stuck
  <2> QED
    BY <1>4, <2>1
<1>6. others = Others(cmd_argv, optind - 1) /\ n + 2 = optind + 1 /\ n < Len(cmd_argv)
  BY <1>1, <1>2, <1>4
<1> HIDE DEF n, others
<1>7. Positionals(cmd_argv) = others \o back /\ back \in Seq(Word)
  <2>1. /\ Positionals(cmd_argv) = others \o Behind(cmd_argv, n)
        /\ Behind(cmd_argv, n) = SubSeq(cmd_argv, n + 2, Len(cmd_argv))
        /\ Behind(cmd_argv, n) \in Seq(Word)
    BY <1>3, <1>4, <1>6, PositionalsAre DEF others
  <2> QED
    BY <1>6, <2>1
<1>8. /\ nonopt_start \in Nat \ {0} /\ nonopt_start # None /\ end \in Nat /\ end <= optind
      /\ nonopt_start < end /\ nonopt_start + Len(others) = end /\ others # <<>> /\ others[1] = cmd
      /\ StandsAt(argv, nonopt_start, others)
  BY <1>2, <1>4, <1>6, SkippedIs
<1>9. argv' = w /\ optind' = s
  <2>1. (IF nonopt_start # None /\ nonopt_end = None THEN optind ELSE nonopt_end) = end
    BY <1>8
  <2>2. end # None
    BY <1>8 DEF None
  <2>3. IF end # None
        THEN /\ argv' = permute_args(argv, nonopt_start, end, optind + 1)
             /\ optind' = optind + 1 - (end - nonopt_start)
        ELSE UNCHANGED argv /\ optind' = optind + 1
    <3> HIDE DEF end
    <3> QED
      BY <2>1 DEF getopt_dashdash
  <2>4. argv' = permute_args(argv, nonopt_start, end, optind + 1)
    BY <2>2, <2>3
  <2>5. optind' = optind + 1 - (end - nonopt_start)
    BY <2>2, <2>3
  <2>6. argv' = w
    BY <2>4
  <2>7. optind' = s
    <3> HIDE DEF end
    <3>1. end \in Int /\ nonopt_start \in Int /\ optind \in Int
      BY <1>2, <1>8
    <3> QED
      BY <2>5, <3>1
  <2> QED
    BY <2>6, <2>7
<1> HIDE DEF end
<1>10. Moved(w, argv, s, optind + 1, others)
  <2>1. end < optind + 1 /\ optind + 1 <= Len(argv) + 1 /\ optind + 1 \in Nat
    BY <1>1, <1>2, <1>8
  <2>2. Movable(argv, nonopt_start, end, optind + 1, others)
    BY <1>4, <1>8, <2>1 DEF Movable
  <2> QED
    BY <2>2, BlockMoves
<1> HIDE DEF w, s
<1>11. Len(back) = Len(argv) - optind /\ \A j \in 1 .. (Len(argv) - optind) : back[j] = cmd_argv[optind + j]
  <2>1. \A i \in (optind + 1) .. Len(cmd_argv) : cmd_argv[i] \in Word
    <3>1. \A i \in (optind + 1) .. Len(cmd_argv) : i \in 1 .. Len(cmd_argv)
      BY <1>2, <1>4
    <3> QED
      BY <1>4, <3>1, ElementOfSeq
  <2> DEFINE o == optind + 1
  <2>2. o \in Nat /\ o <= Len(argv) + 1 /\ optind = o - 1
    BY <1>1, <1>2
  <2> HIDE DEF o
  <2>3. /\ Len(back) = IF o <= Len(argv) THEN Len(argv) - o + 1 ELSE 0
        /\ \A j \in 1 .. (Len(argv) - o + 1) : back[j] = cmd_argv[o + j - 1]
    BY <1>2, <1>4, <2>1, <2>2, SubSeqProperties DEF o
  <2>4. Len(argv) - o + 1 = Len(argv) - optind
    BY <1>2, <2>2
  <2>5. Len(back) = Len(argv) - optind
    BY <1>1, <1>2, <2>2, <2>3, <2>4
  <2>6. \A j \in 1 .. (Len(argv) - optind) : o + j - 1 = optind + j
    BY <2>2
  <2> QED
    BY <2>3, <2>4, <2>5, <2>6
<1> HIDE DEF back
<1>12. /\ Len(w) = Len(argv) /\ s \in Nat /\ s + Len(others) = optind + 1 /\ StandsAt(w, s, others)
       /\ \A k \in (optind + 1) .. Len(argv) : w[k] = argv[k]
  BY <1>10 DEF Moved
<1>13. StandsAt(w, s + Len(others), back)
  <2>1. ASSUME NEW j \in 1 .. Len(back)
        PROVE  w[(optind + 1) + j - 1] = back[j]
    <3>1. /\ (optind + 1) + j - 1 = optind + j /\ optind + j \in (optind + 1) .. Len(argv)
          /\ optind + j \in optind .. Len(argv) /\ j \in 1 .. (Len(argv) - optind)
      BY <1>2, <1>11
    <3>2. w[optind + j] = argv[optind + j] /\ argv[optind + j] = cmd_argv[optind + j]
      BY <1>4, <1>12, <3>1 DEF Cursors
    <3> QED
      BY <1>11, <3>1, <3>2
  <2> QED
    BY <1>12, <2>1 DEF StandsAt
<1> DEFINE values == others \o back
<1>14. StandsAt(w, s, values)
  BY <1>4, <1>7, <1>12, <1>13, StandsBehind
<1>15. /\ values \in Seq(Word) /\ Len(values) = Len(others) + Len(back) /\ values # <<>> /\ values[1] = cmd
  <2>1. Len(others) \in Nat /\ Len(others) # 0 /\ Len(back) \in Nat
    BY <1>4, <1>7, <1>8, EmptySeq
  <2>2. /\ values \in Seq(Word) /\ Len(values) = Len(others) + Len(back)
        /\ \A i \in 1 .. Len(others) + Len(back) : values[i] = IF i <= Len(others) THEN others[i] ELSE back[i - Len(others)]
    BY <1>4, <1>7, ConcatProperties
  <2> HIDE DEF values
  <2>3. Len(values) # 0 /\ 1 \in 1 .. Len(others) + Len(back) /\ 1 <= Len(others)
    BY <2>1, <2>2
  <2>4. values # <<>>
    BY <2>3
  <2> QED
    BY <1>8, <2>2, <2>3, <2>4
<1> HIDE DEF values
<1>16. s + Len(values) = Len(argv) + 1
  <2>1. Len(others) \in Nat /\ Len(values) = Len(others) + (Len(argv) - optind)
    BY <1>4, <1>11, <1>15
  <2> DEFINE a == Len(others)  l == Len(argv)  v == Len(values)
  <2>2. a \in Nat /\ l \in Nat /\ v = a + (l - optind) /\ s + a = optind + 1
    BY <1>2, <1>12, <2>1
  <2> HIDE DEF a, l, v
  <2>3. s + v = l + 1
    BY <1>2, <1>12, <2>2
  <2> QED
    BY <2>3 DEF l, v
<1>17. values = Positionals(cmd_argv)
  BY <1>7 DEF values
<1> QED
  BY <1>1, <1>5, <1>9, <1>12, <1>14, <1>15, <1>16, <1>17, UntaggedBegins
-------------------------------------------------------------------------------
(* The steps of arg_parse_untagged. *)

LEMMA LineTypes ==
  ASSUME NEW line \in Seq(Word)
  PROVE  Positionals(line) \in Seq(Word) /\ MeaningsOf(line) \in Seq(Meaning)
PROOF
<1> DEFINE n == OptionsEnd(line)
<1>1. n \in 0 .. Len(line)
  <2> DEFINE I == {i \in 1 .. Len(line) : Ends(line[i])}
             stop == IF I # {} THEN Min(I) ELSE 0
  <2>1. n = IF stop = 0 THEN Len(line) ELSE stop - 1
    BY LinesHaveParts DEF LineParts, EndsAt
  <2>2. Len(line) \in Nat /\ I \subseteq Nat /\ I \subseteq 1 .. Len(line)
    OBVIOUS
  <2>3. stop \in 0 .. Len(line)
    <3>1. ASSUME I # {}
          PROVE  stop \in 0 .. Len(line)
      <4>1. Min(I) \in I
        BY <2>2, <3>1, MinIsLeast
      <4>2. Min(I) \in 1 .. Len(line)
        BY <2>2, <4>1
      <4>3. stop = Min(I)
        BY <3>1
      <4> HIDE DEF stop, I
      <4> QED
        BY <2>2, <4>2, <4>3
    <3>2. ASSUME I = {}
          PROVE  stop \in 0 .. Len(line)
      BY <2>2, <3>2
    <3> QED
      BY <3>1, <3>2
  <2> HIDE DEF stop, n
  <2> QED
    BY <2>1, <2>2, <2>3
<1> HIDE DEF n
<1>2. /\ MeaningsOf(line) = Options(line, n) /\ Positionals(line) = Others(line, n) \o Behind(line, n)
      /\ Behind(line, n) \in Seq(Word)
  BY <1>1, PositionalsAre DEF n
<1>3. Others(line, n) \in Seq(Word) /\ Options(line, n) \in Seq(Meaning)
  BY <1>1, OthersAre, OptionsAre
<1> QED
  BY <1>2, <1>3, ConcatProperties

(* One more error, for whatever reason. *)
LEMMA ErrorAdds ==
  ASSUME ParseTypes, NEW seen \in Seq(Meaning), NEW more \in Nat, Amounts(seen, more), NEW error \in Err,
         errors' = arg_register_error(error), UNCHANGED found
  PROVE  AmountTo(found', errors', cmd, seen, more + 1)
PROOF
<1> DEFINE h == Count(seen, HELP)  l == Count(seen, LAZY)  q == Count(seen, <<"?">>)
           total == q + Excess(h, 1) + Excess(l, 1) + more
           next == q + Excess(h, 1) + Excess(l, 1) + (more + 1)
<1>1. h \in Nat /\ l \in Nat /\ q \in Nat
  BY CountNumber
<1>2. Len(errors) = Min({MaxErrors, total})
  BY DEF Amounts, AmountTo
<1> HIDE DEF h, l, q
<1>3. total \in Nat /\ next = total + 1 /\ MaxErrors \in Nat
  <2>1. Excess(h, 1) \in Nat /\ Excess(l, 1) \in Nat
    BY <1>1 DEF Excess
  <2> QED
    BY <1>1, <2>1, RoomForErrors
<1> HIDE DEF total, next
<1>4. Len(arg_register_error(error)) = IF Len(errors) < MaxErrors THEN Len(errors) + 1 ELSE Len(errors)
  <2>1. errors \in Seq(Err)
    BY DEF ParseTypes
  <2> QED
    BY <2>1, RegisterKeepsErrors
<1>5. /\ Len(errors) = IF MaxErrors <= total THEN MaxErrors ELSE total
      /\ Min({MaxErrors, next}) = IF MaxErrors <= next THEN MaxErrors ELSE next
  <2>1. next \in Nat
    BY <1>3
  <2> QED
    BY <1>2, <1>3, <2>1, MinIs
<1>6. Len(errors') = Min({MaxErrors, next})
  BY <1>3, <1>4, <1>5
<1> QED
  BY <1>6 DEF Amounts, AmountTo, next, h, l, q

(* The values taken or refused may grow, by those that come next. *)
LEMMA UntaggedJoins ==
  ASSUME ProgramInv, ParseTypes, pc = "untagged", UntaggedInv,
         UNCHANGED <<argv, table, posixly_correct, cmd, cmd_argv>>,
         NEW values, values = Positionals(cmd_argv), NEW t \in Nat, t = Taken + (optind' - optind),
         optind' = optind \/ (optind' = optind + 1 /\ optind <= Len(argv)),
         found'[1] = (IF t >= 1 THEN <<values[1]>> ELSE <<>>),
         found'[CMD_NAME] = (IF t >= 2 THEN <<values[2]>> ELSE <<>>),
         AmountTo(found', errors', cmd, MeaningsOf(cmd_argv), Excess(t, 2)),
         WalkedTo(tabindex', errorlast', t, Len(table), optind' <= Len(argv))
  PROVE  UntaggedInv'
PROOF
<1>1. Positionals(cmd_argv)' = values /\ MeaningsOf(cmd_argv)' = MeaningsOf(cmd_argv)
  BY MeaningStays
<1>2. values \in Seq(Word) /\ Len(values) \in Nat /\ Len(argv) \in Nat /\ optind \in Nat
  <2>1. cmd_argv \in Seq(Word) /\ Len(argv) \in Nat /\ optind \in Nat
    <3>1. Given \subseteq Word
      BY GivenAreWords
    <3> QED
      BY <3>1, SeqMonotonic DEF ParseTypes
  <2>2. values \in Seq(Word)
    BY <2>1, LineTypes
  <2> QED
    BY <2>1, <2>2
<1>3. /\ values # <<>> /\ values[1] = cmd
      /\ Taken = Len(values) - (Len(argv) + 1 - optind) /\ Taken \in 0 .. Len(values)
      /\ \A k \in optind .. Len(argv) : argv[k] = values[k + (Len(values) - Len(argv))]
  BY DEF UntaggedInv, Taken
<1>4. Taken' = t /\ t \in 0 .. Len(values)
  <2>1. Taken' = Len(values) - (Len(argv) + 1 - optind')
    BY <1>1 DEF Taken
  <2> DEFINE m == Len(values)  l == Len(argv)  o == optind'
  <2>2. /\ Taken' = m - (l + 1 - o) /\ Taken = m - (l + 1 - optind) /\ t = Taken + (o - optind)
        /\ m \in Nat /\ l \in Nat /\ Taken \in 0 .. m /\ (o = optind \/ (o = optind + 1 /\ optind <= l))
    BY <1>2, <1>3, <2>1
  <2> HIDE DEF m, l, o
  <2>3. Taken' = t /\ t \in 0 .. m
    BY <1>2, <2>2
  <2> QED
    BY <2>3 DEF m
<1>5. ASSUME NEW k \in optind' .. Len(argv)
      PROVE  argv[k] = values[k + (Len(values) - Len(argv))]
  <2>1. k \in optind .. Len(argv)
    BY <1>2
  <2> QED
    BY <1>3, <2>1
<1>6. Values(cmd_argv, Taken)'
  BY <1>1, <1>4 DEF Values, CMD_NAME
<1>7. Amounts(MeaningsOf(cmd_argv), Excess(Taken, 2))'
  <2>1. Excess(Taken, 2)' = Excess(t, 2)
    BY <1>4 DEF Excess
  <2> QED
    BY <1>1, <2>1 DEF Amounts, AmountTo
<1>8. WalkedTo(tabindex, errorlast, Taken, Len(table), optind <= Len(argv))'
  BY <1>4 DEF WalkedTo
<1> QED
  BY <1>1, <1>3, <1>4, <1>5, <1>6, <1>7, <1>8 DEF UntaggedInv

(* All values were taken or refused. *)
LEMMA AllTaken ==
  ASSUME ProgramInv, ParseTypes, UntaggedInv, pc = "untagged", optind > Len(argv), pc' = "check",
         UNCHANGED <<found, errors, posixly_correct, cmd, cmd_argv>>
  PROVE  ParsedInv'
PROOF
<1> DEFINE values == Positionals(cmd_argv)
<1>1. Positionals(cmd_argv)' = values /\ MeaningsOf(cmd_argv)' = MeaningsOf(cmd_argv)
  BY MeaningStays
<1>2. /\ values # <<>> /\ Taken \in 0 .. Len(values) /\ Values(cmd_argv, Taken)
      /\ Amounts(MeaningsOf(cmd_argv), Excess(Taken, 2))
  BY DEF UntaggedInv
<1>3. Len(values) \in Nat /\ Len(argv) \in Nat /\ optind \in Nat
  <2>1. cmd_argv \in Seq(Word) /\ Len(argv) \in Nat /\ optind \in Nat
    <3>1. Given \subseteq Word
      BY GivenAreWords
    <3> QED
      BY <3>1, SeqMonotonic DEF ParseTypes
  <2>2. values \in Seq(Word)
    BY <2>1, LineTypes
  <2> QED
    BY <2>1, <2>2
<1>4. Taken = Len(values)
  <2>1. Taken = Len(values) - (Len(argv) + 1 - optind)
    BY DEF Taken
  <2> DEFINE m == Len(values)  l == Len(argv)
  <2>2. Taken = m - (l + 1 - optind) /\ m \in Nat /\ l \in Nat /\ Taken \in 0 .. m /\ optind > l
    BY <1>2, <1>3, <2>1
  <2> HIDE DEF m, l
  <2>3. Taken = m
    BY <1>3, <2>2
  <2> QED
    BY <2>3 DEF m
<1>5. Values(cmd_argv, Len(Positionals(cmd_argv)))'
  BY <1>1, <1>2, <1>4 DEF Values, CMD_NAME
<1>6. Amounts(MeaningsOf(cmd_argv), Excess(Len(Positionals(cmd_argv)), 2))'
  <2>1. Excess(Len(Positionals(cmd_argv)), 2)' = Excess(Taken, 2)
    BY <1>1, <1>4 DEF Excess
  <2> QED
    BY <1>1, <1>2, <2>1 DEF Amounts, AmountTo
<1> QED
  BY <1>1, <1>2, <1>5, <1>6 DEF ParsedInv
(* What holds between the values and the table while values are handed out. *)
LEMMA UntaggedIs ==
  ASSUME ProgramInv, ParseTypes, UntaggedInv, pc = "untagged"
  PROVE  LET values == Positionals(cmd_argv)
         IN  /\ Taken \in Nat /\ optind \in Nat \ {0} /\ Len(argv) \in Nat /\ tabindex \in Nat \ {0}
             /\ Len(table) \in 3 .. 4
             /\ found[1] = IF Taken >= 1 THEN <<values[1]>> ELSE <<>>
             /\ found[2] = IF Taken >= 2 THEN <<values[2]>> ELSE <<>>
             /\ WalkedTo(tabindex, errorlast, Taken, Len(table), optind <= Len(argv))
             /\ Amounts(MeaningsOf(cmd_argv), Excess(Taken, 2))
             /\ MeaningsOf(cmd_argv) \in Seq(Meaning)
             /\ optind <= Len(argv) => argv[optind] = values[Taken + 1]
PROOF
<1> DEFINE values == Positionals(cmd_argv)
<1>1. cmd_argv \in Seq(Word) /\ Len(argv) \in Nat /\ optind \in Nat \ {0} /\ tabindex \in Nat \ {0}
  <2>1. Given \subseteq Word
    BY GivenAreWords
  <2> QED
    BY <2>1, SeqMonotonic DEF ParseTypes
<1>2. values \in Seq(Word) /\ MeaningsOf(cmd_argv) \in Seq(Meaning)
  BY <1>1, LineTypes
<1>3. Len(table) \in 3 .. 4
  BY TableIs DEF Parsing
<1>4. /\ Taken \in 0 .. Len(values) /\ Taken = Len(values) - (Len(argv) + 1 - optind)
      /\ \A k \in optind .. Len(argv) : argv[k] = values[k + (Len(values) - Len(argv))]
      /\ Values(cmd_argv, Taken)
      /\ Amounts(MeaningsOf(cmd_argv), Excess(Taken, 2))
      /\ WalkedTo(tabindex, errorlast, Taken, Len(table), optind <= Len(argv))
  BY DEF UntaggedInv, Taken
<1>5. Len(values) \in Nat
  BY <1>2
<1>6. /\ found[1] = IF Taken >= 1 THEN <<values[1]>> ELSE <<>>
      /\ found[2] = IF Taken >= 2 THEN <<values[2]>> ELSE <<>>
  BY <1>4 DEF Values, CMD_NAME
<1>7. ASSUME optind <= Len(argv)
      PROVE  argv[optind] = values[Taken + 1]
  <2>1. optind \in optind .. Len(argv)
    BY <1>1, <1>7
  <2> DEFINE m == Len(values)  l == Len(argv)
  <2>2. argv[optind] = values[optind + (m - l)]
    BY <1>4, <2>1
  <2>3. m \in Nat /\ l \in Nat /\ Taken = m - (l + 1 - optind)
    BY <1>1, <1>4, <1>5
  <2> HIDE DEF m, l
  <2>4. optind + (m - l) = Taken + 1
    BY <1>1, <2>3
  <2> HIDE DEF values
  <2> QED
    BY <2>2, <2>4
<1>8. Taken \in Nat
  BY <1>4, <1>5
<1> QED
  BY <1>1, <1>2, <1>3, <1>4, <1>6, <1>7, <1>8

LEMMA SkipKeeps ==
  ASSUME ProgramInv, ParseTypes, UntaggedInv, UNCHANGED cliVars, untagged_skip
  PROVE  UntaggedInv'
PROOF
<1> DEFINE values == Positionals(cmd_argv)  n == Taken  e == Len(table)
<1>1. /\ pc = "untagged" /\ tabindex <= e /\ IsTagged(table[tabindex]) /\ optind <= Len(argv)
      /\ tabindex' = tabindex + 1
      /\ UNCHANGED <<argv, table, posixly_correct, cmd, cmd_argv, optind, found, errors, errorlast>>
  BY DEF untagged_skip, AtUntagged, given, results, cliVars
<1>2. /\ n \in Nat /\ optind \in Nat \ {0} /\ tabindex \in Nat \ {0} /\ e \in 3 .. 4
      /\ found[1] = IF n >= 1 THEN <<values[1]>> ELSE <<>>
      /\ found[2] = IF n >= 2 THEN <<values[2]>> ELSE <<>>
      /\ WalkedTo(tabindex, errorlast, n, e, optind <= Len(argv))
      /\ Amounts(MeaningsOf(cmd_argv), Excess(n, 2))
  BY <1>1, UntaggedIs
<1>3. tabindex \in 3 .. e
  <2>1. ~IsTagged(table[1]) /\ ~IsTagged(table[2])
    BY <1>1, TableIs DEF Parsing, IsTagged, arg_strn
  <2> HIDE DEF e
  <2> QED
    BY <1>1, <1>2, <2>1
<1> HIDE DEF e
<1>4. n = 2
  BY <1>2, <1>3 DEF WalkedTo
<1>5. WalkedTo(tabindex + 1, errorlast, n, e, optind <= Len(argv))
  <2>1. tabindex + 1 # 1 /\ tabindex + 1 # 2 /\ tabindex + 1 <= e + 1 /\ tabindex + 1 >= 2
    BY <1>2, <1>3
  <2>2. errorlast # NoError => optind <= Len(argv)
    BY <1>2 DEF WalkedTo
  <2> QED
    BY <1>4, <2>1, <2>2 DEF WalkedTo
<1> HIDE DEF n, values
<1>6. n = Taken + (optind' - optind)
  BY <1>1, <1>2 DEF n
<1>7. AmountTo(found', errors', cmd, MeaningsOf(cmd_argv), Excess(n, 2))
  BY <1>1, <1>2 DEF Amounts
<1>8. WalkedTo(tabindex', errorlast', n, Len(table), optind' <= Len(argv))
  BY <1>1, <1>5 DEF e
<1>9. /\ found'[1] = (IF n >= 1 THEN <<values[1]>> ELSE <<>>)
      /\ found'[CMD_NAME] = (IF n >= 2 THEN <<values[2]>> ELSE <<>>)
  BY <1>1, <1>2 DEF CMD_NAME
<1> QED
  BY <1>1, <1>2, <1>6, <1>7, <1>8, <1>9, UntaggedJoins DEF values

(* A value goes into the entry for the name of the command, then into that *)
(* for the other name.                                                     *)
LEMMA ScanKeeps ==
  ASSUME ProgramInv, ParseTypes, UntaggedInv, UNCHANGED cliVars, untagged_scan
  PROVE  UntaggedInv'
PROOF
<1> DEFINE values == Positionals(cmd_argv)  n == Taken  e == Len(table)
<1>1. /\ pc = "untagged" /\ tabindex <= e /\ ~IsTagged(table[tabindex]) /\ optind <= Len(argv)
      /\ UNCHANGED <<argv, table, posixly_correct, cmd, cmd_argv, errors>>
  BY DEF untagged_scan, AtUntagged, given, cliVars
<1>2. /\ n \in Nat /\ optind \in Nat \ {0} /\ tabindex \in Nat \ {0} /\ e \in 3 .. 4
      /\ found[1] = IF n >= 1 THEN <<values[1]>> ELSE <<>>
      /\ found[2] = IF n >= 2 THEN <<values[2]>> ELSE <<>>
      /\ WalkedTo(tabindex, errorlast, n, e, optind <= Len(argv))
      /\ Amounts(MeaningsOf(cmd_argv), Excess(n, 2))
      /\ argv[optind] = values[n + 1]
  BY <1>1, UntaggedIs
<1>3. tabindex \in {1, 2} /\ 1 \in DOMAIN table /\ 2 \in DOMAIN table /\ DOMAIN found = DOMAIN table
      /\ \A i \in {1, 2} : table[i].maxcount = 1
  <2>1. /\ \A i \in DOMAIN table : i \notin {1, 2} => IsTagged(table[i])
        /\ \A i \in {1, 2} : table[i].maxcount = 1
        /\ DOMAIN table = 1 .. Len(table)
    <3>1. /\ DOMAIN table = 1 .. Len(table) /\ Len(table) \in 3 .. 4
          /\ table[1] = arg_strn(1, 1, 1) /\ table[2] = arg_strn(2, 0, 1)
          /\ table[3] = arg_litn("h", HELP, 0, 1, width)
          /\ 4 \in DOMAIN table => table[4] = arg_litn(NoOption, LAZY, 0, 1, width)
      BY <1>1, TableIs DEF Parsing
    <3>2. IsTagged(table[3])
      BY <3>1 DEF IsTagged, arg_litn, NoOption
    <3>3. 4 \in DOMAIN table => IsTagged(table[4])
      <4>1. LAZY # <<>>
        BY DEF LAZY
      <4> QED
        BY <3>1, <4>1 DEF IsTagged, arg_litn
    <3>4. \A i \in DOMAIN table : i \in {1, 2, 3, 4}
      BY <3>1
    <3>5. table[1].maxcount = 1 /\ table[2].maxcount = 1
      BY <3>1 DEF arg_strn
    <3> QED
      BY <3>1, <3>2, <3>3, <3>4, <3>5
  <2>2. tabindex \in DOMAIN table /\ 1 \in DOMAIN table /\ 2 \in DOMAIN table
    <3> HIDE DEF e
    <3>1. tabindex \in 1 .. e /\ 1 \in 1 .. e /\ 2 \in 1 .. e
      BY <1>1, <1>2
    <3> QED
      BY <2>1, <3>1 DEF e
  <2>3. DOMAIN found = DOMAIN table
    BY DEF ParseTypes
  <2> QED
    BY <1>1, <2>1, <2>2, <2>3
<1> HIDE DEF e, n, values
<1>4. tabindex = 1 => n <= 1
  BY <1>2 DEF WalkedTo
<1>5. tabindex = 2 => n \in 1 .. 2
  BY <1>2 DEF WalkedTo
<1>6. Excess(n, 2) = 0
  BY <1>2, <1>3, <1>4, <1>5 DEF Excess
<1>7. HasRoom(tabindex) <=> n + 1 = tabindex
  <2>1. HasRoom(tabindex) <=> Len(found[tabindex]) < 1
    BY <1>3 DEF HasRoom
  <2>2. CASE tabindex = 1
    <3>1. Len(found[1]) = IF n >= 1 THEN 1 ELSE 0
      BY <1>2
    <3> DEFINE a == Len(found[1])
    <3>2. HasRoom(tabindex) <=> a < 1
      BY <2>1, <2>2
    <3>3. a = (IF n >= 1 THEN 1 ELSE 0) /\ n \in Nat /\ n <= 1 /\ n + 1 >= 1
      BY <1>2, <1>4, <2>2, <3>1
    <3> HIDE DEF a
    <3>4. a < 1 <=> n + 1 = 1
      BY <3>3
    <3> QED
      BY <2>2, <3>2, <3>4
  <2>3. CASE tabindex = 2
    <3>1. Len(found[2]) = IF n >= 2 THEN 1 ELSE 0
      BY <1>2
    <3> DEFINE a == Len(found[2])
    <3>2. HasRoom(tabindex) <=> a < 1
      BY <2>1, <2>3
    <3>3. a = (IF n >= 2 THEN 1 ELSE 0) /\ n \in Nat /\ n <= 2 /\ n + 1 >= 2
      BY <1>2, <1>5, <2>3, <3>1
    <3> HIDE DEF a
    <3>4. a < 1 <=> n + 1 = 2
      BY <3>3
    <3> QED
      BY <2>3, <3>2, <3>4
  <2> QED
    BY <1>3, <2>2, <2>3
<1>8. CASE HasRoom(tabindex)
  <2>1. /\ found' = [found EXCEPT ![tabindex] = Append(@, argv[optind])]
        /\ optind' = optind + 1 /\ errorlast' = NoError /\ tabindex' = tabindex
    BY <1>8 DEF untagged_scan, Scan
  <2>2. n + 1 = tabindex
    BY <1>7, <1>8
  <2>3. found'[tabindex] = Append(found[tabindex], values[tabindex])
        /\ \A i \in DOMAIN table : i # tabindex => found'[i] = found[i]
    BY <1>2, <1>3, <2>1, <2>2
  <2>4. found[tabindex] = <<>>
    BY <1>2, <1>3, <2>2
  <2>5. found'[tabindex] = <<values[tabindex]>>
    BY <2>3, <2>4
  <2>6. /\ found'[1] = (IF n + 1 >= 1 THEN <<values[1]>> ELSE <<>>)
        /\ found'[2] = (IF n + 1 >= 2 THEN <<values[2]>> ELSE <<>>)
    <3>1. CASE tabindex = 1
      BY <1>2, <1>3, <2>2, <2>3, <2>5, <3>1
    <3>2. CASE tabindex = 2
      BY <1>2, <1>3, <2>2, <2>3, <2>5, <3>2
    <3> QED
      BY <1>3, <3>1, <3>2
  <2>7. AmountTo(found', errors', cmd, MeaningsOf(cmd_argv), Excess(n + 1, 2))
    <3>1. Excess(n + 1, 2) = 0
      BY <1>2, <1>3, <2>2 DEF Excess
    <3>2. found'[3] = found[3] /\ (cmd # HELP => found'[4] = found[4])
      <4>1. 3 \in DOMAIN table /\ (cmd # HELP => 4 \in DOMAIN table)
        BY <1>1, TableIs DEF Parsing
      <4> QED
        BY <1>3, <2>3, <4>1
    <3> QED
      BY <1>1, <1>2, <1>6, <3>1, <3>2 DEF Amounts, AmountTo, HELP_OPT, LAZY_OPT
  <2>8. WalkedTo(tabindex', errorlast', n + 1, Len(table), optind' <= Len(argv))
    <3>1. tabindex <= e /\ ~(tabindex > e) /\ tabindex <= e + 1 /\ tabindex \notin 3 .. e
      BY <1>1, <1>2, <1>3
    <3>2. WalkedTo(tabindex, NoError, n + 1, e, optind' <= Len(argv))
      BY <1>2, <1>3, <2>2, <3>1 DEF WalkedTo
    <3> QED
      BY <2>1, <3>2 DEF e
  <2>9. n + 1 \in Nat /\ n + 1 = Taken + (optind' - optind)
    BY <1>2, <2>1 DEF n
  <2> QED
    BY <1>1, <2>1, <2>6, <2>7, <2>8, <2>9, UntaggedJoins DEF values, CMD_NAME
<1>9. CASE ~HasRoom(tabindex)
  <2>1. /\ tabindex' = tabindex + 1 /\ optind' = optind /\ found' = found
    BY <1>9 DEF untagged_scan
  <2>2. n = tabindex
    BY <1>2, <1>3, <1>4, <1>5, <1>7, <1>9
  <2>3. /\ found'[1] = (IF n >= 1 THEN <<values[1]>> ELSE <<>>)
        /\ found'[2] = (IF n >= 2 THEN <<values[2]>> ELSE <<>>)
    BY <1>2, <2>1
  <2>4. AmountTo(found', errors', cmd, MeaningsOf(cmd_argv), Excess(n, 2))
    BY <1>1, <1>2, <2>1 DEF Amounts
  <2>5. WalkedTo(tabindex', errorlast', n, Len(table), optind' <= Len(argv))
    <3>1. tabindex + 1 <= e /\ ~(tabindex + 1 > e) /\ tabindex + 1 <= e + 1
      BY <1>1, <1>2, <1>3
    <3>2. WalkedTo(tabindex + 1, errorlast', n, e, optind <= Len(argv))
      BY <1>1, <1>2, <1>3, <2>2, <3>1 DEF WalkedTo
    <3> QED
      BY <2>1, <3>2 DEF e
  <2>6. n = Taken + (optind' - optind)
    BY <1>2, <2>1 DEF n
  <2> QED
    BY <1>1, <1>2, <2>1, <2>3, <2>4, <2>5, <2>6, UntaggedJoins DEF values, CMD_NAME
<1> QED
  BY <1>8, <1>9
(* No entry is left for these values. *)
LEMMA UnmatchedKeeps ==
  ASSUME ProgramInv, ParseTypes, UntaggedInv, UNCHANGED cliVars, untagged_unmatched
  PROVE  UntaggedInv' /\ ParsedInv'
PROOF
<1> DEFINE values == Positionals(cmd_argv)  n == Taken  e == Len(table)
<1>1. /\ pc = "untagged" /\ tabindex > e
      /\ UNCHANGED <<argv, table, posixly_correct, cmd, cmd_argv, found, tabindex>>
  BY DEF untagged_unmatched, AtUntagged, given, cliVars
<1>2. /\ n \in Nat /\ optind \in Nat \ {0} /\ tabindex \in Nat \ {0} /\ e \in 3 .. 4 /\ Len(argv) \in Nat
      /\ found[1] = IF n >= 1 THEN <<values[1]>> ELSE <<>>
      /\ found[2] = IF n >= 2 THEN <<values[2]>> ELSE <<>>
      /\ WalkedTo(tabindex, errorlast, n, e, optind <= Len(argv))
      /\ Amounts(MeaningsOf(cmd_argv), Excess(n, 2)) /\ MeaningsOf(cmd_argv) \in Seq(Meaning)
  BY <1>1, UntaggedIs
<1> HIDE DEF e, n, values
<1>3. n >= 2 /\ tabindex <= e + 1
  BY <1>1, <1>2 DEF WalkedTo
<1>4. CASE pc' = "untagged"
  <2>1. /\ errorlast' = NoError /\ optind' = optind + 1 /\ optind <= Len(argv)
        /\ errors' = arg_register_error(errorlast) \/ errors' = arg_register_error(Error("ENOMATCH", 0))
    <3>1. CASE errorlast # NoError
      <4>1. errors' = arg_register_error(errorlast) /\ errorlast' = NoError /\ optind' = optind + 1
        BY <3>1 DEF untagged_unmatched
      <4>2. optind <= Len(argv)
        BY <1>2, <3>1 DEF WalkedTo
      <4> QED
        BY <4>1, <4>2
    <3>2. CASE errorlast = NoError
      <4>1. /\ errorlast' = errorlast
            /\ IF optind <= Len(argv)
               THEN errors' = arg_register_error(Error("ENOMATCH", 0)) /\ optind' = optind + 1 /\ UNCHANGED pc
               ELSE pc' = "check" /\ UNCHANGED <<errors, optind>>
        BY <3>2 DEF untagged_unmatched
      <4>2. optind <= Len(argv)
        BY <1>4, <4>1
      <4> QED
        BY <3>2, <4>1, <4>2
    <3> QED
      BY <3>1, <3>2
  <2>2. Error("ENOMATCH", 0) \in Err /\ errorlast \in Err
    BY ErrorIsErr DEF Kind, ParseTypes
  <2>3. Excess(n, 2) \in Nat /\ Excess(n + 1, 2) = Excess(n, 2) + 1
    BY <1>2, <1>3 DEF Excess
  <2>4. AmountTo(found', errors', cmd, MeaningsOf(cmd_argv), Excess(n + 1, 2))
    <3> DEFINE seen == MeaningsOf(cmd_argv)  more == Excess(n, 2)
    <3>1. seen \in Seq(Meaning) /\ more \in Nat /\ Amounts(seen, more)
      BY <1>2, <2>3
    <3> HIDE DEF seen, more
    <3>2. AmountTo(found', errors', cmd, seen, more + 1)
      <4>1. CASE errors' = arg_register_error(errorlast)
        BY <1>1, <2>2, <3>1, <4>1, ErrorAdds
      <4>2. CASE errors' = arg_register_error(Error("ENOMATCH", 0))
        BY <1>1, <2>2, <3>1, <4>2, ErrorAdds
      <4> QED
        BY <2>1, <4>1, <4>2
    <3> QED
      BY <2>3, <3>2 DEF seen, more
  <2>5. WalkedTo(tabindex', errorlast', n + 1, Len(table), optind' <= Len(argv))
    <3>1. tabindex # 1 /\ tabindex # 2 /\ tabindex \notin 3 .. e /\ n + 1 >= 2
      BY <1>1, <1>2, <1>3
    <3> QED
      BY <1>1, <1>3, <2>1, <3>1 DEF WalkedTo, e
  <2>6. n + 1 \in Nat /\ n + 1 = Taken + (optind' - optind)
    BY <1>2, <2>1 DEF n
  <2>7. /\ found'[1] = (IF n + 1 >= 1 THEN <<values[1]>> ELSE <<>>)
        /\ found'[CMD_NAME] = (IF n + 1 >= 2 THEN <<values[2]>> ELSE <<>>)
    BY <1>1, <1>2, <1>3 DEF CMD_NAME
  <2>8. UntaggedInv'
    BY <1>1, <2>1, <2>4, <2>5, <2>6, <2>7, UntaggedJoins DEF values
  <2>9. ParsedInv'
    BY <1>4 DEF ParsedInv
  <2> QED
    BY <2>8, <2>9
<1>5. CASE pc' # "untagged"
  <2>1. pc' = "check" /\ UNCHANGED errors /\ ~(optind <= Len(argv))
    BY <1>1, <1>5 DEF untagged_unmatched
  <2>2. optind > Len(argv)
    BY <1>2, <2>1
  <2>3. ParsedInv'
    BY <1>1, <2>1, <2>2, AllTaken
  <2>4. UntaggedInv'
    BY <2>1 DEF UntaggedInv
  <2> QED
    BY <2>3, <2>4
<1> QED
  BY <1>4, <1>5

(* An entry with too few values is looked for in vain: only the first must *)
(* have one, and has the name of the command.                              *)
LEMMA CheckKeeps ==
  ASSUME ProgramInv, ParseTypes, ParsedInv, UNCHANGED cliVars, arg_parse_check
  PROVE  ParsedInv'
PROOF
<1> DEFINE values == Positionals(cmd_argv)
           missing == [i \in DOMAIN table |-> IF TooFew(i) THEN <<Error("MINCOUNT", i)>> ELSE <<>>]
<1>1. /\ pc = "check" /\ errors' = (IF errors # <<>> THEN errors ELSE FlattenSeq(missing))
      /\ UNCHANGED <<found, posixly_correct, cmd, cmd_argv>>
  BY DEF arg_parse_check, given, cliVars
<1>2. /\ Values(cmd_argv, Len(values)) /\ values # <<>>
      /\ Amounts(MeaningsOf(cmd_argv), Excess(Len(values), 2))
  BY <1>1 DEF ParsedInv
<1>3. values \in Seq(Word) /\ Len(values) \in Nat /\ Len(values) >= 1
  <2>1. cmd_argv \in Seq(Word)
    <3>1. Given \subseteq Word
      BY GivenAreWords
    <3> QED
      BY <3>1, SeqMonotonic DEF ParseTypes
  <2>2. values \in Seq(Word)
    BY <2>1, LineTypes
  <2>3. Len(values) # 0
    BY <1>2, <2>2, EmptySeq
  <2> QED
    BY <2>2, <2>3
<1>4. Positionals(cmd_argv)' = values /\ MeaningsOf(cmd_argv)' = MeaningsOf(cmd_argv)
  BY <1>1, MeaningStays
<1>5. missing = [i \in 1 .. Len(table) |-> <<>>] /\ Len(table) \in 3 .. 4
  <2>1. /\ DOMAIN table = 1 .. Len(table) /\ Len(table) \in 3 .. 4
        /\ table[1] = arg_strn(1, 1, 1) /\ table[2] = arg_strn(2, 0, 1)
        /\ table[3] = arg_litn("h", HELP, 0, 1, width)
        /\ 4 \in DOMAIN table => table[4] = arg_litn(NoOption, LAZY, 0, 1, width)
    BY <1>1, TableIs DEF Parsing
  <2>2. found \in [DOMAIN table -> Seq(Word)]
    BY DEF ParseTypes
  <2>3. ~TooFew(1)
    <3>1. found[1] = <<values[1]>>
      BY <1>2, <1>3 DEF Values
    <3>2. Len(found[1]) = 1 /\ table[1].mincount = 1
      BY <2>1, <3>1 DEF arg_strn
    <3> QED
      BY <3>2 DEF TooFew
  <2>4. ASSUME NEW i \in DOMAIN table, i # 1
        PROVE  ~TooFew(i)
    <3>1. i \in {2, 3, 4}
      BY <2>1, <2>4
    <3>2. table[i].mincount = 0
      BY <2>1, <2>4, <3>1 DEF arg_strn, arg_litn
    <3>3. Len(found[i]) \in Nat
      BY <2>2, <2>4, LenProperties
    <3> QED
      BY <3>2, <3>3 DEF TooFew
  <2>5. \A i \in DOMAIN table : ~TooFew(i)
    BY <2>3, <2>4
  <2> QED
    BY <2>1, <2>5
<1> HIDE DEF missing, values
<1>6. FlattenSeq(missing) = <<>>
  <2> DEFINE b == [i \in 1 .. 4 |-> <<>>]
             flat(n) == FlattenSeq([i \in 1 .. n |-> b[i]])
  <2>1. \A i \in 1 .. 4 : b[i] = <<>> /\ b[i] \in Seq(Word)
    BY EmptySeq
  <2>2. ASSUME NEW n \in 0 .. 3
        PROVE  flat(n + 1) = flat(n) \o <<>>
    <3>1. n \in Nat /\ n + 1 \in 1 .. 4 /\ \A i \in 1 .. (n + 1) : i \in 1 .. 4
      OBVIOUS
    <3>2. \A i \in 1 .. (n + 1) : b[i] \in Seq(Word)
      BY <2>1, <3>1
    <3>3. b[n + 1] = <<>>
      BY <2>1, <3>1
    <3> HIDE DEF b
    <3> QED
      BY <3>1, <3>2, <3>3, FlatNext
  <2>3. flat(0) = <<>>
    BY FlatNone
  <2>4. flat(0 + 1) = flat(0) \o <<>> /\ flat(1 + 1) = flat(1) \o <<>> /\ flat(2 + 1) = flat(2) \o <<>>
        /\ flat(3 + 1) = flat(3) \o <<>>
    BY <2>2
  <2>5. \A i \in 1 .. Len(table) : i \in 1 .. 4
    <3> DEFINE e == Len(table)
    <3>1. e \in 3 .. 4
      BY <1>5
    <3> HIDE DEF e
    <3>2. \A i \in 1 .. e : i \in 1 .. 4
      BY <3>1
    <3> QED
      BY <3>2 DEF e
  <2>6. missing = [i \in 1 .. Len(table) |-> b[i]]
    BY <1>5, <2>1, <2>5
  <2> HIDE DEF flat
  <2>7. flat(1) = <<>> /\ flat(2) = <<>> /\ flat(3) = <<>> /\ flat(4) = <<>>
    <3>1. <<>> \o <<>> = <<>>
      OBVIOUS
    <3>2. flat(1) = <<>>
      BY <2>3, <2>4, <3>1
    <3>3. flat(2) = <<>>
      BY <2>4, <3>1, <3>2
    <3>4. flat(3) = <<>>
      BY <2>4, <3>1, <3>3
    <3> QED
      BY <2>4, <3>1, <3>2, <3>3, <3>4
  <2>8. missing = [i \in 1 .. 3 |-> b[i]] \/ missing = [i \in 1 .. 4 |-> b[i]]
    <3>1. Len(table) = 3 \/ Len(table) = 4
      BY <1>5
    <3> QED
      BY <2>6, <3>1
  <2> HIDE DEF b
  <2> QED
    BY <2>7, <2>8 DEF flat
<1>7. errors' = errors
  BY <1>1, <1>6
<1>8. Values(cmd_argv, Len(Positionals(cmd_argv)))'
  BY <1>1, <1>2, <1>4 DEF Values, CMD_NAME, values
<1>9. Amounts(MeaningsOf(cmd_argv), Excess(Len(Positionals(cmd_argv)), 2))'
  <2>1. Excess(Len(Positionals(cmd_argv)), 2)' = Excess(Len(values), 2)
    BY <1>4 DEF Excess
  <2> QED
    BY <1>1, <1>2, <1>4, <1>7, <2>1 DEF Amounts, AmountTo
<1> QED
  BY <1>2, <1>4, <1>8, <1>9 DEF ParsedInv
-------------------------------------------------------------------------------
(* The parser does what the line means, from its first step to its last. *)

NothingFirst == \A line : Options(line, 0) = <<>>

LEMMA NothingIsFirst == NothingFirst
PROOF
<1> SUFFICES ASSUME NEW line
             PROVE  Options(line, 0) = <<>>
  BY DEF NothingFirst
<1> DEFINE b == [i \in 1 .. 0 |-> IF IsOption(line[i]) THEN Meanings(line[i]) ELSE <<>>]
<1>1. Options(line, 0) = FlattenSeq(b)
  BY DEF Options
<1>2. b = [i \in 1 .. 0 |-> b[i]]
  OBVIOUS
<1> HIDE DEF b
<1> QED
  BY <1>1, <1>2, FlatNone

LEMMA GetoptBegins ==
  ASSUME width \in Nat, arg_parse(cmd_argv', argtable(cmd')), cmd' \in Commands,
         cmd_argv' # <<>>, cmd_argv' \in Seq(Given)
  PROVE  GetoptInv'
PROOF
<1>1. /\ argv' = cmd_argv' /\ optind' = 1 /\ place' = <<>> /\ nonopt_start' = None /\ nonopt_end' = None
      /\ found' = [i \in DOMAIN argtable(cmd') |-> <<>>] /\ errors' = <<>>
  BY DEF arg_parse, arg_end
<1>2. 1 \in DOMAIN argtable(cmd') /\ 2 \in DOMAIN argtable(cmd') /\ 3 \in DOMAIN argtable(cmd')
      /\ (cmd' # HELP => 4 \in DOMAIN argtable(cmd'))
  BY ArgTableIs, LenProperties
<1> DEFINE entries == DOMAIN argtable(cmd')
<1>a. found' = [i \in entries |-> <<>>] /\ 1 \in entries /\ 2 \in entries /\ 3 \in entries
      /\ (cmd' # HELP => 4 \in entries)
  <2>1. found' = [i \in entries |-> <<>>]
    BY <1>1
  <2> QED
    BY <1>2, <2>1
<1> HIDE DEF entries
<1>3. found'[1] = <<>> /\ found'[2] = <<>> /\ found'[3] = <<>> /\ (cmd' # HELP => found'[4] = <<>>)
  BY <1>a
<1>4. Cursors'
  <2>1. nonopt_end' # optind'
    BY <1>1 DEF None
  <2>2. \A k \in 1 .. (optind' - 1) : FALSE
    BY <1>1
  <2>3. \A k \in optind' .. Len(argv') : argv'[k] = cmd_argv'[k]
    BY <1>1
  <2> QED
    BY <1>1, <2>1, <2>2, <2>3 DEF Cursors
<1>5. Seen' = <<>>
  <2>1. NothingFirst'
    BY NothingIsFirst, PTL
  <2>2. optind' - 1 = 0
    BY <1>1
  <2>3. Options(cmd_argv, optind - 1)' = <<>>
    BY <2>1, <2>2 DEF NothingFirst
  <2> QED
    BY <1>1, <2>3 DEF Seen
<1>6. Amounts(Seen, 0)'
  <2>1. \A x : Count(<<>>, x) = 0
    BY CountNone
  <2>2. Excess(0, 1) = 0 /\ Min({1, 0}) = 0 /\ Min({MaxErrors, 0}) = 0 /\ Len(<<>>) = 0
    BY MinIs, RoomForErrors DEF Excess
  <2>3. Len(found'[3]) = 0 /\ Len(errors') = 0 /\ (cmd' # HELP => Len(found'[4]) = 0)
    BY <1>1, <1>3
  <2>4. Min({MaxErrors, 0 + 0 + 0 + 0}) = 0
    BY <2>2
  <2> QED
    BY <1>5, <2>1, <2>2, <2>3, <2>4 DEF Amounts, AmountTo, HELP_OPT, LAZY_OPT
<1>7. InOption'
  BY <1>1 DEF InOption
<1> QED
  BY <1>1, <1>3, <1>4, <1>6, <1>7 DEF GetoptInv, CMD_NAME

LEMMA ParserStep ==
  ASSUME ProgramInv, ParseTypes, pc = "getopt" => Bounds, GetoptInv, UntaggedInv, ParsedInv,
         ParseStep, UNCHANGED cliVars
  PROVE  GetoptInv' /\ UntaggedInv' /\ ParsedInv'
PROOF
<1>1. ASSUME pc' = "getopt"
      PROVE  UntaggedInv' /\ ParsedInv'
  BY <1>1 DEF UntaggedInv, ParsedInv
<1>2. ASSUME pc' = "untagged"
      PROVE  GetoptInv' /\ ParsedInv'
  BY <1>2 DEF GetoptInv, ParsedInv
<1>3. ASSUME pc' \in {"check", "parsed"}
      PROVE  GetoptInv' /\ UntaggedInv'
  BY <1>3 DEF GetoptInv, UntaggedInv
<1>4. CASE getopt_end
  <2>1. pc = "getopt" /\ pc' = "untagged"
    BY <1>4 DEF getopt_end, AtNewArg, StopScanning
  <2> QED
    BY <1>2, <1>4, <2>1, EndBegins
<1>5. CASE getopt_dashdash
  <2>1. pc = "getopt" /\ pc' = "untagged"
    BY <1>5 DEF getopt_dashdash, AtNewArg, StopScanning
  <2> QED
    BY <1>2, <1>5, <2>1, DashDashBegins
<1>6. CASE getopt_posix_nonoption
  <2>1. pc = "getopt" /\ pc' = "untagged"
    BY <1>6 DEF getopt_posix_nonoption, AtNewArg
  <2> QED
    BY <1>2, <1>6, <2>1, PosixBegins
<1>7. CASE getopt_nonoption
  <2>1. pc = "getopt" /\ pc' = "getopt"
    BY <1>7 DEF getopt_nonoption, AtNewArg
  <2> QED
    BY <1>1, <1>7, <2>1, NonoptionKeeps
<1>8. CASE getopt_malformed
  <2>1. pc = "getopt" /\ pc' = "getopt"
    BY <1>8 DEF getopt_malformed, AtOption
  <2> QED
    BY <1>1, <1>8, <2>1, MalformedKeeps
<1>9. CASE getopt_long_option
  <2>1. pc = "getopt" /\ pc' = "getopt"
    BY <1>9 DEF getopt_long_option, AtOption
  <2> QED
    BY <1>1, <1>9, <2>1, LongKeeps
<1>10. CASE getopt_short_option
  <2>1. pc = "getopt" /\ pc' = "getopt"
    BY <1>10 DEF getopt_short_option, AtOption
  <2> QED
    BY <1>1, <1>10, <2>1, ShortKeeps
<1>11. CASE untagged_exhausted
  <2>1. /\ pc = "untagged" /\ pc' = "check" /\ optind > Len(argv)
        /\ UNCHANGED <<found, errors, posixly_correct, cmd, cmd_argv>>
    BY <1>11 DEF untagged_exhausted, AtUntagged, results, given, cliVars
  <2> QED
    BY <1>3, <2>1, AllTaken
<1>12. CASE untagged_skip
  <2>1. pc' = "untagged"
    BY <1>12 DEF untagged_skip, AtUntagged
  <2> QED
    BY <1>2, <1>12, <2>1, SkipKeeps
<1>13. CASE untagged_scan
  <2>1. pc' = "untagged"
    BY <1>13 DEF untagged_scan, AtUntagged
  <2> QED
    BY <1>2, <1>13, <2>1, ScanKeeps
<1>14. CASE untagged_unmatched
  <2>1. pc' \in {"untagged", "check"}
    BY <1>14 DEF untagged_unmatched, AtUntagged
  <2> QED
    BY <1>14, <1>2, <1>3, <2>1, UnmatchedKeeps
<1>15. CASE arg_parse_check
  <2>1. pc' = "parsed"
    BY <1>15 DEF arg_parse_check
  <2> QED
    BY <1>3, <1>15, <2>1, CheckKeeps
<1> QED
  BY <1>4, <1>5, <1>6, <1>7, <1>8, <1>9, <1>10, <1>11, <1>12, <1>13, <1>14, <1>15 DEF ParseStep

LEMMA ParseStepKeeps ==
  ASSUME TableInv, ProgramInv, TypeInv, ParseInv, [Next]_vars
  PROVE  ParseInv'
PROOF
<1>1. ASSUME pc' \notin Parsing
      PROVE  ParseInv'
  BY <1>1 DEF ParseInv, GetoptInv, UntaggedInv, ParsedInv, Parsing
<1>2. CASE ParseStep /\ UNCHANGED cliVars
  <2>1. pc \in Parsing
    BY <1>2, ParseMoves DEF Parsing
  <2>2. ParseTypes /\ (pc = "getopt" => Bounds) /\ GetoptInv /\ UntaggedInv /\ ParsedInv
    BY <2>1 DEF TypeInv, ParseInv
  <2>3. GetoptInv' /\ UntaggedInv' /\ ParsedInv'
    BY <1>2, <2>2, ParserStep
  <2> QED
    BY <2>3 DEF ParseInv
<1>3. ASSUME UNCHANGED parseVars, UNCHANGED <<cmd, cmd_argv>>
      PROVE  ParseInv'
  <2>1. /\ UNCHANGED <<pc, table, posixly_correct, argv, optind, place, nonopt_start, nonopt_end,
                       found, errors, tabindex, errorlast>>
    BY <1>3 DEF parseVars
  <2>2. /\ \A line : Positionals(line)' = Positionals(line)
        /\ \A line : MeaningsOf(line)' = MeaningsOf(line)
        /\ \A line, n : Options(line, n)' = Options(line, n) /\ \A arg : Meanings(arg)' = Meanings(arg)
    BY <1>3, <2>1, MeaningStays, OptionsStay
  <2>a. Others(cmd_argv, optind - 1)' = Others(cmd_argv, optind - 1)
    BY <1>3, <2>1 DEF Others, IsOption
  <2>b. StandsAt(argv, nonopt_start, Others(cmd_argv, optind - 1))'
          <=> StandsAt(argv, nonopt_start, Others(cmd_argv, optind - 1))
    BY <2>1, <2>a DEF StandsAt
  <2>c. Skipped' <=> Skipped
    BY <1>3, <2>1, <2>a, <2>b DEF Skipped
  <2>d. Cursors => Cursors'
    BY <1>3, <2>1, <2>c DEF Cursors, IsOption
  <2>e. InOption => InOption'
    <3>1. SUFFICES ASSUME InOption, place # <<>>
                   PROVE  InOption'
      BY <2>1 DEF InOption
    <3> DEFINE arg == argv[optind]
               j == Len(arg) - Len(place)
    <3>2. j \in 2 .. (Len(arg) - 1) /\ Letter(arg, j) /\ place = SubSeq(arg, j + 1, Len(arg))
      BY <3>1 DEF InOption
    <3>3. arg' = arg /\ j' = j /\ (Letter(arg, j)' <=> Letter(arg, j))
      BY <2>1 DEF Letter
    <3> QED
      BY <2>1, <3>2, <3>3 DEF InOption
  <2>f. Stuck => Stuck'
    BY <2>1 DEF Stuck
  <2>4. \A seen, more : Amounts(seen, more)' = Amounts(seen, more)
    BY <1>3, <2>1 DEF Amounts, AmountTo
  <2>5. Seen' = Seen
    BY <1>3, <2>1, <2>2 DEF Seen
  <2>6. GetoptInv => GetoptInv'
    BY <1>3, <2>1, <2>d, <2>e, <2>f, <2>4, <2>5 DEF GetoptInv
  <2>7. UntaggedInv => UntaggedInv'
    BY <1>3, <2>1, <2>2, <2>4 DEF UntaggedInv, Taken, Values, WalkedTo, Excess
  <2>8. ParsedInv => ParsedInv'
    BY <1>3, <2>1, <2>2, <2>4 DEF ParsedInv, Values, Excess
  <2> QED
    BY <2>1, <2>6, <2>7, <2>8 DEF ParseInv
<1>4. CASE append_text
  BY <1>3, <1>4 DEF append_text, InHandler, parsing, parseVars, scanner, results, untagged
<1>5. CASE UNCHANGED vars
  BY <1>3, <1>5 DEF vars, cliVars
<1>6. CASE register_cmd
  BY <1>1, <1>6 DEF register_cmd, Parsing
<1>7. CASE main_cleanup
  BY <1>1, <1>7 DEF main_cleanup, Parsing
<1>8. CASE main_dispatch \/ help_command
  <2>1. CASE pc' \in Parsing
    <3>1. /\ arg_parse(cmd_argv', argtable(cmd')) /\ cmd' \in Commands
          /\ cmd_argv' \in Seq(Given) /\ cmd_argv' # <<>>
      BY <1>8, <2>1, ParseBegins
    <3>2. width \in Nat /\ pc' = "getopt"
      BY <3>1 DEF ProgramInv, arg_parse
    <3>3. GetoptInv'
      BY <3>1, <3>2, GetoptBegins
    <3> QED
      BY <3>2, <3>3 DEF ParseInv, UntaggedInv, ParsedInv
  <2> QED
    BY <1>1, <2>1
<1>9. CASE Handlers /\ ~help_command
  BY <1>1, <1>9, HandlersLeave
<1> QED
  BY <1>2, <1>4, <1>5, <1>6, <1>7, <1>8, <1>9, NextCases
-------------------------------------------------------------------------------
(* Parsed as it is meant. *)

LEMMA ParseBeginning ==
  ASSUME Init
  PROVE  ParseInv
PROOF
<1>1. pc = "register"
  BY DEF Init
<1> QED
  BY <1>1 DEF ParseInv, GetoptInv, UntaggedInv, ParsedInv

LEMMA LineIsMeant ==
  ASSUME ProgramInv, TypeInv, ParseInv, pc = "parsed"
  PROVE  /\ Len(errors) = Min({MaxErrors, Mistakes(cmd_argv)}) /\ Mistakes(cmd_argv) \in Nat
         /\ \A i \in {1, CMD_NAME} : found[i] = Nth(Positionals(cmd_argv), i)
         /\ Len(found[HELP_OPT]) = Min({1, Count(MeaningsOf(cmd_argv), HELP)})
         /\ cmd # HELP => Len(found[LAZY_OPT]) = Min({1, Count(MeaningsOf(cmd_argv), LAZY)})
         /\ Count(MeaningsOf(cmd_argv), HELP) \in Nat /\ Count(MeaningsOf(cmd_argv), LAZY) \in Nat
PROOF
<1> DEFINE values == Positionals(cmd_argv)
           options == MeaningsOf(cmd_argv)
           more == Excess(Len(values), 2)
<1>1. pc \in Parsing /\ pc \in {"check", "parsed"}
  BY DEF Parsing
<1>2. ParseTypes /\ Values(cmd_argv, Len(values)) /\ Amounts(options, more)
  BY <1>1 DEF TypeInv, ParseInv, ParsedInv
<1>3. cmd_argv \in Seq(Word)
  <2>1. Given \subseteq Word /\ cmd_argv \in Seq(Given)
    BY <1>2, GivenAreWords DEF ParseTypes
  <2> QED
    BY <2>1
<1>4. values \in Seq(Word) /\ options \in Seq(Meaning)
  BY <1>3, LineTypes
<1>5. Mistakes(cmd_argv) = Count(options, <<"?">>) + Excess(Count(options, HELP), 1)
                           + Excess(Count(options, LAZY), 1) + more
  BY DEF Mistakes
<1>6. /\ found[1] = IF Len(values) >= 1 THEN <<values[1]>> ELSE <<>>
      /\ found[CMD_NAME] = IF Len(values) >= 2 THEN <<values[2]>> ELSE <<>>
  BY <1>2 DEF Values
<1> HIDE DEF values, options
<1>7. Count(options, <<"?">>) \in Nat /\ Count(options, HELP) \in Nat /\ Count(options, LAZY) \in Nat
  BY <1>4, CountNumber
<1>8. Mistakes(cmd_argv) \in Nat
  BY <1>4, <1>5, <1>7 DEF Excess, more
<1>9. Len(errors) = Min({MaxErrors, Mistakes(cmd_argv)})
  BY <1>2, <1>5 DEF Amounts, AmountTo
<1>10. \A i \in {1, CMD_NAME} : found[i] = Nth(values, i)
  <2>1. DOMAIN values = 1 .. Len(values) /\ Len(values) \in Nat
    BY <1>4
  <2>2. 1 \in DOMAIN values <=> Len(values) >= 1
    BY <2>1
  <2>3. 2 \in DOMAIN values <=> Len(values) >= 2
    BY <2>1
  <2> QED
    BY <1>6, <2>2, <2>3 DEF Nth, CMD_NAME
<1>11. /\ Len(found[HELP_OPT]) = Min({1, Count(options, HELP)})
       /\ cmd # HELP => Len(found[LAZY_OPT]) = Min({1, Count(options, LAZY)})
  BY <1>2 DEF Amounts, AmountTo
<1> QED
  BY <1>7, <1>8, <1>9, <1>10, <1>11 DEF values, options

(* Whatever the order of the arguments, in which getopt moves them about,  *)
(* the parse has the options, the values in their order and the number of  *)
(* errors that the line means (argtable3.c:1591, 1793, 5392).              *)
THEOREM LinesAreParsedAsMeant == Spec => []ParsedAsMeant
PROOF
<1>1. Init => TableInv /\ ProgramInv /\ TypeInv /\ ParseInv
  BY TableInit, ProgramInit, ParseBeginning
<1>2. TableInv /\ ProgramInv /\ TypeInv /\ ParseInv /\ [Next]_vars
        => (TableInv /\ ProgramInv /\ TypeInv /\ ParseInv)'
  BY TableStep, ProgramStep, TypeStep, ParseStepKeeps
<1>3. ProgramInv /\ TypeInv /\ ParseInv => ParsedAsMeant
  BY LineIsMeant DEF ParsedAsMeant
<1> QED
  BY <1>1, <1>2, <1>3, PTL DEF Spec

-------------------------------------------------------------------------------
(* The core is armed as the line means. *)

(* The --help that help adds is seen. *)
LEMMA HelpIsSeen ==
  ASSUME NEW c \in Commands, ~posixly_correct
  PROVE  Count(MeaningsOf(<<c, DashDash \o HELP>>), HELP) # 0
PROOF
<1> DEFINE long == DashDash \o HELP
           line == <<c, long>>
<1>1. /\ long \in Word /\ Len(long) = 4 /\ long[1] = "-" /\ long[2] = "-" /\ long[3] = "h" /\ long[4] = "elp"
  <2>1. DashDash \in Seq(Pieces) /\ Len(DashDash) = 2 /\ DashDash[1] = "-" /\ DashDash[2] = "-"
    BY PiecesOfWords DEF DashDash
  <2>2. HELP \in Seq(Pieces) /\ Len(HELP) = 2 /\ HELP[1] = "h" /\ HELP[2] = "elp"
    BY PiecesOfWords DEF HELP
  <2>3. /\ long \in Seq(Pieces) /\ Len(long) = 4
        /\ \A i \in 1 .. 4 : long[i] = IF i <= 2 THEN DashDash[i] ELSE HELP[i - 2]
    BY <2>1, <2>2, ConcatProperties
  <2> HIDE DEF long
  <2>4. 1 \in 1 .. 4 /\ 2 \in 1 .. 4 /\ 3 \in 1 .. 4 /\ 4 \in 1 .. 4
    OBVIOUS
  <2> QED
    BY <2>1, <2>2, <2>3, <2>4 DEF Word
<1>2. c \in Word
  BY Distinct DEF Commands
<1>3. IsOption(long) /\ long # DashDash
  <2>1. Head(long) = "-" /\ Len(long) > 1
    BY <1>1 DEF Word
  <2>2. Len(DashDash) = 2
    BY DEF DashDash
  <2> QED
    BY <1>1, <2>1, <2>2 DEF IsOption
<1>4. ~IsOption(c) /\ c # DashDash
  BY CommandsAreNoOptions
<1>5. Meanings(long) = <<HELP>>
  <2> HIDE DEF long
  <2>1. FirstDash(long) = 1
    <3>0. Len(long) > 1 /\ Len(long) - 1 = 3
      BY <1>1
    <3>1. FirstDash(long) \in 0 .. 3 /\ (FirstDash(long) = 0 => \A k \in 2 .. 4 : long[k] # "-")
          /\ (FirstDash(long) # 0 => long[FirstDash(long) + 1] = "-" /\ \A k \in 2 .. FirstDash(long) : long[k] # "-")
      BY <1>1, <3>0, FirstDashIs
    <3>2. 2 \in 2 .. 4
      OBVIOUS
    <3>3. FirstDash(long) # 0
      BY <1>1, <3>1, <3>2
    <3>4. FirstDash(long) >= 2 => 2 \in 2 .. FirstDash(long)
      BY <3>1
    <3> QED
      BY <1>1, <3>1, <3>3, <3>4
  <2>2. SubSeq(long, 3, 4) = HELP
    <3>1. HELP \in Word /\ Len(HELP) = 2 /\ HELP[1] = "h" /\ HELP[2] = "elp"
      BY PiecesOfWords DEF HELP, Word
    <3>2. \A i \in 3 .. 4 : long[i] \in Pieces
      BY <1>1 DEF Word
    <3>3. /\ SubSeq(long, 3, 4) \in Seq(Pieces) /\ Len(SubSeq(long, 3, 4)) = 2
          /\ \A i \in 1 .. 2 : SubSeq(long, 3, 4)[i] = long[3 + i - 1]
      BY <3>2, SubSeqProperties
    <3>4. SubSeq(long, 3, 4)[1] = long[3] /\ SubSeq(long, 3, 4)[2] = long[4]
      <4>1. 1 \in 1 .. 2 /\ 2 \in 1 .. 2 /\ 3 + 1 - 1 = 3 /\ 3 + 2 - 1 = 4
        OBVIOUS
      <4> QED
        BY <3>3, <4>1
    <3>5. \A i \in 1 .. 2 : i = 1 \/ i = 2
      OBVIOUS
    <3> QED
      BY <1>1, <3>1, <3>3, <3>4, <3>5, SeqEqual DEF Word
  <2>3. MeaningOfName(HELP) = HELP
    <3> DEFINE full == {n \in LongNames : IsPrefix(HELP, n)}
    <3>1. full = {HELP}
      BY PrefixOfNames DEF LongNames
    <3>2. Cardinality(full) = 1
      BY <3>1, FS_Singleton
    <3>3. ~Contains(HELP, "=")
      BY DEF Contains, HELP
    <3>4. (CHOOSE n \in LongNames : IsPrefix(HELP, n)) = HELP
      BY <3>1
    <3> HIDE DEF full
    <3>5. MeaningOfName(HELP) = IF Contains(HELP, "=") \/ Cardinality(full) # 1 THEN <<"?">>
                                ELSE CHOOSE n \in LongNames : IsPrefix(HELP, n)
      BY DEF MeaningOfName, full
    <3> QED
      BY <3>2, <3>3, <3>4, <3>5
  <2>4. Meanings(long) \in Seq(Meaning) /\ Len(Meanings(long)) = 1 /\ Meanings(long)[1] = HELP
    <3>1. FirstDash(long) # 0 /\ FirstDash(long) + 2 = 3 /\ Len(long) = 4 /\ Len(long) > 1
      BY <1>1, <2>1
    <3>2. /\ Meanings(long) \in Seq(Meaning)
          /\ Len(Meanings(long)) = IF FirstDash(long) = 0 THEN Len(long) - 1 ELSE FirstDash(long)
          /\ FirstDash(long) # 0 =>
               Meanings(long)[FirstDash(long)] = MeaningOfName(SubSeq(long, FirstDash(long) + 2, Len(long)))
      BY <1>1, <3>1, MeaningsAre
    <3> QED
      BY <2>1, <2>2, <2>3, <3>1, <3>2
  <2>5. <<HELP>> \in Seq(Meaning) /\ Len(<<HELP>>) = 1 /\ <<HELP>>[1] = HELP
    BY DEF Meaning
  <2>6. \A i \in 1 .. Len(Meanings(long)) : Meanings(long)[i] = <<HELP>>[i]
    BY <2>4, <2>5
  <2> QED
    BY <2>4, <2>5, <2>6, SeqEqual
<1> HIDE DEF long
<1>6. line \in Seq(Word) /\ Len(line) = 2 /\ line[1] = c /\ line[2] = long
  BY <1>1, <1>2
<1>7. line = <<c, DashDash \o HELP>>
  BY DEF long
<1> HIDE DEF line
<1>8. OptionsEnd(line) = 2
  <2>1. \A k \in 1 .. 2 : ~Ends(line[k])
    <3>1. ~Ends(c) /\ ~Ends(long)
      BY <1>3, <1>4 DEF Ends
    <3>2. \A k \in 1 .. 2 : k = 1 \/ k = 2
      OBVIOUS
    <3> QED
      BY <1>6, <3>1, <3>2
  <2>2. 2 \in 0 .. Len(line)
    BY <1>6
  <2> QED
    BY <1>6, <2>1, <2>2, OptionsEndIs
<1>9. MeaningsOf(line) = <<HELP>>
  <2>1. MeaningsOf(line) = Options(line, 2)
    BY <1>8, LinesHaveParts DEF LineParts
  <2>2. Options(line, 1) = <<>>
    <3>1. Options(line, 0) = <<>> /\ Options(line, 0 + 1) = Options(line, 0) \o <<>>
      BY <1>4, <1>6, OptionsAre
    <3>2. <<>> \o <<>> = <<>>
      OBVIOUS
    <3>3. 0 + 1 = 1
      OBVIOUS
    <3> QED
      BY <3>1, <3>2, <3>3
  <2>3. Options(line, 1 + 1) = Options(line, 1) \o Meanings(line[1 + 1])
    <3>1. 1 \in 0 .. Len(line) /\ 1 < Len(line) /\ line[1 + 1] = long
      BY <1>6
    <3> QED
      BY <1>3, <1>6, <3>1, OptionsAre
  <2>4. 1 + 1 = 2 /\ <<>> \o <<HELP>> = <<HELP>>
    OBVIOUS
  <2> QED
    BY <1>5, <1>6, <2>1, <2>2, <2>3, <2>4
<1>10. <<HELP>> \in Seq(Meaning) /\ 1 \in DOMAIN <<HELP>> /\ <<HELP>>[1] = HELP
  BY DEF Meaning
<1>11. Count(<<HELP>>, HELP) # 0
  <2>1. Count(<<HELP>>, HELP) = 0 <=> \A i \in DOMAIN <<HELP>> : <<HELP>>[i] # HELP
    BY <1>10, CountPositive
  <2> QED
    BY <1>10, <2>1
<1> QED
  BY <1>7, <1>9, <1>11

(* What the handlers go by. *)
LEMMA HandlersMean ==
  ASSUME ProgramInv, TypeInv, ParseInv, pc = "parsed", ~posixly_correct
  PROVE  /\ cmd = HELP => args[1] = HELP
         /\ found[HELP_OPT] # <<>> => ~Commanded
         /\ found[HELP_OPT] = <<>> /\ errors = <<>> /\ cmd \in {STORE, SWITCH} =>
              Commanded /\ cmd = args[1] /\ (is_lazy <=> CommandedLazily)
PROOF
<1> DEFINE helps == Count(MeaningsOf(cmd_argv), HELP)
           lazies == Count(MeaningsOf(cmd_argv), LAZY)
<1>1. Dispatched /\ ParseTypes /\ pc \in Parsing
  BY DEF ProgramInv, TypeInv, Parsing
<1>2. /\ Len(errors) = Min({MaxErrors, Mistakes(cmd_argv)}) /\ Mistakes(cmd_argv) \in Nat
      /\ Len(found[HELP_OPT]) = Min({1, helps})
      /\ cmd # HELP => Len(found[LAZY_OPT]) = Min({1, lazies})
      /\ helps \in Nat /\ lazies \in Nat
  BY LineIsMeant
<1>3. cmd = HELP => args[1] = HELP
  BY <1>1 DEF Dispatched
<1> HIDE DEF helps, lazies
<1>4. /\ DOMAIN table = 1 .. Len(table) /\ Len(table) = (IF cmd = HELP THEN 3 ELSE 4)
      /\ found \in [DOMAIN table -> Seq(Word)]
  BY <1>1, TableIs, ArgTableIs DEF ParseTypes, ProgramInv
<1>5. found[HELP_OPT] = <<>> <=> helps = 0
  <2>1. found[HELP_OPT] \in Seq(Word)
    BY <1>4 DEF HELP_OPT
  <2>2. found[HELP_OPT] = <<>> <=> Len(found[HELP_OPT]) = 0
    BY <2>1, EmptySeq
  <2>3. Min({1, helps}) = IF 1 <= helps THEN 1 ELSE helps
    BY <1>2, MinIs
  <2> QED
    BY <1>2, <2>2, <2>3
<1>6. found[HELP_OPT] # <<>> => ~Commanded
  <2>1. CASE cmd_argv = args
    BY <1>5, <2>1 DEF Commanded, helps
  <2>2. CASE args[1] = HELP
    BY <2>2, Distinct DEF Commanded
  <2> QED
    BY <1>1, <2>1, <2>2 DEF Dispatched
<1>7. ASSUME found[HELP_OPT] = <<>>, errors = <<>>, cmd \in {STORE, SWITCH}
      PROVE  Commanded /\ cmd = args[1] /\ (is_lazy <=> CommandedLazily)
  <2>1. cmd_argv = args /\ args # <<>> /\ cmd = args[1]
    <3>1. CASE cmd_argv = <<cmd, DashDash \o HELP>>
      <4>1. cmd \in Commands
        BY <1>7 DEF Commands
      <4>2. Count(MeaningsOf(<<cmd, DashDash \o HELP>>), HELP) # 0
        BY <4>1, HelpIsSeen
      <4>3. helps # 0
        BY <3>1, <4>2 DEF helps
      <4> QED
        BY <1>5, <1>7, <4>3
    <3> QED
      BY <1>1, <3>1 DEF Dispatched
  <2>2. Mistakes(args) = 0
    <3>1. Len(errors) = 0
      BY <1>7
    <3>2. MaxErrors \in Nat \ {0}
      BY RoomForErrors
    <3>3. Min({MaxErrors, Mistakes(cmd_argv)})
            = IF MaxErrors <= Mistakes(cmd_argv) THEN MaxErrors ELSE Mistakes(cmd_argv)
      BY <1>2, <3>2, MinIs
    <3>4. Mistakes(cmd_argv) = 0
      BY <1>2, <3>1, <3>2, <3>3
    <3> QED
      BY <2>1, <3>4
  <2>3. Commanded
    BY <1>5, <1>7, <2>1, <2>2 DEF Commanded, helps
  <2>4. cmd # HELP
    BY <1>7, Distinct
  <2>5. is_lazy <=> lazies > 0
    <3>1. found[LAZY_OPT] \in Seq(Word)
      BY <1>4, <2>4 DEF LAZY_OPT
    <3>2. found[LAZY_OPT] = <<>> <=> Len(found[LAZY_OPT]) = 0
      BY <3>1, EmptySeq
    <3>3. Min({1, lazies}) = IF 1 <= lazies THEN 1 ELSE lazies
      BY <1>2, MinIs
    <3> QED
      BY <1>2, <2>4, <3>2, <3>3 DEF is_lazy
  <2> QED
    BY <2>1, <2>3, <2>5 DEF CommandedLazily, lazies
<1> QED
  BY <1>3, <1>6, <1>7

LEMMA CommandedStays ==
  ASSUME UNCHANGED <<cmd, args, posixly_correct>>
  PROVE  Commanded' = Commanded /\ CommandedLazily' = CommandedLazily
PROOF
<1>1. /\ \A line : Positionals(line)' = Positionals(line)
      /\ \A line : MeaningsOf(line)' = MeaningsOf(line)
  BY MeaningStays
<1>2. Mistakes(args)' = Mistakes(args)
  BY <1>1 DEF Mistakes
<1>3. Count(MeaningsOf(args), HELP)' = Count(MeaningsOf(args), HELP)
      /\ Count(MeaningsOf(args), LAZY)' = Count(MeaningsOf(args), LAZY)
  BY <1>1 DEF Count
<1> QED
  BY <1>2, <1>3 DEF Commanded, CommandedLazily

(* Before the core is armed, and at an end before that. *)
LEMMA NotArmed ==
  ASSUME action' = NoAction, ~slept',
         \/ pc' \notin Late \cup {"list", "cleanup", "exit"}
         \/ pc' = "list" /\ args[1]' = HELP
         \/ pc' \in {"cleanup", "exit"} /\ (exitcode' = 0 => ~Commanded')
  PROVE  ArmedInv'
PROOF
BY DEF ArmedInv, Late

LEMMA ArmedStep ==
  ASSUME TableInv, ProgramInv, TypeInv, ParseInv, ArmedInv, [Next]_vars
  PROVE  ArmedInv'
PROOF
<1> SUFFICES ASSUME ~posixly_correct'
             PROVE  ArmedInv'
  BY DEF ArmedInv
<1>1. ASSUME UNCHANGED <<args, cmd, posixly_correct>>
      PROVE  Commanded' = Commanded /\ CommandedLazily' = CommandedLazily
  BY <1>1, CommandedStays
<1>2. CASE ParseStep /\ UNCHANGED cliVars
  <2>1. pc \in Parsing /\ pc' \in Parsing /\ UNCHANGED <<posixly_correct, action, slept>>
    BY <1>2, ParseMoves, ParseKeeps DEF Parsing, cliVars
  <2> QED
    BY <2>1, NotArmed DEF ArmedInv, Parsing, Late
<1>3. CASE register_cmd
  <2>1. pc = "register" /\ pc' = pc /\ UNCHANGED <<posixly_correct, action, slept>>
    BY <1>3 DEF register_cmd, parsing, machine
  <2> QED
    BY <2>1, NotArmed DEF ArmedInv, Late
<1>4. CASE main_dispatch
  <2>1. pc = "register" /\ unregistered = <<>> /\ UNCHANGED <<posixly_correct, action, slept, args>>
    BY <1>4 DEF main_dispatch, parsing, machine, surroundings, Handle, arg_parse
  <2>2. action' = NoAction /\ ~slept'
    BY <2>1 DEF ArmedInv, Late
  <2>3. CASE args = <<>> \/ (args # <<>> /\ arg_cmd_info(args[1]) = NoEntry)
    <3>1. pc' = "cleanup"
      BY <1>4, <2>3 DEF main_dispatch
    <3>2. ASSUME args # <<>>, arg_cmd_info(args[1]) = NoEntry
          PROVE  args[1] \notin Commands
      <4>1. args \in Seq(Word)
        BY LinesAreLines DEF ProgramInv, Word
      <4>2. args[1] \in Given
        <5>1. 1 \in DOMAIN args
          BY <3>2, <4>1, EmptySeq
        <5> QED
          BY <5>1 DEF Given
      <4>3. arg_cmd_info(args[1]) = IF args[1] \in Commands THEN args[1] ELSE NoEntry
        BY <2>1, <4>2, InfoFinds
      <4> QED
        BY <3>2, <4>3, CommandsAreWords
    <3>3. ~Commanded'
      BY <2>1, <2>3, <3>2 DEF Commanded, Commands
    <3> QED
      BY <2>2, <3>1, <3>3, NotArmed
  <2>4. CASE ~(args = <<>> \/ (args # <<>> /\ arg_cmd_info(args[1]) = NoEntry))
    <3>1. pc' = "getopt"
      BY <1>4, <2>4 DEF main_dispatch, Handle, arg_parse
    <3> QED
      BY <2>2, <3>1, NotArmed DEF Late
  <2> QED
    BY <2>3, <2>4
<1>5. ASSUME UNCHANGED <<pc, args, cmd, posixly_correct, found, action, slept, exitcode>>
      PROVE  ArmedInv'
  <2>1. is_lazy' = is_lazy
    BY <1>5 DEF is_lazy
  <2> QED
    BY <1>1, <1>5, <2>1 DEF ArmedInv
<1>6. CASE append_text
  BY <1>5, <1>6 DEF append_text, InHandler, parsing, surroundings, results, machine
<1>7. CASE UNCHANGED vars
  BY <1>5, <1>7 DEF vars, parseVars, cliVars
<1>8. CASE main_cleanup
  <2>1. pc = "cleanup" /\ pc' = "exit" /\ UNCHANGED <<args, cmd, posixly_correct, action, slept, exitcode>>
    BY <1>8 DEF main_cleanup, parsing, surroundings, machine
  <2> QED
    BY <1>1, <2>1 DEF ArmedInv, Late
<1>9. ASSUME pc = "parsed", UNCHANGED <<posixly_correct, action, slept>>
      PROVE  /\ action' = NoAction /\ ~slept' /\ ~posixly_correct
             /\ cmd = HELP => args[1] = HELP
             /\ found[HELP_OPT] # <<>> => ~Commanded
             /\ found[HELP_OPT] = <<>> /\ errors = <<>> /\ cmd \in {STORE, SWITCH} =>
                  Commanded /\ cmd = args[1] /\ (is_lazy <=> CommandedLazily)
  <2>1. ~posixly_correct
    BY <1>9
  <2> QED
    BY <1>9, <2>1, HandlersMean DEF ArmedInv, Late
<1>10. CASE handler_help
  <2>1. /\ pc = "parsed" /\ found[HELP_OPT] # <<>> /\ pc' = "cleanup"
        /\ UNCHANGED <<args, cmd, posixly_correct, action, slept>>
    BY <1>10 DEF handler_help, Return, arg_make_syntax_err_help_msg, InHandler, parsing, surroundings, machine
  <2> QED
    BY <1>1, <1>9, <2>1, NotArmed
<1>11. CASE handler_errors
  <2>1. /\ pc = "parsed" /\ pc' = "cleanup" /\ exitcode' = 1 /\ UNCHANGED <<posixly_correct, action, slept>>
    BY <1>11 DEF handler_errors, Return, InHandler, parsing, machine
  <2> QED
    BY <1>9, <2>1, NotArmed
<1>12. CASE help_list_commands
  <2>1. /\ pc = "parsed" /\ cmd = HELP /\ pc' = "list" /\ UNCHANGED <<args, posixly_correct, action, slept>>
    BY <1>12 DEF help_list_commands, Handling, InHandler, parsing, surroundings, machine
  <2> QED
    BY <1>9, <2>1, NotArmed
<1>13. CASE help_list_next
  <2>1. /\ pc = "list" /\ pc' \in {"list", "cleanup"} /\ UNCHANGED <<args, cmd, posixly_correct, action, slept>>
    BY <1>13 DEF help_list_next, Return, InHandler, parsing, surroundings, machine
  <2>2. args[1] = HELP /\ action' = NoAction /\ ~slept'
    BY <2>1 DEF ArmedInv, Late
  <2>3. ~Commanded'
    BY <2>1, <2>2, Distinct DEF Commanded
  <2> QED
    BY <2>1, <2>2, <2>3, NotArmed
<1>14. CASE help_unknown_command
  <2>1. /\ pc = "parsed" /\ pc' = "cleanup" /\ exitcode' = 1 /\ UNCHANGED <<posixly_correct, action, slept>>
    BY <1>14 DEF help_unknown_command, Handling, Return, InHandler, parsing, machine
  <2> QED
    BY <1>9, <2>1, NotArmed
<1>15. CASE help_command
  <2>1. pc = "parsed" /\ pc' = "getopt" /\ UNCHANGED <<posixly_correct, action, slept>>
    BY <1>15 DEF help_command, Handle, Handling, arg_parse, machine
  <2> QED
    BY <1>9, <2>1, NotArmed DEF Late
<1>16. CASE enable_uefi_privileges
  <2>1. /\ pc = "parsed" /\ found[HELP_OPT] = <<>> /\ errors = <<>> /\ cmd \in {STORE, SWITCH}
        /\ UNCHANGED <<args, cmd, posixly_correct, found, action, slept>>
        /\ pc' = "sleep_privileges" \/ (pc' = "cleanup" /\ exitcode' = 1)
    BY <1>16 DEF enable_uefi_privileges, enable_privileges, store_handler, switch_handler, Handling, Return,
       arg_make_syntax_err_help_msg, InHandler, parsing, surroundings, results, machine
  <2>2. CASE pc' = "cleanup" /\ exitcode' = 1
    BY <1>9, <2>1, <2>2, NotArmed
  <2>3. CASE pc' = "sleep_privileges"
    <3>1. is_lazy' = is_lazy
      BY <2>1 DEF is_lazy
    <3>2. action' = NoAction /\ ~slept' /\ Commanded' /\ cmd' = args'[1] /\ (is_lazy' <=> CommandedLazily')
      BY <1>1, <1>9, <2>1, <3>1
    <3> QED
      BY <2>3, <3>2 DEF ArmedInv
  <2> QED
    BY <2>1, <2>2, <2>3
<1>17. ASSUME pc \in {"sleep_privileges", "send", "armed"}, UNCHANGED <<args, cmd, posixly_correct, found>>
       PROVE  /\ Commanded' /\ cmd' = args'[1] /\ cmd = args[1]
              /\ is_lazy' <=> CommandedLazily'
              /\ is_lazy <=> CommandedLazily'
              /\ ~slept
              /\ IF pc = "armed" THEN action = args'[1] ELSE action = NoAction
  <2>1. is_lazy' = is_lazy
    BY <1>17 DEF is_lazy
  <2>2. ~posixly_correct /\ pc \in Late
    BY <1>17 DEF Late
  <2> QED
    BY <1>1, <1>17, <2>1, <2>2 DEF ArmedInv
<1>18. CASE enable_sleep_privileges
  <2>1. /\ pc = "sleep_privileges" /\ UNCHANGED <<args, cmd, posixly_correct, found, action, slept>>
        /\ pc' = "send" \/ (pc' = "cleanup" /\ exitcode' = 1)
    BY <1>18 DEF enable_sleep_privileges, enable_privileges, Return, InHandler, parsing, surroundings, results, machine
  <2>2. action' = NoAction /\ ~slept' /\ Commanded' /\ cmd' = args'[1] /\ (is_lazy' <=> CommandedLazily')
    BY <1>17, <2>1
  <2>3. CASE pc' = "send"
    BY <2>2, <2>3 DEF ArmedInv
  <2> QED
    BY <2>1, <2>2, <2>3, NotArmed
<1>19. CASE send_uefi_command
  <2>1. /\ pc = "send" /\ UNCHANGED <<args, cmd, posixly_correct, found, slept>>
        /\ \/ action' = cmd /\ pc' = "armed"
           \/ action' = action /\ pc' = "cleanup" /\ exitcode' = 1
    BY <1>19 DEF send_uefi_command, set_uefi_variable, Return, InHandler, parsing, surroundings, results
  <2>2. /\ action = NoAction /\ ~slept' /\ Commanded' /\ cmd' = args'[1] /\ cmd = args'[1]
        /\ is_lazy' <=> CommandedLazily'
    BY <1>17, <2>1
  <2>3. CASE action' = cmd /\ pc' = "armed"
    BY <2>2, <2>3 DEF ArmedInv, Late
  <2> QED
    BY <2>1, <2>2, <2>3, NotArmed
<1>20. CASE execute_lazily
  <2>1. /\ pc = "armed" /\ is_lazy /\ pc' = "cleanup" /\ UNCHANGED <<args, cmd, posixly_correct, found, action, slept>>
        /\ exitcode' = 0
    BY <1>20 DEF execute_lazily, Return, InHandler, parsing, surroundings, results, machine
  <2>2. Commanded' /\ CommandedLazily' /\ ~slept' /\ action' = args'[1]
    BY <1>17, <2>1
  <2> QED
    BY <2>1, <2>2 DEF ArmedInv, Late
<1>21. CASE enter_sleep_s3
  <2>1. /\ pc = "armed" /\ ~is_lazy /\ pc' = "cleanup" /\ UNCHANGED <<args, cmd, posixly_correct, found, action>>
        /\ \/ slept' = TRUE /\ exitcode' = 0
           \/ slept' = slept /\ exitcode' = 1
    BY <1>21 DEF enter_sleep_s3, Return, InHandler, parsing, surroundings, results
  <2>2. Commanded' /\ ~CommandedLazily' /\ ~slept /\ action' = args'[1] /\ cmd' = args'[1] /\ cmd' \in {STORE, SWITCH}
    <3>1. Commanded' /\ ~CommandedLazily' /\ ~slept /\ action' = args'[1] /\ cmd' = args'[1]
      BY <1>17, <2>1
    <3> QED
      BY <3>1 DEF Commanded
  <2>3. args'[1] # NoAction
    BY <2>2, CommandsAreWords DEF Commands
  <2> QED
    BY <2>1, <2>2, <2>3 DEF ArmedInv, Late
<1> QED
  BY <1>2, <1>3, <1>4, <1>6, <1>7, <1>8, <1>10, <1>11, <1>12, <1>13, <1>14, <1>15, <1>16, <1>18, <1>19,
     <1>20, <1>21, NextCases DEF Handlers

LEMMA ArmedInit ==
  ASSUME Init
  PROVE  ArmedInv
PROOF
BY DEF Init, ArmedInv, Late

(* The core is armed only by a command line that means it, and then with   *)
(* that command; --lazy never sleeps; an exit without failure has done all *)
(* that was asked, and a failure that leaves the core armed is one of S3   *)
(* (commands/store.c:20, switch.c:20). *)
THEOREM CoreIsArmedAsMeant == Spec => []ArmedAsMeant
PROOF
<1>1. Init => TableInv /\ ProgramInv /\ TypeInv /\ ParseInv /\ ArmedInv
  BY TableInit, ProgramInit, ParseBeginning, ArmedInit
<1>2. TableInv /\ ProgramInv /\ TypeInv /\ ParseInv /\ ArmedInv /\ [Next]_vars
        => (TableInv /\ ProgramInv /\ TypeInv /\ ParseInv /\ ArmedInv)'
  BY TableStep, ProgramStep, TypeStep, ParseStepKeeps, ArmedStep
<1>3. ArmedInv => ArmedAsMeant
  BY DEF ArmedInv, ArmedAsMeant
<1> QED
  BY <1>1, <1>2, <1>3, PTL DEF Spec

===============================================================================
