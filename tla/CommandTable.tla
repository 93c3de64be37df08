------------------------------ MODULE CommandTable ------------------------------
(***************************************************************************)
(* The hash table in which argtable3 keeps the sub-commands of the CLI     *)
(* (cli/lib/argtable/argtable3.c, the arg_hashtable functions): chains of  *)
(* entries, a length that is a prime, the next one when the load limit is  *)
(* reached, and an iterator.  A hash value is whatever hash function the   *)
(* table is given; entries of equal index share a chain.                   *)
(***************************************************************************)
EXTENDS Naturals, Sequences, SequencesExt

CONSTANTS Primes,      \* primes
          NoEntry      \* NULL

ASSUME PrimesGrow ==
  /\ Primes \in Seq(Nat \ {0}) /\ Primes # <<>>
  /\ \A p \in 2 .. Len(Primes) : Primes[p - 1] < Primes[p]

(* ceil(size * 0.65) *)
loadlimit(size) == (65 * size + 99) \div 100

index_for(tablelength, hash) == hash % tablelength

(* An empty table of the first prime above minsize. *)
arg_hashtable_create(minsize, hashfn) ==
  LET pindex == CHOOSE p \in DOMAIN Primes :
                  Primes[p] > minsize /\ \A q \in 1 .. (p - 1) : Primes[q] <= minsize
  IN  [table |-> [i \in 0 .. (Primes[pindex] - 1) |-> <<>>],
       tablelength |-> Primes[pindex], primeindex |-> pindex, entrycount |-> 0,
       hashfn |-> hashfn]

(* All entries, in the order of the chains. *)
Entries(h) == FlattenSeq([i \in 1 .. h.tablelength |-> h.table[i - 1]])

(* The next prime, unless the table is as long as it gets.  Entries move   *)
(* one by one to the head of their new chain, which turns them round.      *)
arg_hashtable_expand(h) ==
  IF h.primeindex = Len(Primes) THEN h
  ELSE LET newsize == Primes[h.primeindex + 1]
           newtable[n \in 0 .. Len(Entries(h))] ==
             IF n = 0 THEN [i \in 0 .. (newsize - 1) |-> <<>>]
             ELSE [newtable[n - 1] EXCEPT ![index_for(newsize, Entries(h)[n].h)] = <<Entries(h)[n]>> \o @]
       IN  [h EXCEPT !.table = newtable[Len(Entries(h))],
                     !.tablelength = newsize, !.primeindex = @ + 1]

arg_hashtable_insert(h, k, v) ==
  LET roomy == IF h.entrycount + 1 > loadlimit(h.tablelength) THEN arg_hashtable_expand(h) ELSE h
      e == [h |-> h.hashfn[k], k |-> k, v |-> v]
      i == index_for(roomy.tablelength, e.h)
  IN  [roomy EXCEPT !.table[i] = <<e>> \o @, !.entrycount = @ + 1]

(* Where the first entry of key k stands in its chain, or 0. *)
Position(h, k) ==
  LET hash == h.hashfn[k]
      chain == h.table[index_for(h.tablelength, hash)]
  IN  SelectInSeq(chain, LAMBDA e : e.h = hash /\ e.k = k)

arg_hashtable_search(h, k) ==
  IF Position(h, k) = 0 THEN NoEntry
  ELSE h.table[index_for(h.tablelength, h.hashfn[k])][Position(h, k)].v

arg_hashtable_remove(h, k) ==
  IF Position(h, k) = 0 THEN h
  ELSE [h EXCEPT !.table[index_for(h.tablelength, h.hashfn[k])] = RemoveAt(@, Position(h, k)),
                 !.entrycount = @ - 1]

arg_hashtable_destroy(h) ==
  [h EXCEPT !.table = [i \in DOMAIN @ |-> <<>>], !.entrycount = 0]

(* The iterator: a chain and a place in it, or no entry at the end. *)
FirstChain(h, from) ==
  IF \E i \in from .. (h.tablelength - 1) : h.table[i] # <<>>
  THEN [index |-> CHOOSE i \in from .. (h.tablelength - 1) :
                    h.table[i] # <<>> /\ \A j \in from .. (i - 1) : h.table[j] = <<>>,
        pos |-> 1]
  ELSE [index |-> h.tablelength, pos |-> 0]

arg_hashtable_itr_create(h) == FirstChain(h, 0)

(* Mutant: the next entry of a chain is passed over. *)
arg_hashtable_itr_advance_chain(h, itr) == FirstChain(h, itr.index + 1)

arg_hashtable_itr_advance(h, itr) ==
  IF itr.pos < Len(h.table[itr.index]) THEN [itr EXCEPT !.pos = @ + 1]
  ELSE FirstChain(h, itr.index + 1)

arg_hashtable_itr_value(h, itr) == h.table[itr.index][itr.pos].v
===============================================================================
