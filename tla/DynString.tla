-------------------------------- MODULE DynString --------------------------------
(***************************************************************************)
(* The dynamic string in which the CLI collects its output                 *)
(* (cli/lib/argtable/argtable3.c, the arg_dstr functions).  A text is as   *)
(* good as its length here: ds.len characters of text, in the buffer       *)
(* inside the structure or in an append buffer of append_data_size bytes.  *)
(***************************************************************************)
EXTENDS Naturals

CONSTANTS StaticSize,     \* ARG_DSTR_SIZE
          SmallAppend,    \* 100 in setup_append_buf
          FirstAppend     \* 200 in setup_append_buf

ASSUME AppendGrows ==
  /\ {StaticSize, SmallAppend, FirstAppend} \subseteq Nat
  /\ SmallAppend <= FirstAppend

(* live: append buffers that were allocated and not freed. *)
arg_dstr_create ==
  [data |-> "sbuf", len |-> 0, append_data_size |-> 0, append_used |-> 0, live |-> 0]

(* What the text's buffer can hold. *)
Capacity(ds) == IF ds.data = "sbuf" THEN StaticSize + 1 ELSE ds.append_data_size

(* Mutant: what was appended since the last call is not counted. *)
Used_stale(ds) == IF ds.data = "sbuf" THEN ds.len ELSE ds.append_used

(* append_used is brought up to date when the text is not in the append    *)
(* buffer yet, or goes on where it was known to end.                       *)
Used(ds) == IF ds.data = "sbuf" \/ ds.len > ds.append_used THEN ds.len ELSE ds.append_used

(* Room for new_space more bytes: the append buffer is replaced when it is *)
(* too small, and holds the text from now on.                              *)
setup_append_buf(ds, new_space) ==
  LET total_space == new_space + Used(ds)
      grown == IF total_space < SmallAppend THEN FirstAppend ELSE 2 * total_space
  IN  IF total_space >= ds.append_data_size
      THEN [ds EXCEPT !.data = "append", !.append_used = Used(ds), !.append_data_size = grown,
                      !.live = IF ds.append_data_size = 0 THEN @ + 1 ELSE @]
      ELSE [ds EXCEPT !.data = "append", !.append_used = Used(ds)]

(* arg_dstr_cat, and arg_dstr_catf, which formats into buffers of growing  *)
(* size until the text fits and then appends it. *)
arg_dstr_cat(ds, length) ==
  LET roomy == setup_append_buf(ds, length + 1)
  IN  [roomy EXCEPT !.len = @ + length]

arg_dstr_destroy(ds) ==
  [ds EXCEPT !.data = "sbuf", !.len = 0,
             !.append_data_size = 0, !.live = IF ds.append_data_size > 0 THEN @ - 1 ELSE @]
===============================================================================
