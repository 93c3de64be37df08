------------------------------ MODULE MCVirtioInit ------------------------------
(* Disks with registers of 6 bits: three placements of the BARs, with an    *)
(* upper half that reads as each kind of register, and capabilities that    *)
(* the driver accepts, skips or refuses.                                    *)
EXTENDS VirtioInit, TLC

(* What is on the buses. *)
Bridge == <<0, 0, 0>> :> "other"
Simple == Bridge @@ (<<0, 1, 0>> :> "disk")
Buses ==
  {Simple,
   <<0, 1, 0>> :> "disk",
   Bridge @@ (<<1, 1, 0>> :> "disk"),
   Bridge @@ (<<0, 1, 0>> :> "other") @@ (<<0, 1, 1>> :> "other") @@ (<<0, 1, 2>> :> "disk"),
   Bridge @@ (<<0, 1, 0>> :> "other") @@ (<<0, 1, 2>> :> "disk"),
   Simple @@ (<<1, 0, 0>> :> "disk") @@ (<<1, 0, 1>> :> "disk"),
   Bridge}

Cap(type, bar, offset) == [cfg_type |-> type, bar |-> bar, offset |-> offset]

Uppers == {0, 1, 4, 8, 16, 20, 63}

Placements ==
  {[kinds |-> <<"mem32", "io", "none">>, bios |-> <<32, 9, 0>>, bar |-> 1]} \cup
  {[kinds |-> <<"io", "mem64", "upper">>, bios |-> <<5, 20, u>>, bar |-> 2] : u \in Uppers} \cup
  {[kinds |-> <<"mem64", "upper", "mem32">>, bios |-> <<a, u, 48>>, bar |-> 1] :
     a \in {4, 36}, u \in Uppers}

CapLists(bar) ==
  LET common == Cap("common", bar, 0)
      notifier == Cap("notify", bar, 3)
  IN  { <<common, Cap("isr", bar, 2), notifier>>,
        <<Cap("other vendor", 9, 0), notifier, common>>,
        <<notifier, Cap("invalid", bar, 0), common>>,
        <<common, Cap("isr", 9, 0), notifier>> }

MCCards ==
  UNION {{[functions |-> Simple, kinds |-> p.kinds, bios |-> p.bios, caps |-> c, queue_size |-> n,
           multiplier |-> 2, queue_notify_off |-> q] :
            c \in CapLists(p.bar), n \in {0, 128, 512, 513, 65535}, q \in {0, 1}} :
         p \in Placements} \cup
  {[functions |-> f, kinds |-> <<"mem32", "io", "none">>, bios |-> <<32, 9, 0>>,
    caps |-> <<Cap("common", 1, 0), Cap("notify", 1, 3)>>,
    queue_size |-> 128, multiplier |-> 2, queue_notify_off |-> 1] : f \in Buses} \cup
  {[functions |-> Simple, kinds |-> <<"mem32", "io">>, bios |-> <<16, 9>>,
    caps |-> <<Cap("notify", 1, 3), Cap("common", 2, 0)>>,
    queue_size |-> 128, multiplier |-> 2, queue_notify_off |-> 0]}
===============================================================================
