-------------------------------- MODULE MCDump --------------------------------
(* Small instances of Dump for TLC.  Addresses are in sectors: the machine *)
(* reports two areas at one boot and a single one at another, with a hole  *)
(* between the areas for the core itself.                                  *)
EXTENDS Dump

Area(start, size) == [start |-> start, size |-> size]

(* An area of a buffer and a rest, and a short one. *)
TwoAreas == <<Area(0, 3), Area(4, 1)>>
(* The same machine, reporting the hole as RAM too. *)
OneArea  == <<Area(1, 3)>>

(* More memory than the disk has room for. *)
TooLarge == <<Area(0, 5)>>

LayoutsFit == {TwoAreas, OneArea}
LayoutsAll == {TwoAreas, OneArea, TooLarge}
===============================================================================
