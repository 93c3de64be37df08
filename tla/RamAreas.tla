-------------------------------- MODULE RamAreas --------------------------------
(***************************************************************************)
(* The table of RAM areas in the core header (uefi/core_header_utils.c):   *)
(* the usable descriptors of the firmware's memory map are inserted one by *)
(* one, in the order the firmware lists them, and merged with a neighbour  *)
(* where there is one.  Addresses are counted in pages.                    *)
(***************************************************************************)
EXTENDS Naturals, Sequences

CONSTANT MaxRamAreas   \* MAX_RAM_AREAS

ASSUME RoomForAreas == MaxRamAreas \in Nat

(* g_usable_memory_types, as far as the model tells types apart. *)
UsableTypes == {"conventional", "loader", "boot_services", "runtime_services"}

is_memory_desc_usable(desc) == desc.type \in UsableTypes

EndOf(r) == r.start + r.size

(* The first area that ends or begins where desc begins or ends, or 0. *)
Neighbour(areas, desc) ==
  LET touching == {k \in DOMAIN areas : areas[k].start = EndOf(desc) \/ EndOf(areas[k]) = desc.start}
  IN  IF touching = {} THEN 0 ELSE CHOOSE k \in touching : \A j \in touching : k <= j

(* Mutant: the table has no end. *)
IsFull_never(areas) == FALSE

IsFull(areas) == Len(areas) >= MaxRamAreas

(* Mutant: an area that grows at its end also keeps a copy of its own. *)
insert_desc_twice(areas, desc) ==
  LET k == Neighbour(areas, desc)
      new == [start |-> desc.start, size |-> desc.size]
  IN  IF k = 0 THEN Append(areas, new)
      ELSE IF areas[k].start = EndOf(desc) THEN [areas EXCEPT ![k].start = desc.start]
      ELSE Append([areas EXCEPT ![k].size = @ + desc.size], new)

(* One descriptor.  An area that gets a new start keeps its size. *)
insert_desc(areas, desc) ==
  LET k == Neighbour(areas, desc)
  IN  IF k = 0 THEN Append(areas, [start |-> desc.start, size |-> desc.size])
      ELSE IF areas[k].start = EndOf(desc) THEN [areas EXCEPT ![k].start = desc.start]
      ELSE [areas EXCEPT ![k].size = @ + desc.size]

(* One descriptor of the scan.  A usable one that finds the table full     *)
(* ends the scan with an error, even one that could be merged.             *)
scan_desc(filled, desc) ==
  IF filled.full \/ ~is_memory_desc_usable(desc) THEN filled
  ELSE IF IsFull(filled.areas) THEN [filled EXCEPT !.full = TRUE]
  ELSE [filled EXCEPT !.areas = insert_desc(@, desc)]

(* The table after a whole memory map. *)
fill_ram_areas(map) ==
  LET after[n \in 0 .. Len(map)] ==
        IF n = 0 THEN [areas |-> <<>>, full |-> FALSE] ELSE scan_desc(after[n - 1], map[n])
  IN  after[Len(map)]

-------------------------------------------------------------------------------
PagesOf(r)        == r.start .. (EndOf(r) - 1)
PagesIn(areas)    == UNION {PagesOf(areas[k]) : k \in DOMAIN areas}
AreDisjoint(areas) ==
  \A j, k \in DOMAIN areas : j # k => PagesOf(areas[j]) \cap PagesOf(areas[k]) = {}
===============================================================================
