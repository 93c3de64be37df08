--------------------------------- MODULE Dump ---------------------------------
(***************************************************************************)
(* core_main and the dump it keeps on the disk (core/core.c, core/dump.c): *)
(* the machine wakes from S3 into the core, the core stores the RAM to the *)
(* disk or switches the RAM with the disk, request by request, and gives   *)
(* the machine back to a kernel.                                           *)
(*                                                                         *)
(* RAM and disk are counted in sectors.  A sector of memory holds the      *)
(* image (kernel, moment it was frozen) it belongs to; memory is whole     *)
(* when all its sectors belong to one image.  A request to the disk is one *)
(* step, since the driver waits for every answer (module VirtioQueue); a   *)
(* request the device fails, or that a power loss cuts, leaves an          *)
(* arbitrary part of its sectors written.                                  *)
(***************************************************************************)
EXTENDS Integers, Sequences, FiniteSets

CONSTANTS Vectors,       \* waking vectors of the kernels
          Layouts,       \* the ram_areas the firmware may report at a boot
          DiskSize,      \* capacity of the disk, in sectors
          HeaderSectors, \* DUMP_HEADER_SECTORS_SIZE
          BufSectors,    \* SWITCH_BUF_SIZE
          LenLimit,      \* sectors a 32 bit descriptor length cannot count
          Faults,        \* what may go wrong: subset of {"init", "read", "write", "power"}
          MaxClock,      \* bound: suspends and boots in a behaviour
          Blank, NoImage, NoHeader

LayoutsAssumption ==
  \A l \in Layouts :
    /\ l \in Seq([start : Nat, size : Nat \ {0}])
    /\ Len(l) > 0
    /\ \A j, k \in DOMAIN l : j # k =>
         \/ l[j].start + l[j].size <= l[k].start
         \/ l[k].start + l[k].size <= l[j].start

ASSUME LayoutsAreDisjoint == LayoutsAssumption
ASSUME SizesArePositive ==
  /\ DiskSize \in Nat \ {0}
  /\ HeaderSectors \in 1 .. DiskSize
  /\ BufSectors \in Nat \ {0}
  /\ LenLimit \in Nat \ {0}
  /\ MaxClock \in Nat
ASSUME FaultsAreKnown == Faults \subseteq {"init", "read", "write", "power"}
ASSUME MarksAreNotData ==
  /\ Blank \notin [vec : Vectors, areas : Seq([start : Nat, size : Nat, sector : Nat])]
  /\ NoHeader \notin [vec : Vectors, areas : Seq([start : Nat, size : Nat, sector : Nat])]
  /\ NoImage \notin [vec : Vectors, at : 0 .. MaxClock]

VARIABLES
  pc,              \* where the machine is: "os", or a step of core_main
  action,          \* g_core_header.action
  ram_areas,       \* g_core_header.ram_areas
  rsvd1,           \* the FACS field that keeps the suspended kernel's vector
  ram,             \* sector of memory -> content
  disk,            \* sector of disk -> content; a dump header is in sector 0
  switch_buf,      \* the static buffer of switch_memory_area
  header,          \* the dump_header on the stack
  i,               \* index of the area being transferred
  off,             \* sectors of that area already transferred
  waking_vector,   \* kernel_waking_vector; the running kernel's while pc = "os"
  err,             \* whether core_main is in error
  clock,           \* moments handed out so far
  base,            \* history: the image and the dump when the core was entered
  exposed          \* history: data was written under a header not rewritten since

vars == <<pc, action, ram_areas, rsvd1, ram, disk, switch_buf, header, i, off,
          waking_vector, err, clock, base, exposed>>

-------------------------------------------------------------------------------
(* Data. *)

Image    == [vec : Vectors, at : 0 .. MaxClock]
MemArea  == [start : Nat, size : Nat]
DiskArea == [start : Nat, size : Nat, sector : Nat]
Header   == [vec : Vectors, areas : Seq(DiskArea)]
Action   == {"NOOP", "STORE", "SWITCH"}

Span(lo, n) == lo .. (lo + n - 1)
RamCells(l)   == UNION {Span(l[k].start, l[k].size) : k \in DOMAIN l}
Addr          == UNION {RamCells(l) : l \in Layouts}
Sector        == 0 .. (DiskSize - 1)
Content       == Image \cup {Blank}
Cell          == Content \cup Header

(* All the RAM the kernel uses belongs to img. *)
RamIs(img) == \A a \in RamCells(ram_areas) : ram[a] = img

(* The sectors header h points at, and its vector, all belong to img. *)
DumpIs(d, h, img) ==
  /\ img.vec = h.vec
  /\ \A k \in DOMAIN h.areas :
       \A s \in Span(h.areas[k].sector, h.areas[k].size) : d[s] = img

HasHeader(d) == d[0] \in Header

DumpImage(d) ==
  IF HasHeader(d) /\ \E img \in Image : DumpIs(d, d[0], img)
  THEN CHOOSE img \in Image : DumpIs(d, d[0], img)
  ELSE NoImage

(* The kernel that was resumed finds the memory it was suspended with. *)
Alive == \E img \in Image : img.vec = waking_vector /\ RamIs(img)

(* Mutant: the areas of the header are not compared with ram_areas. *)
is_dump_header_valid_any(h) == h \in Header

(* is_dump_header_valid: the waking vector is never 0 in a Header. *)
is_dump_header_valid(h) ==
  /\ h \in Header
  /\ Len(h.areas) = Len(ram_areas)
  /\ \A k \in DOMAIN ram_areas :
       /\ h.areas[k].start = ram_areas[k].start
       /\ h.areas[k].size = ram_areas[k].size

-------------------------------------------------------------------------------
(* Requests.  n sectors of src (a function on 0 .. n-1) go to sector lo on. *)

InRange(lo, n) == lo + n <= DiskSize

Written(done, lo, src) ==
  [s \in Sector |-> IF s \in done THEN src[s - lo] ELSE disk[s]]

Partial(lo, n, src) ==
  {Written(done, lo, src) : done \in SUBSET (Span(lo, n) \cap Sector)}

WriteOk(lo, n, src) ==
  InRange(lo, n) /\ disk' = Written(Span(lo, n), lo, src)

WriteFails(lo, n, src) ==
  ("write" \in Faults \/ ~InRange(lo, n)) /\ disk' \in Partial(lo, n, src)

(* The header is written whole, or not at all, or left unreadable. *)
HeaderWritten(h) == [disk EXCEPT ![0] = h]
PartialHeader(h) == {disk, HeaderWritten(h), HeaderWritten(Blank)}

Exposing == exposed \/ HasHeader(disk)

(* Mutant: the last sector of a request is forgotten. *)
desc_len_short(size) == (size - 1) % LenLimit

(* request_virtio_blk keeps the length of a request in 32 bits. *)
desc_len(size) == size % LenLimit

StoreReq ==
  LET area == header.areas[i]
  IN  [sector |-> area.sector, size |-> desc_len(area.size),
       data |-> [k \in 0 .. (area.size - 1) |-> ram[area.start + k]]]

(* Mutant: the buffer is written to the disk instead of the memory. *)
SwitchReq_buf ==
  LET area == header.areas[i]
      left == area.size - off
      size == IF left < BufSectors THEN left ELSE BufSectors
  IN  [sector |-> area.sector + off, size |-> size, addr |-> area.start + off,
       data |-> switch_buf]

(* The part of area i that switch_memory_area transfers next. *)
SwitchReq ==
  LET area == header.areas[i]
      left == area.size - off
      size == IF left < BufSectors THEN left ELSE BufSectors
  IN  [sector |-> area.sector + off, size |-> size, addr |-> area.start + off,
       data |-> [k \in 0 .. (size - 1) |-> ram[area.start + off + k]]]

(* Loops over the parts of an area, and over the areas. *)
MoreParts_whole == off + 2 * BufSectors <= header.areas[i].size  \* mutant: rest dropped
MoreParts       == off + SwitchReq.size < header.areas[i].size
MoreAreas_past  == i <= Len(header.areas)      \* mutant: one area too many
MoreAreas_short == i + 1 < Len(header.areas)   \* mutant: the last area dropped
MoreAreas       == i < Len(header.areas)

(* fill_dump_header leaves room for the header in front of the first area. *)
FirstSector_0 == 0                             \* mutant
FirstSector   == HeaderSectors

(* The header of the dump a switch leaves: the suspended kernel's vector. *)
SwappedHeader_kept == header                   \* mutant: the vector is not switched
SwappedHeader      == [header EXCEPT !.vec = rsvd1]

-------------------------------------------------------------------------------
(* The system around the core. *)

(* A power cycle: RAM is lost, some kernel boots, the core is loaded anew. *)
ColdBoot ==
  /\ clock < MaxClock
  /\ clock' = clock + 1
  /\ pc' = "os"
  /\ action' = "NOOP"
  /\ ram_areas' \in Layouts
  /\ waking_vector' \in Vectors
  /\ ram' = [a \in Addr |-> [vec |-> waking_vector', at |-> clock']]
  /\ switch_buf' = [k \in 0 .. (BufSectors - 1) |-> Blank]
  /\ header' = NoHeader
  /\ i' = 1
  /\ off' = 0
  /\ err' = FALSE
  /\ UNCHANGED <<rsvd1, base>>

Init ==
  /\ pc = "os"
  /\ action = "NOOP"
  /\ ram_areas \in Layouts
  /\ waking_vector \in Vectors
  /\ rsvd1 = waking_vector
  /\ ram = [a \in Addr |-> [vec |-> waking_vector, at |-> 0]]
  /\ disk = [s \in Sector |-> Blank]
  /\ switch_buf = [k \in 0 .. (BufSectors - 1) |-> Blank]
  /\ header = NoHeader
  /\ i = 1
  /\ off = 0
  /\ err = FALSE
  /\ clock = 0
  /\ base = [ram |-> [vec |-> waking_vector, at |-> 0], dump |-> NoImage]
  /\ exposed = FALSE

(* The user reboots the machine, or resets one whose kernel has died. *)
Reboot ==
  /\ pc = "os"
  /\ ColdBoot
  /\ UNCHANGED <<disk, exposed>>

(* The CLI sends SET_CORE_ACTION to the running kernel's SetVariable. *)
set_core_action(a) ==
  /\ pc = "os"
  /\ Alive
  /\ action # a
  /\ action' = a
  /\ UNCHANGED <<pc, ram_areas, rsvd1, ram, disk, switch_buf, header, i, off,
                 waking_vector, err, clock, base, exposed>>

(* The kernel works, then suspends: its memory is frozen in a state never  *)
(* seen before, its vector is in the FACS, and the machine wakes in the    *)
(* core (module Suspend has the details of the redirection).               *)
Suspend ==
  /\ pc = "os"
  /\ Alive
  /\ clock < MaxClock
  /\ LET img == [vec |-> waking_vector, at |-> clock + 1]
     IN  /\ ram' = [a \in Addr |-> img]
         /\ base' = [ram |-> img, dump |-> DumpImage(disk)]
  /\ clock' = clock + 1
  /\ rsvd1' = waking_vector
  /\ pc' = "core_main"
  /\ err' = FALSE
  /\ UNCHANGED <<action, ram_areas, disk, switch_buf, header, i, off,
                 waking_vector, exposed>>

-------------------------------------------------------------------------------
(* The core. *)

(* Mutant: a failed step is tried again for ever. *)
Fail_retry == err' = FALSE /\ UNCHANGED pc

(* CHECK and CHECK_RETHROW: to the cleanup label of core_main. *)
Fail == err' = TRUE /\ pc' = "cleanup"

(* core_main up to its switch on the action: the original waking vector is *)
(* found, the disk is brought up, and the action is dispatched.            *)
core_main ==
  /\ pc = "core_main"
  /\ waking_vector' = rsvd1
  /\ \/ "init" \in Faults /\ Fail
     \/ action = "NOOP" /\ Fail
     \/ action = "STORE" /\ pc' = "fill_dump_header" /\ UNCHANGED err
     \/ action = "SWITCH" /\ pc' = "does_disk_contain_dump" /\ UNCHANGED err
  /\ header' = NoHeader
  /\ i' = 1
  /\ off' = 0
  /\ UNCHANGED <<action, ram_areas, rsvd1, ram, disk, switch_buf, clock, base,
                 exposed>>

(* One area of fill_dump_header: areas follow the header and each other. *)
fill_dump_header ==
  /\ pc = "fill_dump_header"
  /\ LET areas == IF i = 1 THEN <<>> ELSE header.areas
         next_sector == IF i = 1 THEN FirstSector
                        ELSE areas[i - 1].sector + areas[i - 1].size
         area == [start |-> ram_areas[i].start, size |-> ram_areas[i].size,
                  sector |-> next_sector]
     IN  header' = [vec |-> rsvd1, areas |-> Append(areas, area)]
  /\ IF i < Len(ram_areas)
     THEN i' = i + 1 /\ UNCHANGED pc
     ELSE i' = 1 /\ pc' = "store_area"
  /\ UNCHANGED <<action, ram_areas, rsvd1, ram, disk, switch_buf, off,
                 waking_vector, err, clock, base, exposed>>

(* disk_store_dump writes a whole area with one request. *)
store_area ==
  /\ pc = "store_area"
  /\ LET r == StoreReq
     IN  \/ /\ WriteOk(r.sector, r.size, r.data)
            /\ IF MoreAreas
               THEN i' = i + 1 /\ UNCHANGED pc
               ELSE i' = 1 /\ pc' = "store_header"
            /\ UNCHANGED err
         \/ /\ WriteFails(r.sector, r.size, r.data)
            /\ Fail
            /\ UNCHANGED i
  /\ exposed' = Exposing
  /\ UNCHANGED <<action, ram_areas, rsvd1, ram, switch_buf, header, off,
                 waking_vector, clock, base>>

(* The header goes last, "in order to avoid corruption". *)
store_header ==
  /\ pc = "store_header"
  /\ \/ /\ disk' = HeaderWritten(header)
        /\ exposed' = FALSE
        /\ pc' = "cleanup"
        /\ UNCHANGED err
     \/ /\ "write" \in Faults
        /\ disk' \in PartialHeader(header)
        /\ UNCHANGED exposed
        /\ Fail
  /\ UNCHANGED <<action, ram_areas, rsvd1, ram, switch_buf, header, i, off,
                 waking_vector, clock, base>>

(* Sector 0, when the disk answers. *)
read_dump_header == disk[0]

(* core_main asks does_disk_contain_dump, and aborts the switch if not. *)
does_disk_contain_dump ==
  /\ pc = "does_disk_contain_dump"
  /\ \/ "read" \in Faults /\ Fail
     \/ ~is_dump_header_valid(read_dump_header) /\ Fail
     \/ is_dump_header_valid(read_dump_header) /\ pc' = "disk_switch_dump" /\ UNCHANGED err
  /\ UNCHANGED <<action, ram_areas, rsvd1, ram, disk, switch_buf, header, i, off,
                 waking_vector, clock, base, exposed>>

(* Mutant: the dump's vector is taken before its memory is. *)
disk_switch_dump_early ==
  /\ pc = "disk_switch_dump"
  /\ is_dump_header_valid(read_dump_header)
  /\ header' = read_dump_header
  /\ waking_vector' = read_dump_header.vec
  /\ pc' = "switch_read"
  /\ UNCHANGED <<action, ram_areas, rsvd1, ram, disk, switch_buf, i, off, err,
                 clock, base, exposed>>

(* disk_switch_dump reads the header again and checks it again. *)
disk_switch_dump ==
  /\ pc = "disk_switch_dump"
  /\ \/ "read" \in Faults /\ Fail /\ UNCHANGED header
     \/ ~is_dump_header_valid(read_dump_header) /\ Fail /\ UNCHANGED header
     \/ /\ is_dump_header_valid(read_dump_header)
        /\ header' = read_dump_header
        /\ pc' = "switch_read"
        /\ UNCHANGED err
  /\ UNCHANGED <<action, ram_areas, rsvd1, ram, disk, switch_buf, i, off,
                 waking_vector, clock, base, exposed>>

(* switch_memory_area, first request: part of the dump into the buffer. *)
switch_read ==
  /\ pc = "switch_read"
  /\ LET r == SwitchReq
     IN  \/ /\ InRange(r.sector, r.size)
            /\ switch_buf' = [k \in DOMAIN switch_buf |->
                                IF k < r.size THEN disk[r.sector + k]
                                ELSE switch_buf[k]]
            /\ pc' = "switch_write"
            /\ UNCHANGED err
         \/ /\ "read" \in Faults \/ ~InRange(r.sector, r.size)
            /\ Fail
            /\ UNCHANGED switch_buf
  /\ UNCHANGED <<action, ram_areas, rsvd1, ram, disk, header, i, off,
                 waking_vector, clock, base, exposed>>

(* Second request: the same part of the RAM onto the dump. *)
switch_write ==
  /\ pc = "switch_write"
  /\ LET r == SwitchReq
     IN  \/ /\ WriteOk(r.sector, r.size, r.data)
            /\ pc' = "switch_copy"
            /\ UNCHANGED err
         \/ /\ WriteFails(r.sector, r.size, r.data)
            /\ Fail
  /\ exposed' = Exposing
  /\ UNCHANGED <<action, ram_areas, rsvd1, ram, switch_buf, header, i, off,
                 waking_vector, clock, base>>

(* The memcpy of the buffer to the RAM, and on to the next part or area. *)
switch_copy ==
  /\ pc = "switch_copy"
  /\ LET r == SwitchReq
     IN  /\ ram' = [a \in Addr |-> IF a \in Span(r.addr, r.size)
                                   THEN switch_buf[a - r.addr] ELSE ram[a]]
         /\ IF MoreParts
            THEN off' = off + r.size /\ pc' = "switch_read" /\ UNCHANGED i
            ELSE /\ off' = 0
                 /\ IF MoreAreas
                    THEN i' = i + 1 /\ pc' = "switch_read"
                    ELSE i' = 1 /\ pc' = "switch_header"
  /\ UNCHANGED <<action, ram_areas, rsvd1, disk, switch_buf, header,
                 waking_vector, err, clock, base, exposed>>

(* The waking vectors trade places, then the header is written back. *)
switch_header ==
  /\ pc = "switch_header"
  /\ waking_vector' = header.vec
  /\ header' = SwappedHeader
  /\ \/ /\ disk' = HeaderWritten(header')
        /\ exposed' = FALSE
        /\ pc' = "cleanup"
        /\ UNCHANGED err
     \/ /\ "write" \in Faults
        /\ disk' \in PartialHeader(header')
        /\ UNCHANGED exposed
        /\ Fail
  /\ UNCHANGED <<action, ram_areas, rsvd1, ram, switch_buf, i, off, clock, base>>

(* acpi_return_kernel: whatever happened, a kernel is resumed. *)
acpi_return_kernel ==
  /\ pc = "cleanup"
  /\ pc' = "os"
  /\ UNCHANGED <<action, ram_areas, rsvd1, ram, disk, switch_buf, header, i, off,
                 waking_vector, err, clock, base, exposed>>

(* The power fails while the core runs; the request under way is cut.      *)
PowerLoss ==
  /\ "power" \in Faults
  /\ pc # "os"
  /\ \/ /\ pc = "store_area"
        /\ disk' \in Partial(StoreReq.sector, StoreReq.size, StoreReq.data)
        /\ exposed' = Exposing
     \/ /\ pc = "switch_write"
        /\ disk' \in Partial(SwitchReq.sector, SwitchReq.size, SwitchReq.data)
        /\ exposed' = Exposing
     \/ /\ pc = "store_header"
        /\ disk' \in PartialHeader(header)
        /\ UNCHANGED exposed
     \/ /\ pc = "switch_header"
        /\ disk' \in PartialHeader(SwappedHeader)
        /\ UNCHANGED exposed
     \/ /\ pc \notin {"store_area", "switch_write", "store_header", "switch_header"}
        /\ UNCHANGED <<disk, exposed>>
  /\ ColdBoot

CoreStep ==
  \/ core_main \/ fill_dump_header \/ store_area \/ store_header
  \/ does_disk_contain_dump \/ disk_switch_dump \/ switch_read \/ switch_write
  \/ switch_copy \/ switch_header \/ acpi_return_kernel

Next ==
  \/ \E a \in {"STORE", "SWITCH"} : set_core_action(a)
  \/ Suspend
  \/ Reboot
  \/ PowerLoss
  \/ CoreStep

Spec == Init /\ [][Next]_vars

(* The core runs alone on the machine with interrupts off. *)
FairSpec == Spec /\ WF_vars(CoreStep)

-------------------------------------------------------------------------------
(* Properties. *)

SwitchSteps == {"switch_read", "switch_write", "switch_copy", "switch_header"}
CoreSteps   == SwitchSteps \cup
  {"core_main", "fill_dump_header", "store_area", "store_header",
   "does_disk_contain_dump", "disk_switch_dump", "cleanup"}

TransferSteps == {"store_area", "switch_read", "switch_write", "switch_copy"}

VarTypes ==
  /\ pc \in CoreSteps \cup {"os"}
  /\ action \in Action
  /\ ram_areas \in Layouts
  /\ rsvd1 \in Vectors
  /\ ram \in [Addr -> Cell]
  /\ disk \in [Sector -> Cell]
  /\ switch_buf \in [0 .. (BufSectors - 1) -> Cell]
  /\ header \in Header \cup {NoHeader}
  /\ i \in Nat \ {0}
  /\ off \in Nat
  /\ waking_vector \in Vectors
  /\ err \in BOOLEAN
  /\ clock \in 0 .. MaxClock
  /\ base \in [ram : Image, dump : Image \cup {NoImage}]
  /\ exposed \in BOOLEAN

CursorsInside ==
  pc \in TransferSteps =>
    header # NoHeader /\ i \in DOMAIN header.areas /\ off < header.areas[i].size

(* Every variable holds a value of its type, and the cursors of the loops  *)
(* of disk_store_dump and switch_memory_area stay inside the header.       *)
TypeOK == VarTypes /\ CursorsInside

(* "The disk contains a dump only if a valid header exists": when no       *)
(* transfer over an older dump was cut short, a header on the disk always  *)
(* describes sectors that all belong to one image of its kernel.  This is  *)
(* what disk_store_dump writes the header last for.                        *)
HeaderMeansDump ==
  HasHeader(disk) /\ ~exposed => \E img \in Image : DumpIs(disk, disk[0], img)

(* disk_store_dump, whatever fails, leaves the suspended kernel its memory *)
(* and its vector, and reports success only over a complete dump.          *)
StoreDelivers ==
  pc = "cleanup" /\ action = "STORE" =>
    /\ RamIs(base.ram)
    /\ waking_vector = base.ram.vec
    /\ ~err => HasHeader(disk) /\ DumpIs(disk, disk[0], base.ram)

(* disk_switch_dump reports success only if the two images have traded     *)
(* places, memory and waking vector both.                                  *)
SwitchDelivers ==
  pc = "cleanup" /\ action = "SWITCH" /\ ~err /\ base.dump # NoImage =>
    /\ RamIs(base.dump)
    /\ waking_vector = base.dump.vec
    /\ DumpImage(disk) = base.ram

(* While switch_memory_area runs, every sector of both images exists: in   *)
(* the RAM, on the disk, or in the part of the buffer not yet copied.      *)
NothingLost ==
  pc \in SwitchSteps /\ base.dump # NoImage =>
    \A k \in DOMAIN header.areas : \A j \in 0 .. (header.areas[k].size - 1) :
      LET area == header.areas[k]
          buffered == IF k = i /\ pc \in {"switch_write", "switch_copy"}
                         /\ j \in Span(off, SwitchReq.size)
                      THEN {switch_buf[j - off]} ELSE {}
      IN  {base.ram, base.dump} \subseteq
            {ram[area.start + j], disk[area.sector + j]} \cup buffered

(* An action that fails before a dump was written over does no harm: the   *)
(* suspended kernel resumes whole, and the dump is the one there was or,   *)
(* when only the answer to the last request of a store was lost, the new.  *)
CleanAbort ==
  pc = "cleanup" /\ err /\ ~exposed =>
    /\ RamIs(base.ram)
    /\ waking_vector = base.ram.vec
    /\ \/ DumpImage(disk) = base.dump
       \/ action = "STORE" /\ DumpImage(disk) = base.ram

(* Memory the firmware did not report as RAM is never written, whatever    *)
(* areas the header on the disk lists (is_dump_header_valid).              *)
OnlyRamAreas ==
  [][pc # "os" /\ clock' = clock =>
       \A a \in Addr \ RamCells(ram_areas) : ram'[a] = ram[a]]_vars

(* Once in the core, the machine gets back to a kernel.                    *)
CoreReturns == pc # "os" ~> pc = "os"

(* disk_store_dump: "write the header last after all memory areas writes   *)
(* are complete, in order to avoid corruption. The disk contains a dump    *)
(* only if a valid header exists."  Refuted by a power loss: a store over  *)
(* an older dump leaves the older header valid while it replaces its data. *)
ValidHeaderMeansDump ==
  pc = "os" /\ is_dump_header_valid(disk[0]) =>
    \E img \in Image : DumpIs(disk, disk[0], img)

(* Without faults, every kernel that is resumed is whole.  With them it is *)
(* not: core_main wakes the kernel that slept on memory that a failed      *)
(* switch has half replaced.  CleanAbort says when that cannot happen.     *)
ResumedWhole == pc = "os" => Alive

(* Without faults the core implements the snapshots of module Snapshot.    *)
(* While the core runs nobody sees its work: the abstract state is the one *)
(* recorded on entry, and the action takes effect when a kernel resumes.   *)
RunningImage ==
  IF pc # "os" THEN base.ram
  ELSE IF Alive THEN CHOOSE img \in Image : img.vec = waking_vector /\ RamIs(img)
  ELSE NoImage

Snap == INSTANCE Snapshot WITH
          running <- RunningImage,
          dump    <- IF pc # "os" THEN base.dump ELSE DumpImage(disk)

ImplementsSnapshot == Snap!SSpec
===============================================================================
