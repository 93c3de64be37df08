------------------------------ MODULE DumpProofs ------------------------------
(***************************************************************************)
(* Proofs about module Dump, for any layouts, disk, buffer and faults.     *)
(*                                                                         *)
(* TInv is inductive: the types of the variables, where the loops of       *)
(* core_main stand at each step (Cursors), and that every header on the    *)
(* disk places its areas behind itself and apart (HeadersPlaced).          *)
(***************************************************************************)
EXTENDS Dump, SequenceTheorems, TLAPS

(* The first n areas of header h are those of the firmware.                *)
Matches(h, n) ==
  /\ h \in Header
  /\ Len(h.areas) = n
  /\ n \in 1 .. Len(ram_areas)
  /\ \A k \in 1 .. n : /\ h.areas[k].start = ram_areas[k].start
                       /\ h.areas[k].size = ram_areas[k].size

(* Data lies behind the header, and areas do not overlap on the disk.      *)
Placed(h) ==
  /\ \A k \in 1 .. Len(h.areas) : h.areas[k].sector >= HeaderSectors
  /\ \A j, k \in 1 .. Len(h.areas) :
       j < k => h.areas[j].sector + h.areas[j].size <= h.areas[k].sector

HeadersPlaced == HasHeader(disk) => Placed(disk[0])

StoreSteps == {"store_area", "store_header"}

Cursors ==
  /\ pc = "fill_dump_header" =>
       /\ i \in 1 .. Len(ram_areas)
       /\ off = 0
       /\ i > 1 => Matches(header, i - 1) /\ Placed(header) /\ header.vec = rsvd1
  /\ pc \in StoreSteps =>
       /\ Matches(header, Len(ram_areas)) /\ Placed(header) /\ header.vec = rsvd1
       /\ i \in 1 .. Len(ram_areas)
       /\ off = 0
  /\ pc \in {"does_disk_contain_dump", "disk_switch_dump"} => i = 1 /\ off = 0
  /\ pc \in SwitchSteps =>
       /\ Matches(header, Len(ram_areas)) /\ Placed(header)
       /\ disk[0] = header
       /\ i \in 1 .. Len(ram_areas)
       /\ off \in 0 .. (header.areas[i].size - 1)

TInv == VarTypes /\ Cursors /\ HeadersPlaced

-------------------------------------------------------------------------------
(* The constants. *)

(* A descriptor never holds a longer length than it is given, and holds a    *)
(* length it has room for.                                                   *)
LEMMA LenFits ==
  \A s \in Nat : desc_len(s) \in 0 .. s /\ (s < LenLimit => desc_len(s) = s)
<1>1. ASSUME NEW a \in Nat, NEW b \in Nat \ {0} PROVE a % b \in Nat /\ a % b <= a
  BY SMTT(30)
<1>2. ASSUME NEW a \in Nat, NEW b \in Nat \ {0}, a < b PROVE a % b = a
  BY <1>2, SMTT(30)
<1> QED
  BY <1>1, <1>2, SizesArePositive DEF desc_len

LEMMA PartBounds ==
  ASSUME NEW n \in Nat, NEW b \in Nat \ {0}, NEW o \in 0 .. (n - 1)
  PROVE  LET s == IF n - o < b THEN n - o ELSE b
         IN  s \in 1 .. b /\ o + s <= n /\ (s = b \/ o + s = n)
  BY SMT

LEMMA SpanInside ==
  ASSUME NEW lo \in Nat, NEW o \in Nat, NEW n \in Nat, NEW m \in Nat, o + m <= n,
         NEW a \in Span(lo + o, m)
  PROVE  a - lo \in 0 .. (n - 1) /\ a = lo + (a - lo)
  BY SMT DEF Span

(* The header has sectors of its own, and what is no header never looks like *)
(* one.                                                                      *)
LEMMA HeaderSector ==
  /\ 0 \in Sector
  /\ HeaderSectors \in Nat /\ HeaderSectors >= 1
  /\ Blank \notin Header /\ NoHeader \notin Header /\ NoImage \notin Image
<1>1. 0 \in Sector /\ HeaderSectors \in Nat /\ HeaderSectors >= 1
  BY SizesArePositive DEF Sector
<1>2. Blank \notin Header /\ NoHeader \notin Header /\ NoImage \notin Image
  BY MarksAreNotData DEF Header, DiskArea, Image
<1> QED
  BY <1>1, <1>2

LEMMA LayoutTypes ==
  ASSUME NEW l \in Layouts
  PROVE  /\ l \in Seq([start : Nat, size : Nat \ {0}])
         /\ Len(l) \in Nat \ {0}
         /\ DOMAIN l = 1 .. Len(l)
         /\ \A k \in 1 .. Len(l) : l[k].start \in Nat /\ l[k].size \in Nat \ {0}
<1>1. l \in Seq([start : Nat, size : Nat \ {0}]) /\ Len(l) > 0
  BY LayoutsAreDisjoint DEF LayoutsAssumption
<1>2. Len(l) \in Nat /\ DOMAIN l = 1 .. Len(l)
  BY <1>1
<1>3. \A k \in 1 .. Len(l) : l[k] \in [start : Nat, size : Nat \ {0}]
  BY <1>1, ElementOfSeq
<1> QED
  BY <1>1, <1>2, <1>3

LEMMA LayoutCells ==
  ASSUME NEW l \in Layouts
  PROVE  /\ RamCells(l) \subseteq Addr
         /\ \A k \in 1 .. Len(l) : \A j \in 0 .. (l[k].size - 1) : l[k].start + j \in RamCells(l)
         /\ \A a \in RamCells(l) : \E k \in 1 .. Len(l) : \E j \in 0 .. (l[k].size - 1) :
              a = l[k].start + j
<1>1. RamCells(l) \subseteq Addr
  BY DEF Addr
<1>2. ASSUME NEW k \in 1 .. Len(l), NEW j \in 0 .. (l[k].size - 1)
      PROVE  l[k].start + j \in RamCells(l)
  <2>1. l[k].start + j \in Span(l[k].start, l[k].size)
    BY LayoutTypes, SMTT(30) DEF Span
  <2> QED
    BY <2>1, LayoutTypes DEF RamCells
<1>3. ASSUME NEW a \in RamCells(l)
      PROVE  \E k \in 1 .. Len(l) : \E j \in 0 .. (l[k].size - 1) : a = l[k].start + j
  <2>1. PICK k \in 1 .. Len(l) : a \in Span(l[k].start, l[k].size)
    BY LayoutTypes DEF RamCells
  <2>2. l[k].start \in Nat /\ l[k].size \in Nat
    BY LayoutTypes
  <2>3. a - l[k].start \in 0 .. (l[k].size - 1) /\ a = l[k].start + (a - l[k].start)
    BY <2>1, <2>2 DEF Span
  <2> QED
    BY <2>3
<1> QED
  BY <1>1, <1>2, <1>3

LEMMA HeaderTypes ==
  ASSUME NEW h \in Header
  PROVE  /\ h.vec \in Vectors
         /\ h.areas \in Seq(DiskArea)
         /\ Len(h.areas) \in Nat
         /\ DOMAIN h.areas = 1 .. Len(h.areas)
         /\ \A k \in 1 .. Len(h.areas) :
              h.areas[k].start \in Nat /\ h.areas[k].size \in Nat /\ h.areas[k].sector \in Nat
<1>1. h.vec \in Vectors /\ h.areas \in Seq(DiskArea)
  BY DEF Header
<1>2. \A k \in 1 .. Len(h.areas) : h.areas[k] \in DiskArea
  BY <1>1
<1> QED
  BY <1>1, <1>2 DEF DiskArea

-------------------------------------------------------------------------------
(* Requests. *)

(* A data request changes nothing outside its sectors, whether it succeeds,  *)
(* fails or is cut, and the header is outside.                               *)
LEMMA DataWrite ==
  ASSUME disk \in [Sector -> Cell], NEW lo \in Nat, lo >= 1, NEW n \in Nat, NEW src,
         \A k \in 0 .. (n - 1) : src[k] \in Cell,
         WriteOk(lo, n, src) \/ disk' \in Partial(lo, n, src)
  PROVE  /\ disk' \in [Sector -> Cell]
         /\ disk'[0] = disk[0]
         /\ \A s \in Sector : s \notin Span(lo, n) => disk'[s] = disk[s]
         /\ WriteOk(lo, n, src) => /\ \A k \in 0 .. (n - 1) : disk'[lo + k] = src[k]
                                  /\ \A k \in 0 .. (n - 1) : lo + k \in Sector
<1>1. PICK done \in SUBSET (Span(lo, n) \cap Sector) :
        /\ disk' = Written(done, lo, src)
        /\ WriteOk(lo, n, src) => done = Span(lo, n)
  <2>1. CASE WriteOk(lo, n, src)
    <3>1. lo + n <= DiskSize /\ disk' = Written(Span(lo, n), lo, src)
      BY <2>1 DEF WriteOk, InRange
    <3>2. Span(lo, n) \subseteq Sector
      BY <3>1, SizesArePositive DEF Span, Sector
    <3> QED
      BY <3>1, <3>2
  <2>2. CASE ~WriteOk(lo, n, src)
    BY <2>2 DEF Partial
  <2> QED
    BY <2>1, <2>2
<1>2. /\ disk' \in [Sector -> Cell]
      /\ \A s \in done : disk'[s] = src[s - lo]
      /\ \A s \in Sector \ done : disk'[s] = disk[s]
  <2>1. /\ Written(done, lo, src) \in [Sector -> Cell]
        /\ \A s \in done : Written(done, lo, src)[s] = src[s - lo]
        /\ \A s \in Sector \ done : Written(done, lo, src)[s] = disk[s]
    <3>1. \A s \in done : s \in Span(lo, n) /\ s \in Sector
      OBVIOUS
    <3>2. \A s \in done : s - lo \in 0 .. (n - 1)
      BY <3>1, SMT DEF Span, Sector
    <3> QED
      BY <3>1, <3>2 DEF Written
  <2> QED
    BY <1>1, <2>1, Zenon
<1>3. 0 \in Sector /\ 0 \notin Span(lo, n)
  BY HeaderSector, SMT DEF Span
<1>4. ASSUME WriteOk(lo, n, src), NEW k \in 0 .. (n - 1)
      PROVE  disk'[lo + k] = src[k] /\ lo + k \in Sector
  <2>1. lo + k \in Span(lo, n) /\ (lo + k) - lo = k
    BY DEF Span
  <2> QED
    BY <1>1, <1>2, <1>4, <2>1
<1> QED
  BY <1>1, <1>2, <1>3, <1>4

(* What the areas of a header that matches the firmware's are.               *)
LEMMA MatchFacts ==
  ASSUME ram_areas \in Layouts, NEW h, Matches(h, Len(ram_areas)), Placed(h),
         NEW k \in 1 .. Len(ram_areas)
  PROVE  /\ h \in Header /\ DOMAIN h.areas = 1 .. Len(ram_areas)
         /\ Len(h.areas) = Len(ram_areas)
         /\ h.areas[k].start \in Nat /\ h.areas[k].size \in Nat \ {0}
         /\ h.areas[k].sector \in Nat /\ h.areas[k].sector >= 1
         /\ \A j \in 0 .. (h.areas[k].size - 1) :
              /\ h.areas[k].start + j \in RamCells(ram_areas)
              /\ h.areas[k].start + j \in Addr
<1>1. h \in Header /\ Len(h.areas) = Len(ram_areas)
      /\ h.areas[k].start = ram_areas[k].start /\ h.areas[k].size = ram_areas[k].size
  BY DEF Matches
<1>2. DOMAIN h.areas = 1 .. Len(ram_areas) /\ h.areas[k].sector \in Nat
  BY <1>1, HeaderTypes
<1>3. h.areas[k].start \in Nat /\ h.areas[k].size \in Nat \ {0}
  BY <1>1, LayoutTypes
<1>4. h.areas[k].sector >= 1
  BY <1>1, <1>2, HeaderSector DEF Placed
<1> QED
  BY <1>1, <1>2, <1>3, <1>4, LayoutCells

LEMMA StoreReqFacts ==
  ASSUME TInv, pc = "store_area"
  PROVE  /\ StoreReq.sector \in Nat /\ StoreReq.sector >= 1
         /\ StoreReq.sector = header.areas[i].sector
         /\ StoreReq.size = desc_len(header.areas[i].size)
         /\ StoreReq.size \in 0 .. header.areas[i].size
         /\ \A k \in 0 .. (StoreReq.size - 1) :
              StoreReq.data[k] = ram[header.areas[i].start + k] /\ StoreReq.data[k] \in Cell
<1>1. /\ Matches(header, Len(ram_areas)) /\ Placed(header) /\ i \in 1 .. Len(ram_areas)
      /\ ram_areas \in Layouts /\ ram \in [Addr -> Cell]
  BY DEF TInv, VarTypes, Cursors, StoreSteps
<1> DEFINE area == header.areas[i]
<1>2. /\ area.sector \in Nat /\ area.sector >= 1 /\ area.size \in Nat /\ area.start \in Nat
      /\ \A j \in 0 .. (area.size - 1) : area.start + j \in Addr
  BY <1>1, MatchFacts
<1>3. desc_len(area.size) \in 0 .. area.size
  BY <1>2, LenFits
<1>4. /\ StoreReq.sector = area.sector /\ StoreReq.size = desc_len(area.size)
      /\ StoreReq.data = [k \in 0 .. (area.size - 1) |-> ram[area.start + k]]
  BY DEF StoreReq
<1> QED
  BY <1>1, <1>2, <1>3, <1>4

LEMMA SwitchReqFacts ==
  ASSUME TInv, pc \in SwitchSteps
  PROVE  /\ SwitchReq.size \in 1 .. BufSectors
         /\ off + SwitchReq.size <= header.areas[i].size
         /\ SwitchReq.sector = header.areas[i].sector + off
         /\ SwitchReq.sector \in Nat /\ SwitchReq.sector >= 1
         /\ SwitchReq.addr = header.areas[i].start + off /\ SwitchReq.addr \in Nat
         /\ \A k \in 0 .. (SwitchReq.size - 1) :
              SwitchReq.data[k] = ram[SwitchReq.addr + k] /\ SwitchReq.data[k] \in Cell
         /\ \A a \in Span(SwitchReq.addr, SwitchReq.size) : a \in RamCells(ram_areas)
         /\ SwitchReq.size = BufSectors \/ off + SwitchReq.size = header.areas[i].size
<1>1. /\ Matches(header, Len(ram_areas)) /\ Placed(header) /\ i \in 1 .. Len(ram_areas)
      /\ ram_areas \in Layouts /\ ram \in [Addr -> Cell]
      /\ off \in 0 .. (header.areas[i].size - 1)
  BY DEF TInv, VarTypes, Cursors
<1> DEFINE area == header.areas[i]
           left == area.size - off
           size == IF left < BufSectors THEN left ELSE BufSectors
<1>2. /\ area.sector \in Nat /\ area.sector >= 1 /\ area.size \in Nat /\ area.start \in Nat
      /\ \A j \in 0 .. (area.size - 1) :
           area.start + j \in RamCells(ram_areas) /\ area.start + j \in Addr
  BY <1>1, MatchFacts
<1>3. /\ SwitchReq.sector = area.sector + off /\ SwitchReq.addr = area.start + off
      /\ SwitchReq.size = size
      /\ SwitchReq.data = [k \in 0 .. (size - 1) |-> ram[area.start + off + k]]
  BY DEF SwitchReq
<1>4. size \in 1 .. BufSectors /\ off + size <= area.size
      /\ (size = BufSectors \/ off + size = area.size)
  BY <1>1, <1>2, PartBounds, SizesArePositive
<1> HIDE DEF size, left
<1>5. ASSUME NEW k \in 0 .. (size - 1)
      PROVE  ram[area.start + off + k] \in Cell
  <2>1. off + k \in 0 .. (area.size - 1) /\ area.start + off + k = area.start + (off + k)
    BY <1>1, <1>2, <1>4, SMTT(30)
  <2> QED
    BY <1>1, <1>2, <2>1
<1>6. ASSUME NEW a \in Span(area.start + off, size)
      PROVE  a \in RamCells(ram_areas)
  <2>1. size \in Nat /\ off \in Nat /\ area.start \in Nat /\ area.size \in Nat
    BY <1>1, <1>2, <1>4, SizesArePositive
  <2> HIDE DEF area
  <2>2. a - area.start \in 0 .. (area.size - 1) /\ a = area.start + (a - area.start)
    BY <1>4, <1>6, <2>1, SpanInside, SMTT(30)
  <2> QED
    BY <1>2, <2>2
<1>7. /\ area.sector + off \in Nat /\ area.sector + off >= 1 /\ area.start + off \in Nat
  <2>1. off \in Nat
    BY <1>1, <1>2
  <2> HIDE DEF area
  <2> QED
    BY <1>2, <2>1
<1> QED
  BY <1>3, <1>4, <1>5, <1>6, <1>7

-------------------------------------------------------------------------------
(* Types and cursors. *)

LEMMA BootT == TInv /\ ColdBoot /\ disk' \in [Sector -> Cell] /\ exposed' \in BOOLEAN
               /\ disk'[0] \in {disk[0], header, SwappedHeader, Blank}
               /\ (disk'[0] \in {header, SwappedHeader} /\ HasHeader(disk)'
                     => Placed(disk'[0]))
               => TInv'
<1> SUFFICES ASSUME TInv, ColdBoot, disk' \in [Sector -> Cell], exposed' \in BOOLEAN,
                    disk'[0] \in {disk[0], header, SwappedHeader, Blank},
                    disk'[0] \in {header, SwappedHeader} /\ HasHeader(disk)'
                      => Placed(disk'[0])
             PROVE  TInv'
  OBVIOUS
<1>1. clock' \in 0 .. MaxClock
  BY SizesArePositive DEF TInv, VarTypes, ColdBoot
<1>2. [vec |-> waking_vector', at |-> clock'] \in Cell
  BY <1>1 DEF ColdBoot, Image, Cell, Content
<1>3. VarTypes'
  <2>1. ram' \in [Addr -> Cell]
    BY <1>2 DEF ColdBoot
  <2>2. switch_buf' \in [0 .. (BufSectors - 1) -> Cell]
    BY DEF ColdBoot, Cell, Content
  <2>3. off' \in Nat /\ i' \in Nat \ {0} /\ header' \in Header \cup {NoHeader}
    BY DEF ColdBoot
  <2>4. err' \in BOOLEAN
    BY Zenon DEF ColdBoot
  <2> QED
    BY <1>1, <2>1, <2>2, <2>3, <2>4 DEF TInv, VarTypes, ColdBoot, Action
<1>4. Cursors'
  BY DEF ColdBoot, Cursors, StoreSteps, SwitchSteps
<1>5. HeadersPlaced'
  BY HeaderSector DEF TInv, HeadersPlaced, HasHeader
<1> QED
  BY <1>3, <1>4, <1>5 DEF TInv

LEMMA HeaderWrite ==
  ASSUME disk \in [Sector -> Cell], NEW h, h \in Header,
         disk' = HeaderWritten(h) \/ disk' \in PartialHeader(h)
  PROVE  /\ disk' \in [Sector -> Cell]
         /\ disk'[0] \in {disk[0], h, Blank}
         /\ \A s \in Sector : s # 0 => disk'[s] = disk[s]
<1>1. 0 \in Sector /\ h \in Cell /\ Blank \in Cell
  BY HeaderSector DEF Cell, Content
<1> QED
  BY <1>1 DEF HeaderWritten, PartialHeader

LEMMA SwitchCopyRam ==
  ASSUME TInv, switch_copy
  PROVE  /\ ram' \in [Addr -> Cell]
         /\ \A a \in Addr \ RamCells(ram_areas) : ram'[a] = ram[a]
<1> DEFINE r == SwitchReq
<1>1. /\ r.addr \in Nat /\ r.size \in 1 .. BufSectors
      /\ \A a \in Span(r.addr, r.size) : a \in RamCells(ram_areas)
  <2>1. pc \in SwitchSteps
    BY DEF switch_copy, SwitchSteps
  <2> QED
    BY <2>1, SwitchReqFacts
<1>2. ram' = [a \in Addr |-> IF a \in Span(r.addr, r.size)
                             THEN switch_buf[a - r.addr] ELSE ram[a]]
  BY DEF switch_copy
<1>3. ram \in [Addr -> Cell] /\ switch_buf \in [0 .. (BufSectors - 1) -> Cell]
  BY DEF TInv, VarTypes
<1> HIDE DEF r
<1>4. \A a \in Span(r.addr, r.size) : a - r.addr \in 0 .. (BufSectors - 1)
  BY <1>1, SizesArePositive, SMT DEF Span
<1> QED
  BY <1>1, <1>2, <1>3, <1>4

(* The header a switch writes back keeps the areas of the one it read.       *)
LEMMA SwappedFacts ==
  ASSUME TInv, header \in Header, Placed(header)
  PROVE  /\ SwappedHeader \in Header /\ Placed(SwappedHeader)
         /\ SwappedHeader.areas = header.areas /\ SwappedHeader.vec = rsvd1
<1>1. rsvd1 \in Vectors
  BY DEF TInv, VarTypes
<1>2. /\ SwappedHeader \in Header
      /\ SwappedHeader.areas = header.areas /\ SwappedHeader.vec = rsvd1
  BY <1>1 DEF SwappedHeader, Header
<1> QED
  BY <1>2 DEF Placed

(* Every step of the core, a kernel or a fault keeps the invariant.          *)
LEMMA TypeInvariant == Spec => []TInv
<1>1. Init => TInv
  <2> SUFFICES ASSUME Init PROVE TInv
    OBVIOUS
  <2>1. Blank \notin Header /\ 0 \in Sector
    BY HeaderSector
  <2>2. base \in [ram : Image, dump : Image \cup {NoImage}]
    BY SizesArePositive DEF Init, Image
  <2>3. ram \in [Addr -> Cell]
    BY SizesArePositive DEF Init, Image, Cell, Content
  <2>4. VarTypes
    <3>1. err \in BOOLEAN /\ exposed \in BOOLEAN /\ off \in Nat
      BY DEF Init
    <3>2. switch_buf \in [0 .. (BufSectors - 1) -> Cell] /\ disk \in [Sector -> Cell]
      BY DEF Init, Cell, Content
    <3>3. clock \in 0 .. MaxClock
      BY SizesArePositive DEF Init
    <3> QED
      BY <2>2, <2>3, <3>1, <3>2, <3>3 DEF Init, VarTypes, Action
  <2>5. HeadersPlaced
    BY <2>1 DEF Init, HeadersPlaced, HasHeader
  <2> QED
    BY <2>4, <2>5 DEF TInv, Cursors, Init, StoreSteps, SwitchSteps
<1>2. TInv /\ (\E a \in {"STORE", "SWITCH"} : set_core_action(a)) => TInv'
  <2> SUFFICES ASSUME TInv, NEW a \in {"STORE", "SWITCH"}, set_core_action(a) PROVE TInv'
    OBVIOUS
  <2>1. VarTypes'
    BY DEF TInv, VarTypes, set_core_action, Action
  <2>2. Cursors'
    BY DEF TInv, Cursors, set_core_action, StoreSteps, SwitchSteps
  <2>3. HeadersPlaced'
    BY DEF TInv, HeadersPlaced, HasHeader, set_core_action
  <2> QED
    BY <2>1, <2>2, <2>3 DEF TInv
<1>3. TInv /\ Suspend => TInv'
  <2> SUFFICES ASSUME TInv, Suspend PROVE TInv'
    OBVIOUS
  <2> DEFINE img == [vec |-> waking_vector, at |-> clock + 1]
  <2>1. clock' \in 0 .. MaxClock /\ clock' = clock + 1
    BY SizesArePositive DEF TInv, VarTypes, Suspend
  <2>2. img \in Image
    BY <2>1 DEF TInv, VarTypes, Image
  <2>3. ram' = [a \in Addr |-> img] /\ base' = [ram |-> img, dump |-> DumpImage(disk)]
    BY DEF Suspend
  <2> HIDE DEF img
  <2>4. ram' \in [Addr -> Cell] /\ base' \in [ram : Image, dump : Image \cup {NoImage}]
    <3>1. DumpImage(disk) \in Image \cup {NoImage}
      BY DEF DumpImage
    <3> QED
      BY <2>2, <2>3, <3>1 DEF Cell, Content
  <2>5. VarTypes'
    BY <2>1, <2>4 DEF TInv, VarTypes, Suspend, CoreSteps
  <2>6. Cursors'
    BY DEF TInv, Cursors, Suspend, StoreSteps, SwitchSteps
  <2>7. HeadersPlaced'
    BY DEF TInv, HeadersPlaced, HasHeader, Suspend
  <2> QED
    BY <2>5, <2>6, <2>7 DEF TInv
<1>4. TInv /\ core_main => TInv'
  <2> SUFFICES ASSUME TInv, core_main PROVE TInv'
    OBVIOUS
  <2>1. VarTypes'
    <3>1. pc' \in CoreSteps
      BY DEF core_main, Fail, CoreSteps
    <3>2. err' \in BOOLEAN
      BY DEF TInv, VarTypes, core_main, Fail
    <3>3. off' \in Nat /\ i' \in Nat \ {0} /\ header' \in Header \cup {NoHeader}
      BY DEF core_main
    <3> QED
      BY <3>1, <3>2, <3>3 DEF TInv, VarTypes, core_main
  <2>2. Cursors'
    <3>1. Len(ram_areas) \in Nat \ {0}
      BY LayoutTypes DEF TInv, VarTypes
    <3> QED
      BY <3>1 DEF TInv, Cursors, core_main, Fail, StoreSteps, SwitchSteps
  <2>3. HeadersPlaced'
    BY DEF TInv, HeadersPlaced, HasHeader, core_main
  <2> QED
    BY <2>1, <2>2, <2>3 DEF TInv
<1>5. TInv /\ fill_dump_header => TInv'
  <2> SUFFICES ASSUME TInv, fill_dump_header PROVE TInv'
    OBVIOUS
  <2> DEFINE areas == IF i = 1 THEN <<>> ELSE header.areas
             sector == IF i = 1 THEN HeaderSectors
                       ELSE areas[i - 1].sector + areas[i - 1].size
             area == [start |-> ram_areas[i].start, size |-> ram_areas[i].size,
                      sector |-> sector]
  <2>1. /\ i \in 1 .. Len(ram_areas) /\ Len(ram_areas) \in Nat \ {0}
        /\ ram_areas[i].start \in Nat /\ ram_areas[i].size \in Nat \ {0}
    BY LayoutTypes DEF TInv, VarTypes, Cursors, fill_dump_header
  <2>2. /\ areas \in Seq(DiskArea) /\ Len(areas) = i - 1
        /\ \A k \in 1 .. (i - 1) : /\ areas[k].start = ram_areas[k].start
                                   /\ areas[k].size = ram_areas[k].size
                                   /\ areas[k].sector >= HeaderSectors
                                   /\ areas[k].sector \in Nat /\ areas[k].size \in Nat
        /\ \A j, k \in 1 .. (i - 1) : j < k => areas[j].sector + areas[j].size <= areas[k].sector
    <3>1. CASE i = 1
      BY <2>1, <3>1
    <3>2. CASE i > 1
      <4>1. Matches(header, i - 1) /\ Placed(header) /\ areas = header.areas
        BY <3>2, <2>1 DEF TInv, Cursors, fill_dump_header
      <4>2. header \in Header /\ Len(header.areas) = i - 1
        BY <4>1 DEF Matches
      <4> QED
        BY <4>1, <4>2, HeaderTypes DEF Matches, Placed
    <3> QED
      BY <2>1, <3>1, <3>2
  <2>3. /\ sector \in Nat /\ sector >= HeaderSectors
        /\ \A j \in 1 .. (i - 1) : areas[j].sector + areas[j].size <= sector
    <3> HIDE DEF areas
    <3>1. CASE i = 1
      BY <2>1, <3>1, HeaderSector
    <3>2. CASE i > 1
      <4>1. i - 1 \in 1 .. (i - 1) /\ sector = areas[i - 1].sector + areas[i - 1].size
        BY <2>1, <3>2
      <4> DEFINE last == areas[i - 1]
      <4>2. last.sector \in Nat /\ last.size \in Nat /\ last.sector >= HeaderSectors
        BY <2>2, <4>1
      <4>3. sector \in Nat /\ sector >= HeaderSectors /\ sector >= last.sector + last.size
        BY <4>1, <4>2, HeaderSector
      <4>4. ASSUME NEW j \in 1 .. (i - 1) PROVE areas[j].sector + areas[j].size <= sector
        <5>1. CASE j = i - 1
          BY <4>1, <4>2, <5>1
        <5>2. CASE j < i - 1
          <6>1. areas[j].sector + areas[j].size <= last.sector
            BY <2>2, <4>1, <5>2
          <6> QED
            BY <2>2, <4>1, <4>2, <6>1
        <5> QED
          BY <2>1, <5>1, <5>2
      <4> QED
        BY <4>3, <4>4
    <3> QED
      BY <2>1, <3>1, <3>2
  <2>4. header' = [vec |-> rsvd1, areas |-> Append(areas, area)]
    BY DEF fill_dump_header, FirstSector
  <2> HIDE DEF areas, sector
  <2> DEFINE more == Append(areas, area)
  <2>5. area \in DiskArea
    BY <2>1, <2>3 DEF DiskArea
  <2>6. /\ more \in Seq(DiskArea) /\ Len(more) = i
        /\ \A k \in 1 .. (i - 1) : more[k] = areas[k]
        /\ more[i] = area
    <3> HIDE DEF area
    <3> QED
      BY <2>1, <2>2, <2>5
  <2>7. header' \in Header /\ header'.vec = rsvd1 /\ header'.areas = more
    BY <2>4, <2>6 DEF TInv, VarTypes, Header
  <2> HIDE DEF more
  <2>8. Placed(header')
    <3>1. \A k \in 1 .. i : more[k].sector >= HeaderSectors
      BY <2>1, <2>2, <2>3, <2>6
    <3>2. ASSUME NEW j \in 1 .. i, NEW k \in 1 .. i, j < k
          PROVE  more[j].sector + more[j].size <= more[k].sector
      <4>1. CASE k < i
        <5>1. /\ j \in 1 .. (i - 1) /\ k \in 1 .. (i - 1)
              /\ more[j] = areas[j] /\ more[k] = areas[k]
          BY <2>1, <2>6, <3>2, <4>1
        <5> QED
          BY <2>2, <3>2, <5>1
      <4>2. CASE k = i
        <5>1. more[k].sector = sector /\ j \in 1 .. (i - 1) /\ more[j] = areas[j]
          BY <2>1, <2>6, <3>2, <4>2
        <5> QED
          BY <2>3, <5>1
      <4> QED
        BY <2>1, <4>1, <4>2
    <3> QED
      BY <2>6, <2>7, <3>1, <3>2 DEF Placed
  <2>9. \A k \in 1 .. i : /\ more[k].start = ram_areas[k].start
                          /\ more[k].size = ram_areas[k].size
    BY <2>1, <2>2, <2>6
  <2>10. Matches(header', i)
    BY <2>1, <2>6, <2>7, <2>9 DEF Matches
  <2>11. Cursors'
    <3>1. UNCHANGED <<ram_areas, rsvd1, off>> /\ off = 0
      BY DEF TInv, Cursors, fill_dump_header
    <3>2. CASE i < Len(ram_areas)
      <4>1. i' = i + 1 /\ pc' = "fill_dump_header"
        BY <3>2 DEF fill_dump_header
      <4>2. Matches(header', i' - 1)
        BY <2>10, <4>1, <2>1
      <4> QED
        BY <2>1, <2>7, <2>8, <3>1, <3>2, <4>1, <4>2
        DEF Cursors, StoreSteps, SwitchSteps, Matches
    <3>3. CASE i = Len(ram_areas)
      <4>1. i' = 1 /\ pc' = "store_area"
        BY <2>1, <3>3 DEF fill_dump_header
      <4> QED
        BY <2>1, <2>7, <2>8, <2>10, <3>1, <3>3, <4>1
        DEF Cursors, StoreSteps, SwitchSteps, Matches
    <3> QED
      BY <2>1, <3>2, <3>3
  <2>12. VarTypes'
    <3>1. pc' \in CoreSteps /\ i' \in Nat \ {0}
      BY <2>1 DEF fill_dump_header, CoreSteps
    <3> QED
      BY <2>7, <3>1 DEF TInv, VarTypes, fill_dump_header
  <2>13. HeadersPlaced'
    BY DEF TInv, HeadersPlaced, HasHeader, fill_dump_header
  <2> QED
    BY <2>11, <2>12, <2>13 DEF TInv
<1>6. TInv /\ store_area => TInv'
  <2> SUFFICES ASSUME TInv, store_area PROVE TInv'
    OBVIOUS
  <2> DEFINE r == StoreReq
  <2>1. /\ r.sector \in Nat /\ r.sector >= 1 /\ r.size \in Nat
        /\ \A k \in 0 .. (r.size - 1) : r.data[k] \in Cell
    BY StoreReqFacts DEF store_area
  <2>2. WriteOk(r.sector, r.size, r.data) \/ disk' \in Partial(r.sector, r.size, r.data)
    BY DEF store_area, WriteFails
  <2>3. disk' \in [Sector -> Cell] /\ disk'[0] = disk[0]
    <3>1. disk \in [Sector -> Cell]
      BY DEF TInv, VarTypes
    <3> HIDE DEF r
    <3> QED
      BY <2>1, <2>2, <3>1, DataWrite
  <2>4. /\ Matches(header, Len(ram_areas)) /\ Placed(header) /\ header.vec = rsvd1
        /\ i \in 1 .. Len(ram_areas) /\ off = 0
        /\ Len(ram_areas) \in Nat \ {0} /\ Len(header.areas) = Len(ram_areas)
    BY LayoutTypes DEF TInv, VarTypes, Cursors, StoreSteps, store_area, Matches
  <2>5. UNCHANGED <<action, ram_areas, rsvd1, ram, switch_buf, header, off,
                    waking_vector, clock, base>>
    BY DEF store_area
  <2>6. /\ pc' \in {"store_area", "store_header", "cleanup"}
        /\ i' \in 1 .. Len(ram_areas)
    BY <2>4 DEF store_area, MoreAreas, Fail
  <2>7. err' \in BOOLEAN /\ exposed' \in BOOLEAN
    <3>1. err \in BOOLEAN /\ exposed \in BOOLEAN
      BY DEF TInv, VarTypes
    <3>2. err' = err \/ err' = TRUE
      BY Zenon DEF store_area, Fail
    <3>3. exposed' = (exposed \/ HasHeader(disk))
      BY Zenon DEF store_area, Exposing
    <3> QED
      BY <3>1, <3>2, <3>3, Zenon
  <2>8. VarTypes'
    <3>1. pc' \in CoreSteps /\ i' \in Nat \ {0}
      BY <2>4, <2>6 DEF CoreSteps
    <3> QED
      BY <2>3, <2>5, <2>7, <3>1 DEF TInv, VarTypes
  <2>9. Cursors'
    BY <2>4, <2>5, <2>6 DEF Cursors, StoreSteps, SwitchSteps, Matches
  <2>10. HeadersPlaced'
    BY <2>3 DEF TInv, HeadersPlaced, HasHeader
  <2> QED
    BY <2>8, <2>9, <2>10 DEF TInv
<1>7. TInv /\ store_header => TInv'
  <2> SUFFICES ASSUME TInv, store_header PROVE TInv'
    OBVIOUS
  <2>1. header \in Header /\ Placed(header)
    BY DEF TInv, Cursors, StoreSteps, store_header, Matches
  <2>2. disk \in [Sector -> Cell]
    BY DEF TInv, VarTypes
  <2>3. disk' = HeaderWritten(header) \/ disk' \in PartialHeader(header)
    BY DEF store_header
  <2>4. disk' \in [Sector -> Cell] /\ disk'[0] \in {disk[0], header, Blank}
    BY <2>1, <2>2, <2>3, HeaderWrite
  <2>5. pc' = "cleanup"
    BY DEF store_header, Fail
  <2>6. err' \in BOOLEAN /\ exposed' \in BOOLEAN
    BY Zenon DEF store_header, Fail, TInv, VarTypes
  <2>7. UNCHANGED <<action, ram_areas, rsvd1, ram, switch_buf, header, i, off,
                    waking_vector, clock, base>>
    BY DEF store_header
  <2>8. VarTypes'
    BY <2>4, <2>5, <2>6, <2>7 DEF TInv, VarTypes, CoreSteps
  <2>9. Cursors'
    BY <2>5 DEF Cursors, StoreSteps, SwitchSteps
  <2>10. HeadersPlaced'
    BY <2>1, <2>4, HeaderSector DEF TInv, HeadersPlaced, HasHeader
  <2> QED
    BY <2>8, <2>9, <2>10 DEF TInv
<1>8. TInv /\ does_disk_contain_dump => TInv'
  <2> SUFFICES ASSUME TInv, does_disk_contain_dump PROVE TInv'
    OBVIOUS
  <2>1. UNCHANGED <<action, ram_areas, rsvd1, ram, disk, switch_buf, header, i, off,
                    waking_vector, clock, base, exposed>>
    BY DEF does_disk_contain_dump, read_dump_header
  <2>2. pc' \in {"disk_switch_dump", "cleanup"} /\ i = 1 /\ off = 0
    BY DEF does_disk_contain_dump, read_dump_header, Fail, TInv, Cursors
  <2>3. err' \in BOOLEAN
    BY Zenon DEF does_disk_contain_dump, read_dump_header, Fail, TInv, VarTypes
  <2>4. VarTypes'
    BY <2>1, <2>2, <2>3 DEF TInv, VarTypes, CoreSteps, SwitchSteps
  <2>5. Cursors'
    BY <2>1, <2>2 DEF Cursors, StoreSteps, SwitchSteps
  <2>6. HeadersPlaced'
    BY <2>1 DEF TInv, HeadersPlaced, HasHeader
  <2> QED
    BY <2>4, <2>5, <2>6 DEF TInv
<1>9. TInv /\ disk_switch_dump => TInv'
  <2> SUFFICES ASSUME TInv, disk_switch_dump PROVE TInv'
    OBVIOUS
  <2>1. UNCHANGED <<action, ram_areas, rsvd1, ram, disk, switch_buf, i, off,
                    waking_vector, clock, base, exposed>>
    BY DEF disk_switch_dump, read_dump_header
  <2>2. i = 1 /\ off = 0 /\ ram_areas \in Layouts
    BY DEF disk_switch_dump, read_dump_header, TInv, VarTypes, Cursors
  <2>3. err' \in BOOLEAN
    BY Zenon DEF disk_switch_dump, read_dump_header, Fail, TInv, VarTypes
  <2>4. \/ pc' = "cleanup" /\ header' = header
        \/ pc' = "switch_read" /\ header' = disk[0] /\ is_dump_header_valid(disk[0])
    BY DEF disk_switch_dump, read_dump_header, Fail
  <2>5. CASE pc' = "cleanup" /\ header' = header
    <3>1. VarTypes'
      BY <2>1, <2>3, <2>5 DEF TInv, VarTypes, CoreSteps
    <3>2. Cursors'
      BY <2>5 DEF Cursors, StoreSteps, SwitchSteps
    <3>3. HeadersPlaced'
      BY <2>1 DEF TInv, HeadersPlaced, HasHeader
    <3> QED
      BY <3>1, <3>2, <3>3 DEF TInv
  <2>6. CASE pc' = "switch_read" /\ header' = disk[0] /\ is_dump_header_valid(disk[0])
    <3>1. Matches(disk[0], Len(ram_areas)) /\ Placed(disk[0])
      BY <2>2, <2>6, LayoutTypes DEF TInv, is_dump_header_valid, Matches, HeadersPlaced, HasHeader
    <3>2. VarTypes'
      BY <2>1, <2>3, <2>6, <3>1 DEF TInv, VarTypes, CoreSteps, SwitchSteps, Matches
    <3>3. 1 \in 1 .. Len(ram_areas) /\ disk[0].areas[1].size \in Nat \ {0}
      <4>1. 1 \in 1 .. Len(ram_areas)
        BY <2>2, LayoutTypes
      <4>2. \A k \in 1 .. Len(ram_areas) : disk[0].areas[k].size \in Nat \ {0}
        BY <2>2, <3>1, MatchFacts
      <4> QED
        BY <4>1, <4>2
    <3>4. Cursors'
      BY <2>1, <2>2, <2>6, <3>1, <3>3 DEF Cursors, StoreSteps, SwitchSteps, Matches
    <3>5. HeadersPlaced'
      BY <2>1 DEF TInv, HeadersPlaced, HasHeader
    <3> QED
      BY <3>2, <3>4, <3>5 DEF TInv
  <2> QED
    BY <2>4, <2>5, <2>6
<1>10. TInv /\ switch_read => TInv'
  <2> SUFFICES ASSUME TInv, switch_read PROVE TInv'
    OBVIOUS
  <2> DEFINE r == SwitchReq
  <2>1. UNCHANGED <<action, ram_areas, rsvd1, ram, disk, header, i, off,
                    waking_vector, clock, base, exposed>>
    BY DEF switch_read
  <2>2. pc' \in {"switch_write", "cleanup"}
    BY DEF switch_read, Fail
  <2>3. err' \in BOOLEAN
    BY Zenon DEF switch_read, Fail, TInv, VarTypes
  <2>4. switch_buf' \in [0 .. (BufSectors - 1) -> Cell]
    <3>1. CASE UNCHANGED switch_buf
      BY <3>1 DEF TInv, VarTypes
    <3>2. CASE /\ InRange(r.sector, r.size)
               /\ switch_buf' = [k \in DOMAIN switch_buf |->
                                  IF k < r.size THEN disk[r.sector + k]
                                  ELSE switch_buf[k]]
      <4>1. r.sector \in Nat /\ r.size \in 1 .. BufSectors /\ r.sector + r.size <= DiskSize
        BY <3>2, SwitchReqFacts DEF switch_read, SwitchSteps, InRange
      <4> HIDE DEF r
      <4>2. \A k \in 0 .. (BufSectors - 1) : k < r.size => r.sector + k \in Sector
        BY <4>1, SizesArePositive, SMT DEF Sector
      <4>3. switch_buf \in [0 .. (BufSectors - 1) -> Cell] /\ disk \in [Sector -> Cell]
        BY DEF TInv, VarTypes
      <4> QED
        BY <3>2, <4>2, <4>3
    <3> QED
      BY <3>1, <3>2 DEF switch_read
  <2>5. VarTypes'
    BY <2>1, <2>2, <2>3, <2>4 DEF TInv, VarTypes, CoreSteps, SwitchSteps
  <2>6. Cursors'
    BY <2>1, <2>2 DEF TInv, Cursors, StoreSteps, SwitchSteps, Matches, switch_read
  <2>7. HeadersPlaced'
    BY <2>1 DEF TInv, HeadersPlaced, HasHeader
  <2> QED
    BY <2>5, <2>6, <2>7 DEF TInv
<1>11. TInv /\ switch_write => TInv'
  <2> SUFFICES ASSUME TInv, switch_write PROVE TInv'
    OBVIOUS
  <2> DEFINE r == SwitchReq
  <2>1. /\ r.sector \in Nat /\ r.sector >= 1 /\ r.size \in Nat
        /\ \A k \in 0 .. (r.size - 1) : r.data[k] \in Cell
    <3>1. pc \in SwitchSteps
      BY DEF switch_write, SwitchSteps
    <3> QED
      BY <3>1, SwitchReqFacts, SizesArePositive
  <2>2. WriteOk(r.sector, r.size, r.data) \/ disk' \in Partial(r.sector, r.size, r.data)
    BY DEF switch_write, WriteFails
  <2>3. disk' \in [Sector -> Cell] /\ disk'[0] = disk[0]
    <3>1. disk \in [Sector -> Cell]
      BY DEF TInv, VarTypes
    <3> HIDE DEF r
    <3> QED
      BY <2>1, <2>2, <3>1, DataWrite
  <2>4. UNCHANGED <<action, ram_areas, rsvd1, ram, switch_buf, header, i, off,
                    waking_vector, clock, base>>
    BY DEF switch_write
  <2>5. pc' \in {"switch_copy", "cleanup"}
    BY DEF switch_write, Fail
  <2>6. err' \in BOOLEAN /\ exposed' \in BOOLEAN
    <3>1. err \in BOOLEAN /\ exposed \in BOOLEAN
      BY DEF TInv, VarTypes
    <3>2. err' = err \/ err' = TRUE
      BY Zenon DEF switch_write, Fail
    <3>3. exposed' = (exposed \/ HasHeader(disk))
      BY Zenon DEF switch_write, Exposing
    <3> QED
      BY <3>1, <3>2, <3>3, Zenon
  <2>7. VarTypes'
    BY <2>3, <2>4, <2>5, <2>6 DEF TInv, VarTypes, CoreSteps, SwitchSteps
  <2>8. Cursors'
    BY <2>3, <2>4, <2>5 DEF TInv, Cursors, StoreSteps, SwitchSteps, Matches, switch_write
  <2>9. HeadersPlaced'
    BY <2>3 DEF TInv, HeadersPlaced, HasHeader
  <2> QED
    BY <2>7, <2>8, <2>9 DEF TInv
<1>12. TInv /\ switch_copy => TInv'
  <2> SUFFICES ASSUME TInv, switch_copy PROVE TInv'
    OBVIOUS
  <2>1. UNCHANGED <<action, ram_areas, rsvd1, disk, switch_buf, header,
                    waking_vector, err, clock, base, exposed>>
    BY DEF switch_copy
  <2>2. /\ Matches(header, Len(ram_areas)) /\ Placed(header) /\ disk[0] = header
        /\ i \in 1 .. Len(ram_areas) /\ off \in 0 .. (header.areas[i].size - 1)
        /\ Len(ram_areas) \in Nat \ {0} /\ Len(header.areas) = Len(ram_areas)
    BY LayoutTypes DEF TInv, VarTypes, Cursors, SwitchSteps, switch_copy, Matches
  <2>3. \A k \in 1 .. Len(ram_areas) : header.areas[k].size \in Nat \ {0}
    BY <2>2, MatchFacts DEF TInv, VarTypes
  <2>4. /\ i' \in 1 .. Len(ram_areas) /\ off' \in 0 .. (header.areas[i'].size - 1)
        /\ pc' \in {"switch_read", "switch_header"}
    <3>1. SwitchReq.size \in 1 .. BufSectors
      BY SwitchReqFacts DEF switch_copy, SwitchSteps
    <3>2. CASE MoreParts
      <4>1. off' = off + SwitchReq.size /\ i' = i /\ pc' = "switch_read"
        BY <3>2 DEF switch_copy
      <4>2. off + SwitchReq.size < header.areas[i].size
        BY <3>2 DEF MoreParts
      <4>3. off' \in 0 .. (header.areas[i].size - 1)
        BY <2>2, <2>3, <3>1, <4>1, <4>2, SizesArePositive
      <4> QED
        BY <2>2, <4>1, <4>3
    <3>3. CASE ~MoreParts
      <4>1. off' = 0 /\ pc' \in {"switch_read", "switch_header"}
        BY <3>3 DEF switch_copy
      <4>2. i' \in 1 .. Len(ram_areas)
        BY <2>2, <3>3 DEF switch_copy, MoreAreas
      <4>3. header.areas[i'].size \in Nat \ {0}
        BY <2>3, <4>2
      <4>4. 0 \in 0 .. (header.areas[i'].size - 1)
        BY <4>3
      <4> QED
        BY <4>1, <4>2, <4>4
    <3> QED
      BY <3>2, <3>3
  <2>5. VarTypes'
    <3>1. i' \in Nat \ {0} /\ off' \in Nat /\ pc' \in CoreSteps
      BY <2>2, <2>4 DEF CoreSteps, SwitchSteps
    <3> QED
      BY <2>1, <3>1, SwitchCopyRam DEF TInv, VarTypes
  <2>6. Cursors'
    BY <2>1, <2>2, <2>4 DEF Cursors, StoreSteps, SwitchSteps, Matches
  <2>7. HeadersPlaced'
    BY <2>1 DEF TInv, HeadersPlaced, HasHeader
  <2> QED
    BY <2>5, <2>6, <2>7 DEF TInv
<1>13. TInv /\ switch_header => TInv'
  <2> SUFFICES ASSUME TInv, switch_header PROVE TInv'
    OBVIOUS
  <2>1. header \in Header /\ Placed(header) /\ disk \in [Sector -> Cell]
    BY DEF TInv, VarTypes, Cursors, SwitchSteps, switch_header, Matches
  <2>2. SwappedHeader \in Header /\ Placed(SwappedHeader) /\ header.vec \in Vectors
    BY <2>1, SwappedFacts, HeaderTypes
  <2>3. /\ disk' = HeaderWritten(SwappedHeader) \/ disk' \in PartialHeader(SwappedHeader)
        /\ header' = SwappedHeader /\ waking_vector' = header.vec
        /\ pc' = "cleanup"
        /\ UNCHANGED <<action, ram_areas, rsvd1, ram, switch_buf, i, off, clock, base>>
    BY DEF switch_header, Fail
  <2>4. disk' \in [Sector -> Cell] /\ disk'[0] \in {disk[0], SwappedHeader, Blank}
    BY <2>1, <2>2, <2>3, HeaderWrite
  <2>5. err' \in BOOLEAN /\ exposed' \in BOOLEAN
    BY Zenon DEF switch_header, Fail, TInv, VarTypes
  <2>6. VarTypes'
    BY <2>2, <2>3, <2>4, <2>5 DEF TInv, VarTypes, CoreSteps
  <2>7. Cursors'
    BY <2>3 DEF Cursors, StoreSteps, SwitchSteps
  <2>8. HeadersPlaced'
    BY <2>2, <2>4, HeaderSector DEF TInv, HeadersPlaced, HasHeader
  <2> QED
    BY <2>6, <2>7, <2>8 DEF TInv
<1>14. TInv /\ acpi_return_kernel => TInv'
  <2> SUFFICES ASSUME TInv, acpi_return_kernel PROVE TInv'
    OBVIOUS
  <2>1. VarTypes'
    BY DEF TInv, VarTypes, acpi_return_kernel
  <2>2. Cursors'
    BY DEF Cursors, acpi_return_kernel, StoreSteps, SwitchSteps
  <2>3. HeadersPlaced'
    BY DEF TInv, HeadersPlaced, HasHeader, acpi_return_kernel
  <2> QED
    BY <2>1, <2>2, <2>3 DEF TInv
<1>15. TInv /\ PowerLoss => TInv'
  <2> SUFFICES ASSUME TInv, PowerLoss PROVE TInv'
    OBVIOUS
  <2>0. /\ disk' \in [Sector -> Cell]
        /\ exposed' \in BOOLEAN
        /\ \/ disk'[0] \in {disk[0], Blank}
           \/ disk'[0] \in {header, SwappedHeader} /\ Placed(disk'[0])
    <3>1. disk \in [Sector -> Cell] /\ exposed \in BOOLEAN
      BY DEF TInv, VarTypes
    <3>2. CASE /\ pc = "store_area"
               /\ disk' \in Partial(StoreReq.sector, StoreReq.size, StoreReq.data)
               /\ exposed' = Exposing
      <4> DEFINE r == StoreReq
      <4>1. /\ r.sector \in Nat /\ r.sector >= 1 /\ r.size \in Nat
            /\ \A k \in 0 .. (r.size - 1) : r.data[k] \in Cell
            /\ disk' \in Partial(r.sector, r.size, r.data)
        BY <3>2, StoreReqFacts
      <4>2. exposed' \in BOOLEAN
        BY <3>1, <3>2, Zenon DEF Exposing
      <4> HIDE DEF r
      <4>3. disk' \in [Sector -> Cell] /\ disk'[0] = disk[0]
        BY <3>1, <4>1, DataWrite
      <4> QED
        BY <4>2, <4>3
    <3>3. CASE /\ pc = "switch_write"
               /\ disk' \in Partial(SwitchReq.sector, SwitchReq.size, SwitchReq.data)
               /\ exposed' = Exposing
      <4> DEFINE r == SwitchReq
      <4>1. /\ r.sector \in Nat /\ r.sector >= 1 /\ r.size \in Nat
            /\ \A k \in 0 .. (r.size - 1) : r.data[k] \in Cell
            /\ disk' \in Partial(r.sector, r.size, r.data)
        <5>1. pc \in SwitchSteps
          BY <3>3 DEF SwitchSteps
        <5> QED
          BY <3>3, <5>1, SwitchReqFacts, SizesArePositive
      <4>2. exposed' \in BOOLEAN
        BY <3>1, <3>3, Zenon DEF Exposing
      <4> HIDE DEF r
      <4>3. disk' \in [Sector -> Cell] /\ disk'[0] = disk[0]
        BY <3>1, <4>1, DataWrite
      <4> QED
        BY <4>2, <4>3
    <3>4. CASE pc = "store_header" /\ disk' \in PartialHeader(header) /\ UNCHANGED exposed
      <4>1. header \in Header /\ Placed(header)
        BY <3>4 DEF TInv, Cursors, StoreSteps, Matches
      <4>2. disk' \in [Sector -> Cell] /\ disk'[0] \in {disk[0], header, Blank}
        BY <3>1, <3>4, <4>1, HeaderWrite
      <4> QED
        BY <3>1, <3>4, <4>1, <4>2
    <3>5. CASE pc = "switch_header" /\ disk' \in PartialHeader(SwappedHeader) /\ UNCHANGED exposed
      <4>1. header \in Header /\ Placed(header)
        BY <3>5 DEF TInv, Cursors, SwitchSteps, Matches
      <4>2. SwappedHeader \in Header /\ Placed(SwappedHeader)
        BY <4>1, SwappedFacts
      <4>3. disk' \in [Sector -> Cell] /\ disk'[0] \in {disk[0], SwappedHeader, Blank}
        BY <3>1, <3>5, <4>2, HeaderWrite
      <4> QED
        BY <3>1, <3>5, <4>2, <4>3
    <3>6. CASE UNCHANGED <<disk, exposed>>
      BY <3>1, <3>6
    <3> QED
      BY <3>2, <3>3, <3>4, <3>5, <3>6 DEF PowerLoss
  <2>1. /\ ColdBoot /\ disk' \in [Sector -> Cell] /\ exposed' \in BOOLEAN
        /\ \/ disk'[0] \in {disk[0], Blank}
           \/ disk'[0] \in {header, SwappedHeader} /\ Placed(disk'[0])
    BY <2>0 DEF PowerLoss
  <2>2. CASE disk'[0] \in {header, SwappedHeader} /\ Placed(disk'[0])
    BY <2>1, <2>2, BootT
  <2>3. CASE disk'[0] \in {disk[0], Blank}
    <3>1. HasHeader(disk)' => Placed(disk'[0])
      BY <2>3, HeaderSector DEF TInv, HeadersPlaced, HasHeader
    <3> QED
      BY <2>1, <2>3, <3>1, BootT
  <2> QED
    BY <2>1, <2>2, <2>3
<1>16. TInv /\ Reboot => TInv'
  BY BootT DEF Reboot, TInv, VarTypes, HeadersPlaced, HasHeader
<1>17. TInv /\ UNCHANGED vars => TInv'
  <2> SUFFICES ASSUME TInv, UNCHANGED vars PROVE TInv'
    OBVIOUS
  <2>1. VarTypes'
    BY DEF TInv, VarTypes, vars
  <2>2. Cursors'
    BY DEF TInv, Cursors, vars, StoreSteps, SwitchSteps, Matches
  <2>3. HeadersPlaced'
    BY DEF TInv, HeadersPlaced, HasHeader, vars
  <2> QED
    BY <2>1, <2>2, <2>3 DEF TInv
<1>18. TInv /\ [Next]_vars => TInv'
  BY <1>16, <1>17, <1>2, <1>3, <1>4, <1>5, <1>6, <1>7,
     <1>8, <1>9, <1>10, <1>11, <1>12, <1>13, <1>14, <1>15
  DEF Next, CoreStep
<1> QED
  BY <1>18, <1>1, PTL DEF Spec

(* Every variable of the core keeps its type, and the loops of             *)
(* disk_store_dump and switch_memory_area never leave the header.          *)
THEOREM TypeCorrect == Spec => []TypeOK
<1>1. TInv => TypeOK
  <2> SUFFICES ASSUME TInv PROVE CursorsInside
    BY DEF TInv, TypeOK
  <2>1. ram_areas \in Layouts
    BY DEF TInv, VarTypes
  <2>2. ASSUME pc \in TransferSteps
        PROVE  Matches(header, Len(ram_areas)) /\ Placed(header) /\ i \in 1 .. Len(ram_areas)
               /\ (off = 0 \/ off \in 0 .. (header.areas[i].size - 1))
    BY <2>2 DEF TInv, Cursors, TransferSteps, StoreSteps, SwitchSteps
  <2>3. ASSUME pc \in TransferSteps
        PROVE  /\ header \in Header /\ i \in DOMAIN header.areas
               /\ header.areas[i].size \in Nat \ {0}
    BY <2>1, <2>2, <2>3, MatchFacts
  <2> QED
    BY <2>2, <2>3, HeaderSector DEF CursorsInside
<1> QED
  BY <1>1, TypeInvariant, PTL

(* No step of the core writes memory the firmware did not report as RAM:   *)
(* only switch_copy writes memory, and is_dump_header_valid confines it.   *)
THEOREM RamAreasOnly == Spec => OnlyRamAreas
<1> DEFINE Confined == \A a \in Addr \ RamCells(ram_areas) : ram'[a] = ram[a]
<1>1. TInv /\ [Next]_vars => [pc # "os" /\ clock' = clock => Confined]_vars
  <2> SUFFICES ASSUME TInv, Next, pc # "os", clock' = clock PROVE Confined
    BY DEF vars
  <2>1. clock \in Nat
    BY SizesArePositive DEF TInv, VarTypes
  <2>2. CASE switch_copy
    BY <2>2, SwitchCopyRam
  <2>3. CASE UNCHANGED ram
    BY <2>3
  <2>4. ~ColdBoot /\ ~Suspend
    BY <2>1 DEF ColdBoot, Suspend
  <2> QED
    BY <2>2, <2>3, <2>4 DEF Next, CoreStep, Reboot, PowerLoss, set_core_action, core_main,
       fill_dump_header, store_area, store_header, does_disk_contain_dump,
       disk_switch_dump, read_dump_header, switch_read, switch_write, switch_header, acpi_return_kernel
<1> QED
  BY <1>1, TypeInvariant, PTL DEF Spec, OnlyRamAreas

-------------------------------------------------------------------------------
(* What core_main does with the images, provided a descriptor can hold the *)
(* length of every area (Small; the run dump_bigarea shows the code needs  *)
(* it).  CInv follows the two images of a store or a switch cell by cell:  *)
(* cell <<k, j>> is the j-th sector of area k, in the RAM and on the disk. *)

Small == \A l \in Layouts : \A k \in 1 .. Len(l) : l[k].size < LenLimit

RamAt(k, j)  == ram[header.areas[k].start + j]
DiskAt(k, j) == disk[header.areas[k].sector + j]

Inside(h, k) == h.areas[k].sector + h.areas[k].size <= DiskSize
HeadersInside == HasHeader(disk) => \A k \in 1 .. Len(disk[0].areas) : Inside(disk[0], k)

(* The error, the vectors and the action while the core runs.              *)
Looking == {"core_main", "fill_dump_header", "does_disk_contain_dump", "disk_switch_dump"}

Course ==
  /\ pc # "os" => base.ram.vec = rsvd1
  /\ pc \notin {"os", "cleanup"} => ~err /\ waking_vector = rsvd1
  /\ pc \in StoreSteps \cup {"fill_dump_header"} => action = "STORE"
  /\ pc \in SwitchSteps \cup {"does_disk_contain_dump", "disk_switch_dump"} =>
       action = "SWITCH"

(* Until something is written, the RAM and the dump are those on entry.    *)
Kept ==
  /\ pc \in Looking => RamIs(base.ram) /\ DumpImage(disk) = base.dump
  /\ pc \in StoreSteps =>
       RamIs(base.ram) /\ (~exposed => DumpImage(disk) = base.dump)
  /\ pc = "store_header" => exposed \/ ~HasHeader(disk)
  /\ pc \in SwitchSteps /\ ~exposed =>
       /\ pc \in {"switch_read", "switch_write"}
       /\ RamIs(base.ram) /\ DumpImage(disk) = base.dump

(* The first n areas of the suspended kernel are on the disk.              *)
Stored(n) ==
  \A k \in 1 .. n :
    /\ Inside(header, k)
    /\ \A j \in 0 .. (header.areas[k].size - 1) : DiskAt(k, j) = base.ram

Storing ==
  /\ pc = "store_area" => Stored(i - 1)
  /\ pc = "store_header" => Stored(Len(ram_areas))

(* How far a switch is: the cells that have their new content in the RAM,  *)
(* and those that have it on the disk.                                     *)
InRam(k, j)  == pc = "switch_header" \/ k < i \/ (k = i /\ j < off)
OnDisk(k, j) == InRam(k, j) \/ (pc = "switch_copy" /\ k = i /\ j < off + SwitchReq.size)

Traded(k, j) ==
  /\ OnDisk(k, j) => DiskAt(k, j) = base.ram
  /\ ~InRam(k, j) => RamAt(k, j) = base.ram
  /\ base.dump # NoImage =>
       /\ InRam(k, j) => RamAt(k, j) = base.dump
       /\ ~OnDisk(k, j) => DiskAt(k, j) = base.dump

Buffered ==
  pc \in {"switch_write", "switch_copy"} /\ base.dump # NoImage =>
    \A j \in 0 .. (SwitchReq.size - 1) : switch_buf[j] = base.dump

Switching ==
  pc \in SwitchSteps =>
    /\ \A k \in 1 .. Len(ram_areas) : \A j \in 0 .. (header.areas[k].size - 1) : Traded(k, j)
    /\ Buffered
    /\ base.dump # NoImage => header.vec = base.dump.vec

CInv ==
  /\ Course /\ Kept /\ Storing /\ Switching
  /\ HeadersInside /\ HeaderMeansDump
  /\ StoreDelivers /\ SwitchDelivers /\ CleanAbort

-------------------------------------------------------------------------------
(* Images, cell by cell. *)

(* The RAM is image v when its cells are.                                    *)
LEMMA RamByCells ==
  ASSUME ram_areas \in Layouts, NEW v
  PROVE  RamIs(v) <=> \A k \in 1 .. Len(ram_areas) : \A j \in 0 .. (ram_areas[k].size - 1) :
                        ram[ram_areas[k].start + j] = v
<1>1. ASSUME \A k \in 1 .. Len(ram_areas) : \A j \in 0 .. (ram_areas[k].size - 1) :
               ram[ram_areas[k].start + j] = v,
             NEW a \in RamCells(ram_areas)
      PROVE  ram[a] = v
  BY <1>1, LayoutCells
<1>2. ASSUME RamIs(v), NEW k \in 1 .. Len(ram_areas), NEW j \in 0 .. (ram_areas[k].size - 1)
      PROVE  ram[ram_areas[k].start + j] = v
  BY <1>2, LayoutCells DEF RamIs
<1> QED
  BY <1>1, <1>2 DEF RamIs

(* The dump under header h is image v when its cells are.                    *)
LEMMA DumpByCells ==
  ASSUME NEW h \in Header, NEW d, NEW v
  PROVE  DumpIs(d, h, v)
         <=> /\ v.vec = h.vec
             /\ \A k \in 1 .. Len(h.areas) : \A j \in 0 .. (h.areas[k].size - 1) :
                  d[h.areas[k].sector + j] = v
<1>1. ASSUME NEW k \in 1 .. Len(h.areas)
      PROVE  (\A s \in Span(h.areas[k].sector, h.areas[k].size) : d[s] = v)
             <=> \A j \in 0 .. (h.areas[k].size - 1) : d[h.areas[k].sector + j] = v
  <2> DEFINE lo == h.areas[k].sector
             n  == h.areas[k].size
  <2>1. lo \in Nat /\ n \in Nat
    BY HeaderTypes
  <2> HIDE DEF lo, n
  <2>2. \A s \in Span(lo, n) : s - lo \in 0 .. (n - 1) /\ lo + (s - lo) = s
    BY <2>1, SMT DEF Span
  <2>3. \A j \in 0 .. (n - 1) : lo + j \in Span(lo, n)
    BY <2>1, SMT DEF Span
  <2>4. (\A s \in Span(lo, n) : d[s] = v) <=> \A j \in 0 .. (n - 1) : d[lo + j] = v
    <3>1. ASSUME \A j \in 0 .. (n - 1) : d[lo + j] = v, NEW s \in Span(lo, n)
          PROVE  d[s] = v
      <4>1. d[lo + (s - lo)] = v
        BY <2>2, <3>1
      <4> QED
        BY <2>2, <4>1
    <3> QED
      BY <2>3, <3>1
  <2> QED
    BY <2>4 DEF lo, n
<1>2. DOMAIN h.areas = 1 .. Len(h.areas)
  BY HeaderTypes
<1> QED
  BY <1>1, <1>2 DEF DumpIs

(* DumpImage finds the one image a header can stand for.                     *)
LEMMA DumpFound ==
  ASSUME NEW d
  PROVE  /\ ~HasHeader(d) => DumpImage(d) = NoImage
         /\ DumpImage(d) # NoImage =>
              HasHeader(d) /\ DumpImage(d) \in Image /\ DumpIs(d, d[0], DumpImage(d))
         /\ \A img \in Image :
              /\ HasHeader(d) /\ DumpIs(d, d[0], img)
              /\ \E k \in 1 .. Len(d[0].areas) : d[0].areas[k].size > 0
              => DumpImage(d) = img
<1>1. ASSUME HasHeader(d), NEW img \in Image, DumpIs(d, d[0], img)
      PROVE  /\ DumpImage(d) \in Image /\ DumpIs(d, d[0], DumpImage(d))
             /\ (\E k \in 1 .. Len(d[0].areas) : d[0].areas[k].size > 0) => DumpImage(d) = img
  <2>1. DumpImage(d) = CHOOSE m \in Image : DumpIs(d, d[0], m)
    BY <1>1 DEF DumpImage
  <2>2. DumpImage(d) \in Image /\ DumpIs(d, d[0], DumpImage(d))
    BY <1>1, <2>1
  <2>3. ASSUME NEW k \in 1 .. Len(d[0].areas), d[0].areas[k].size > 0
        PROVE  DumpImage(d) = img
    <3>1. d[0] \in Header /\ d[0].areas[k].size \in Nat
      BY <1>1, HeaderTypes DEF HasHeader
    <3>2. 0 \in 0 .. (d[0].areas[k].size - 1)
      BY <2>3, <3>1
    <3>3. /\ d[d[0].areas[k].sector + 0] = img
          /\ d[d[0].areas[k].sector + 0] = DumpImage(d)
      BY <1>1, <2>2, <3>1, <3>2, DumpByCells
    <3> QED
      BY <3>3
  <2> QED
    BY <2>2, <2>3
<1>2. DumpImage(d) = NoImage \/ (HasHeader(d) /\ \E img \in Image : DumpIs(d, d[0], img))
  BY DEF DumpImage
<1> QED
  BY <1>1, <1>2 DEF DumpImage

-------------------------------------------------------------------------------
(* Writing. *)

(* A write that leaves the header sector alone exposes the header there is.  *)
LEMMA DataHolds ==
  ASSUME HeadersInside, disk'[0] = disk[0], exposed' = Exposing
  PROVE  /\ HeadersInside' /\ HeaderMeansDump'
         /\ HasHeader(disk) => exposed'
         /\ ~exposed' => ~exposed /\ ~HasHeader(disk') /\ DumpImage(disk') = DumpImage(disk)
<1>1. HasHeader(disk)' <=> HasHeader(disk)
  BY DEF HasHeader
<1>2. exposed' <=> exposed \/ HasHeader(disk)
  BY Zenon DEF Exposing
<1>3. HeadersInside'
  BY <1>1 DEF HeadersInside, Inside
<1>4. HeaderMeansDump'
  BY <1>1, <1>2 DEF HeaderMeansDump
<1> QED
  BY <1>1, <1>2, <1>3, <1>4, DumpFound

(* A header write, whole or not, keeps what headers mean, if the areas of    *)
(* the new header hold an image.                                             *)
LEMMA HeaderHolds ==
  ASSUME disk \in [Sector -> Cell], HeadersInside, HeaderMeansDump,
         NEW h \in Header, Placed(h), \A k \in 1 .. Len(h.areas) : Inside(h, k),
         NEW img \in Image, DumpIs(disk, h, img),
         \/ disk' = HeaderWritten(h) /\ exposed' = FALSE
         \/ disk' \in PartialHeader(h) /\ exposed' = exposed
  PROVE  /\ HeadersInside' /\ HeaderMeansDump'
         /\ disk' = HeaderWritten(h) =>
              HasHeader(disk') /\ disk'[0] = h /\ DumpIs(disk', disk'[0], img)
         /\ disk' = disk \/ disk' = HeaderWritten(h) \/ ~HasHeader(disk')
<1>1. 0 \in Sector /\ Blank \notin Header
  BY HeaderSector
<1>2. ASSUME disk' = HeaderWritten(h)
      PROVE  HasHeader(disk') /\ disk'[0] = h /\ DumpIs(disk', disk'[0], img)
  <2>1. disk'[0] = h /\ \A s \in Sector : s # 0 => disk'[s] = disk[s]
    BY <1>1, <1>2 DEF HeaderWritten
  <2>2. ASSUME NEW k \in 1 .. Len(h.areas), NEW j \in 0 .. (h.areas[k].size - 1)
        PROVE  h.areas[k].sector + j \in Sector /\ h.areas[k].sector + j # 0
    <3> DEFINE first == h.areas[k].sector
               size == h.areas[k].size
    <3>1. first \in Nat /\ size \in Nat /\ first >= 1 /\ first + size <= DiskSize
      BY HeaderTypes, HeaderSector DEF Placed, Inside
    <3>2. j \in 0 .. (size - 1) /\ DiskSize \in Nat
      BY <2>2, SizesArePositive
    <3> HIDE DEF first, size
    <3>3. first + j \in 0 .. (DiskSize - 1) /\ first + j # 0
      BY <3>1, <3>2
    <3> QED
      BY <3>3 DEF first, Sector
  <2>3. DumpIs(disk', h, img)
    BY <2>1, <2>2, DumpByCells
  <2> QED
    BY <2>1, <2>3 DEF HasHeader
<1>3. ASSUME disk' # disk, disk' # HeaderWritten(h) PROVE ~HasHeader(disk')
  <2>1. disk' = HeaderWritten(Blank)
    BY <1>3 DEF PartialHeader
  <2> QED
    BY <1>1, <2>1 DEF HasHeader, HeaderWritten
<1>4. HeadersInside'
  BY <1>2, <1>3 DEF HeadersInside, Inside, HasHeader
<1>5. HeaderMeansDump'
  BY <1>2, <1>3 DEF HeaderMeansDump, HasHeader, DumpIs
<1> QED
  BY <1>2, <1>3, <1>4, <1>5

(* The areas of the header at hand, and the image of the suspended kernel.   *)
LEMMA AreaFacts ==
  ASSUME TInv, Matches(header, Len(ram_areas)), Placed(header)
  PROVE  /\ header \in Header /\ Len(header.areas) = Len(ram_areas)
         /\ Len(ram_areas) \in Nat \ {0} /\ base.ram \in Image
         /\ base.dump \in Image \cup {NoImage}
         /\ \A k \in 1 .. Len(ram_areas) :
              /\ header.areas[k].start \in Nat /\ header.areas[k].size \in Nat \ {0}
              /\ header.areas[k].sector \in Nat /\ header.areas[k].sector >= 1
              /\ Small => header.areas[k].size < LenLimit
         /\ \A v : RamIs(v) <=>
              \A k \in 1 .. Len(ram_areas) : \A j \in 0 .. (header.areas[k].size - 1) :
                RamAt(k, j) = v
         /\ \A k, m \in 1 .. Len(ram_areas) :
              k < m => header.areas[k].sector + header.areas[k].size <= header.areas[m].sector
         /\ \A k, m \in 1 .. Len(ram_areas) : k # m =>
              \/ header.areas[k].start + header.areas[k].size <= header.areas[m].start
              \/ header.areas[m].start + header.areas[m].size <= header.areas[k].start
<1>1. /\ ram_areas \in Layouts /\ base.ram \in Image /\ base.dump \in Image \cup {NoImage}
  BY DEF TInv, VarTypes
<1>2. /\ header \in Header /\ Len(header.areas) = Len(ram_areas)
      /\ \A k \in 1 .. Len(ram_areas) : /\ header.areas[k].start = ram_areas[k].start
                                        /\ header.areas[k].size = ram_areas[k].size
  BY DEF Matches
<1>3. Len(ram_areas) \in Nat \ {0} /\ DOMAIN ram_areas = 1 .. Len(ram_areas)
  BY <1>1, LayoutTypes
<1>4. \A k \in 1 .. Len(ram_areas) :
        /\ header.areas[k].start \in Nat /\ header.areas[k].size \in Nat \ {0}
        /\ header.areas[k].sector \in Nat /\ header.areas[k].sector >= 1
        /\ Small => header.areas[k].size < LenLimit
  BY <1>1, <1>2, MatchFacts DEF Small
<1>5. ASSUME NEW v
      PROVE  RamIs(v) <=>
               \A k \in 1 .. Len(ram_areas) : \A j \in 0 .. (header.areas[k].size - 1) :
                 RamAt(k, j) = v
  <2>1. RamIs(v) <=> \A k \in 1 .. Len(ram_areas) :
                       \A j \in 0 .. (ram_areas[k].size - 1) : ram[ram_areas[k].start + j] = v
    BY <1>1, RamByCells
  <2>2. ASSUME NEW k \in 1 .. Len(ram_areas)
        PROVE  (\A j \in 0 .. (ram_areas[k].size - 1) : ram[ram_areas[k].start + j] = v)
               <=> \A j \in 0 .. (header.areas[k].size - 1) : RamAt(k, j) = v
    BY <1>2 DEF RamAt
  <2> QED
    BY <2>1, <2>2
<1>6. \A k, m \in 1 .. Len(ram_areas) :
        k < m => header.areas[k].sector + header.areas[k].size <= header.areas[m].sector
  BY <1>2 DEF Placed
<1>7. \A k, m \in 1 .. Len(ram_areas) : k # m =>
        \/ header.areas[k].start + header.areas[k].size <= header.areas[m].start
        \/ header.areas[m].start + header.areas[m].size <= header.areas[k].start
  BY <1>1, <1>2, <1>3, LayoutsAreDisjoint DEF LayoutsAssumption
<1> QED
  BY <1>1, <1>2, <1>3, <1>4, <1>5, <1>6, <1>7

-------------------------------------------------------------------------------
(* Every step keeps the contents. *)

(* The part of area i at hand, and the cells of a switch it touches.         *)
LEMMA PartCells ==
  ASSUME TInv, pc \in SwitchSteps
  PROVE  /\ SwitchReq.size \in Nat \ {0} /\ SwitchReq.size <= BufSectors
         /\ i \in 1 .. Len(ram_areas) /\ off \in Nat
         /\ off + SwitchReq.size <= header.areas[i].size
         /\ \A k \in 1 .. Len(ram_areas) : \A j \in 0 .. (header.areas[k].size - 1) :
              /\ k = i /\ j \in off .. (off + SwitchReq.size - 1) =>
                   /\ j - off \in 0 .. (SwitchReq.size - 1)
                   /\ header.areas[k].sector + j = SwitchReq.sector + (j - off)
                   /\ header.areas[k].start + j = SwitchReq.addr + (j - off)
                   /\ header.areas[k].start + j \in Span(SwitchReq.addr, SwitchReq.size)
              /\ ~(k = i /\ j \in off .. (off + SwitchReq.size - 1)) =>
                   /\ header.areas[k].sector + j \notin Span(SwitchReq.sector, SwitchReq.size)
                   /\ header.areas[k].start + j \notin Span(SwitchReq.addr, SwitchReq.size)
<1> DEFINE n  == SwitchReq.size
           lo == SwitchReq.sector
           ad == SwitchReq.addr
<1>1. /\ Matches(header, Len(ram_areas)) /\ Placed(header) /\ i \in 1 .. Len(ram_areas)
      /\ off \in Nat
  BY DEF TInv, VarTypes, Cursors
<1>2. /\ n \in Nat \ {0} /\ n <= BufSectors /\ off + n <= header.areas[i].size
      /\ lo = header.areas[i].sector + off /\ ad = header.areas[i].start + off
  BY SwitchReqFacts, SizesArePositive
<1> HIDE DEF n, lo, ad
<1>3. ASSUME NEW k \in 1 .. Len(ram_areas), NEW j \in 0 .. (header.areas[k].size - 1)
      PROVE  /\ k = i /\ j \in off .. (off + n - 1) =>
                  /\ j - off \in 0 .. (n - 1)
                  /\ header.areas[k].sector + j = lo + (j - off)
                  /\ header.areas[k].start + j = ad + (j - off)
                  /\ header.areas[k].start + j \in Span(ad, n)
             /\ ~(k = i /\ j \in off .. (off + n - 1)) =>
                  /\ header.areas[k].sector + j \notin Span(lo, n)
                  /\ header.areas[k].start + j \notin Span(ad, n)
  <2> DEFINE ks == header.areas[k].sector
             ka == header.areas[k].start
             kn == header.areas[k].size
             is == header.areas[i].sector
             ia == header.areas[i].start
             in == header.areas[i].size
  <2>1. /\ ks \in Nat /\ ka \in Nat /\ kn \in Nat /\ is \in Nat /\ ia \in Nat /\ in \in Nat
    BY <1>1, AreaFacts
  <2>2. /\ k < i => ks + kn <= is
        /\ i < k => is + in <= ks
        /\ k # i => ka + kn <= ia \/ ia + in <= ka
        /\ k = i => ks = is /\ ka = ia /\ kn = in
    BY <1>1, AreaFacts
  <2>3. lo = is + off /\ ad = ia + off /\ off + n <= in /\ j \in 0 .. (kn - 1)
    BY <1>2
  <2> HIDE DEF ks, ka, kn, is, ia, in
  <2>4. /\ k = i /\ j \in off .. (off + n - 1) =>
             /\ j - off \in 0 .. (n - 1)
             /\ ks + j = lo + (j - off) /\ ka + j = ad + (j - off)
             /\ ka + j \in Span(ad, n)
        /\ ~(k = i /\ j \in off .. (off + n - 1)) =>
             ks + j \notin Span(lo, n) /\ ka + j \notin Span(ad, n)
    <3>1. CASE k = i
      <4>1. /\ ks = is /\ ka = ia /\ j \in Nat /\ off \in Nat /\ n \in Nat
            /\ is \in Nat /\ ia \in Nat /\ lo = is + off /\ ad = ia + off
        BY <1>1, <1>2, <2>1, <2>2, <2>3, <3>1
      <4>2. j \in off .. (off + n - 1) =>
              /\ j - off \in 0 .. (n - 1)
              /\ ks + j = lo + (j - off) /\ ka + j = ad + (j - off)
              /\ ka + j \in Span(ad, n)
        BY <4>1, SMT DEF Span
      <4>3. j \notin off .. (off + n - 1) => ks + j \notin Span(lo, n) /\ ka + j \notin Span(ad, n)
        BY <4>1, SMT DEF Span
      <4> QED
        BY <3>1, <4>2, <4>3
    <3>2. CASE k < i
      BY <1>1, <1>2, <2>1, <2>2, <2>3, <3>2, SMTT(30) DEF Span
    <3>3. CASE i < k
      BY <1>1, <1>2, <2>1, <2>2, <2>3, <3>3, SMTT(30) DEF Span
    <3> QED
      BY <1>1, <3>1, <3>2, <3>3
  <2> QED
    BY <2>4 DEF ks, ka, kn, is, ia, in
<1> QED
  BY <1>1, <1>2, <1>3 DEF n, lo, ad

(* Every step of the core, a kernel or a fault keeps the contents.           *)
LEMMA ContentsInvariant == Small => (Spec => []CInv)
<1> SUFFICES ASSUME Small PROVE Spec => []CInv
  OBVIOUS
<1>1. Small /\ TInv /\ CInv /\ store_area => CInv'
  <2> SUFFICES ASSUME Small, TInv, CInv, store_area PROVE CInv'
    OBVIOUS
  <2> DEFINE r == StoreReq
             lo == header.areas[i].sector
             n  == header.areas[i].size
  <2>1. /\ pc = "store_area" /\ i \in 1 .. Len(ram_areas)
        /\ Matches(header, Len(ram_areas)) /\ Placed(header)
        /\ UNCHANGED <<action, ram_areas, rsvd1, ram, header, waking_vector, base>>
        /\ exposed' = Exposing
    BY DEF TInv, Cursors, StoreSteps, store_area
  <2>2. /\ base.ram.vec = rsvd1 /\ ~err /\ waking_vector = rsvd1 /\ action = "STORE"
        /\ RamIs(base.ram) /\ (~exposed => DumpImage(disk) = base.dump)
        /\ Stored(i - 1) /\ HeadersInside
    BY <2>1 DEF CInv, Course, Kept, Storing, StoreSteps
  <2>3. /\ lo \in Nat /\ lo >= 1 /\ n \in Nat \ {0}
        /\ r.sector = lo /\ r.size = n
        /\ \A k \in 0 .. (n - 1) : r.data[k] = base.ram /\ r.data[k] \in Cell
    <3>1. n \in Nat \ {0} /\ n < LenLimit /\ lo \in Nat /\ lo >= 1
      BY <2>1, AreaFacts
    <3>2. /\ r.sector = lo /\ r.size = n
          /\ \A k \in 0 .. (n - 1) :
               r.data[k] = ram[header.areas[i].start + k] /\ r.data[k] \in Cell
      BY <2>1, <3>1, StoreReqFacts, LenFits
    <3>3. \A k \in 0 .. (n - 1) : ram[header.areas[i].start + k] = base.ram
      BY <2>1, <2>2, AreaFacts DEF RamAt
    <3> QED
      BY <3>1, <3>2, <3>3
  <2>4. /\ disk' \in [Sector -> Cell] /\ disk'[0] = disk[0]
        /\ \A s \in Sector : s \notin Span(lo, n) => disk'[s] = disk[s]
        /\ WriteOk(lo, n, r.data) => \A k \in 0 .. (n - 1) : disk'[lo + k] = base.ram
    <3>1. WriteOk(lo, n, r.data) \/ disk' \in Partial(lo, n, r.data)
      BY <2>3 DEF store_area, WriteFails
    <3>2. disk \in [Sector -> Cell]
      BY DEF TInv, VarTypes
    <3> HIDE DEF lo, n, r
    <3>3. /\ disk' \in [Sector -> Cell] /\ disk'[0] = disk[0]
          /\ \A s \in Sector : s \notin Span(lo, n) => disk'[s] = disk[s]
          /\ WriteOk(lo, n, r.data) => \A k \in 0 .. (n - 1) : disk'[lo + k] = r.data[k]
      <4>1. n \in Nat /\ \A k \in 0 .. (n - 1) : r.data[k] \in Cell
        BY <2>3
      <4> QED
        BY <2>3, <3>1, <3>2, <4>1, DataWrite
    <3> QED
      BY <2>3, <3>3
  <2>5. /\ HeadersInside' /\ HeaderMeansDump'
        /\ HasHeader(disk) => exposed'
        /\ ~exposed' => ~exposed /\ ~HasHeader(disk') /\ DumpImage(disk') = DumpImage(disk)
    BY <2>1, <2>2, <2>4, DataHolds
  <2>6. RamIs(base.ram)'
    BY <2>1, <2>2 DEF RamIs
  <2>7. CASE pc' = "cleanup"
    <3>1. err'
      BY <2>1, <2>7 DEF store_area, Fail
    <3>2. StoreDelivers' /\ SwitchDelivers' /\ CleanAbort'
      BY <2>1, <2>2, <2>5, <2>6, <3>1 DEF StoreDelivers, SwitchDelivers, CleanAbort
    <3> QED
      BY <2>1, <2>2, <2>5, <2>7, <3>2
      DEF CInv, Course, Kept, Looking, StoreSteps, SwitchSteps, Storing, Switching
  <2>8. CASE pc' # "cleanup"
    <3>1. /\ WriteOk(lo, n, r.data) /\ err' = err
          /\ \/ pc' = "store_area" /\ i' = i + 1
             \/ pc' = "store_header" /\ i = Len(ram_areas)
      BY <2>1, <2>3, <2>8, AreaFacts DEF store_area, Fail, MoreAreas
    <3>2. lo + n <= DiskSize
      BY <3>1 DEF WriteOk, InRange
    <3>3. ASSUME NEW k \in 1 .. i
          PROVE  /\ Inside(header, k)
                 /\ \A j \in 0 .. (header.areas[k].size - 1) :
                      disk'[header.areas[k].sector + j] = base.ram
      <4>1. CASE k = i
        BY <2>4, <3>1, <3>2, <4>1 DEF Inside
      <4>2. CASE k # i
        <5>1. k \in 1 .. (i - 1) /\ k < i
          BY <2>1, <4>2
        <5>2. /\ Inside(header, k)
              /\ \A j \in 0 .. (header.areas[k].size - 1) :
                   disk[header.areas[k].sector + j] = base.ram
          BY <2>2, <5>1 DEF Stored, DiskAt
        <5>3. /\ header.areas[k].sector \in Nat /\ header.areas[k].size \in Nat
              /\ header.areas[k].sector + header.areas[k].size <= lo
          BY <2>1, <5>1, AreaFacts
        <5>4. ASSUME NEW j \in 0 .. (header.areas[k].size - 1)
              PROVE  header.areas[k].sector + j \in Sector \ Span(lo, n)
          <6> DEFINE a == header.areas[k].sector
                     b == header.areas[k].size
          <6>1. a \in Nat /\ b \in Nat /\ a + b <= lo /\ a + b <= DiskSize
            BY <5>2, <5>3 DEF Inside
          <6> HIDE DEF a, b, lo, n
          <6>2. \A x \in 0 .. (b - 1) : a + x \in Sector \ Span(lo, n)
            BY <2>3, <6>1, SizesArePositive, SMT DEF Sector, Span
          <6> QED
            BY <6>2 DEF a, b
        <5> QED
          BY <2>4, <5>2, <5>4
      <4> QED
        BY <4>1, <4>2
    <3>4. Storing'
      <4>1. CASE pc' = "store_area"
        <5>1. i' - 1 = i
          BY <2>1, <3>1, <4>1
        <5> QED
          BY <2>1, <3>3, <4>1, <5>1 DEF Storing, Stored, Inside, DiskAt
      <4>2. CASE pc' = "store_header"
        BY <2>1, <3>1, <3>3, <4>2 DEF Storing, Stored, Inside, DiskAt
      <4> QED
        BY <3>1, <4>1, <4>2
    <3> QED
      BY <2>1, <2>2, <2>5, <2>6, <3>1, <3>4
      DEF CInv, Course, Kept, Looking, StoreSteps, SwitchSteps, Switching,
          StoreDelivers, SwitchDelivers, CleanAbort
  <2> QED
    BY <2>7, <2>8
<1>2. TInv /\ CInv /\ store_header => CInv'
  <2> SUFFICES ASSUME TInv, CInv, store_header PROVE CInv'
    OBVIOUS
  <2>1. /\ pc = "store_header" /\ Matches(header, Len(ram_areas)) /\ Placed(header)
        /\ header.vec = rsvd1 /\ disk \in [Sector -> Cell]
        /\ pc' = "cleanup"
        /\ UNCHANGED <<action, ram_areas, rsvd1, ram, header, waking_vector, base>>
    BY DEF TInv, VarTypes, Cursors, StoreSteps, store_header, Fail
  <2>2. /\ base.ram.vec = rsvd1 /\ ~err /\ waking_vector = rsvd1 /\ action = "STORE"
        /\ RamIs(base.ram) /\ (~exposed => DumpImage(disk) = base.dump)
        /\ exposed \/ ~HasHeader(disk)
        /\ Stored(Len(ram_areas)) /\ HeadersInside /\ HeaderMeansDump
    BY <2>1 DEF CInv, Course, Kept, Storing, StoreSteps
  <2>3. /\ header \in Header /\ base.ram \in Image
        /\ Len(ram_areas) \in Nat \ {0} /\ Len(header.areas) = Len(ram_areas)
        /\ \A k \in 1 .. Len(header.areas) : Inside(header, k) /\ header.areas[k].size > 0
    BY <2>1, <2>2, AreaFacts DEF Stored
  <2>4. DumpIs(disk, header, base.ram)
    BY <2>1, <2>2, <2>3, DumpByCells DEF Stored, DiskAt
  <2>5. \/ disk' = HeaderWritten(header) /\ exposed' = FALSE /\ err' = err
        \/ disk' \in PartialHeader(header) /\ exposed' = exposed /\ err' = TRUE
    BY DEF store_header, Fail
  <2>6. /\ HeadersInside' /\ HeaderMeansDump'
        /\ disk' = HeaderWritten(header) =>
             HasHeader(disk') /\ disk'[0] = header /\ DumpIs(disk', disk'[0], base.ram)
        /\ disk' = disk \/ disk' = HeaderWritten(header) \/ ~HasHeader(disk')
    BY <2>1, <2>2, <2>3, <2>4, <2>5, HeaderHolds
  <2>7. disk' = HeaderWritten(header) => DumpImage(disk') = base.ram
    BY <2>3, <2>6, DumpFound
  <2>8. RamIs(base.ram)'
    BY <2>1, <2>2 DEF RamIs
  <2>9. StoreDelivers'
    BY <2>1, <2>2, <2>5, <2>6, <2>8 DEF StoreDelivers
  <2>10. CleanAbort'
    <3> SUFFICES ASSUME err', ~exposed'
                 PROVE  DumpImage(disk') = base.dump \/ DumpImage(disk') = base.ram
      BY <2>1, <2>2, <2>8 DEF CleanAbort
    <3>1. ~exposed
      BY <2>2, <2>5
    <3> QED
      BY <2>2, <2>6, <2>7, <3>1, DumpFound
  <2>11. SwitchDelivers'
    BY <2>1, <2>2 DEF SwitchDelivers
  <2> QED
    BY <2>1, <2>2, <2>6, <2>9, <2>10, <2>11
    DEF CInv, Course, Kept, Looking, StoreSteps, SwitchSteps, Storing, Switching
<1>3. TInv /\ CInv /\ disk_switch_dump => CInv'
  <2> SUFFICES ASSUME TInv, CInv, disk_switch_dump PROVE CInv'
    OBVIOUS
  <2>1. /\ pc = "disk_switch_dump" /\ i = 1 /\ off = 0 /\ ram_areas \in Layouts
        /\ base.ram \in Image
        /\ UNCHANGED <<action, ram_areas, rsvd1, ram, disk, switch_buf, i, off,
                       waking_vector, base, exposed>>
    BY DEF disk_switch_dump, read_dump_header, TInv, VarTypes, Cursors
  <2>2. /\ base.ram.vec = rsvd1 /\ ~err /\ waking_vector = rsvd1 /\ action = "SWITCH"
        /\ RamIs(base.ram) /\ DumpImage(disk) = base.dump
        /\ HeadersInside /\ HeaderMeansDump
    BY <2>1 DEF CInv, Course, Kept, Looking, SwitchSteps
  <2>3. HeadersInside' /\ HeaderMeansDump'
    BY <2>1, <2>2 DEF HeadersInside, HeaderMeansDump, HasHeader, Inside, DumpIs
  <2>4. RamIs(base.ram)' /\ DumpImage(disk)' = base.dump'
    BY <2>1, <2>2 DEF RamIs
  <2>5. CASE pc' = "cleanup" /\ err'
    BY <2>1, <2>2, <2>3, <2>4, <2>5
    DEF CInv, Course, Kept, Looking, StoreSteps, SwitchSteps, Storing, Switching,
        StoreDelivers, SwitchDelivers, CleanAbort
  <2>6. CASE /\ pc' = "switch_read" /\ header' = disk[0] /\ err' = err
             /\ is_dump_header_valid(disk[0])
    <3> DEFINE h == disk[0]
    <3>1. /\ h \in Header /\ HasHeader(disk) /\ Len(h.areas) = Len(ram_areas)
          /\ \A k \in 1 .. Len(ram_areas) : /\ h.areas[k].start = ram_areas[k].start
                                            /\ h.areas[k].size = ram_areas[k].size
      BY <2>1, <2>6, LayoutTypes DEF is_dump_header_valid, HasHeader
    <3>2. base.dump # NoImage =>
            /\ base.dump.vec = h.vec
            /\ \A k \in 1 .. Len(ram_areas) : \A j \in 0 .. (h.areas[k].size - 1) :
                 disk[h.areas[k].sector + j] = base.dump
      BY <2>2, <3>1, DumpFound, DumpByCells
    <3>3. ASSUME NEW k \in 1 .. Len(ram_areas), NEW j \in 0 .. (h.areas[k].size - 1)
          PROVE  Traded(k, j)'
      <4>1. ram[h.areas[k].start + j] = base.ram
        BY <2>1, <2>2, <3>1, RamByCells
      <4>2. k \in Nat /\ j \in Nat
        BY <2>1, <3>1, LayoutTypes
      <4>3. ~InRam(k, j)' /\ ~OnDisk(k, j)'
        BY <2>1, <2>6, <4>2 DEF InRam, OnDisk
      <4>4. RamAt(k, j)' = base.ram
        BY <2>1, <2>6, <4>1 DEF RamAt
      <4>5. base.dump # NoImage => DiskAt(k, j)' = base.dump
        BY <2>1, <2>6, <3>2 DEF DiskAt
      <4> QED
        BY <2>1, <4>3, <4>4, <4>5 DEF Traded
    <3>4. Switching'
      BY <2>1, <2>6, <3>2, <3>3 DEF Switching, Buffered
    <3> QED
      BY <2>1, <2>2, <2>3, <2>4, <2>6, <3>4
      DEF CInv, Course, Kept, Looking, StoreSteps, SwitchSteps, Storing,
          StoreDelivers, SwitchDelivers, CleanAbort
  <2> QED
    BY <2>5, <2>6 DEF disk_switch_dump, read_dump_header, Fail
<1>4. TInv /\ CInv /\ switch_read => CInv'
  <2> SUFFICES ASSUME TInv, CInv, switch_read PROVE CInv'
    OBVIOUS
  <2> DEFINE r == SwitchReq
  <2>1. /\ pc = "switch_read"
        /\ UNCHANGED <<action, ram_areas, rsvd1, ram, disk, header, i, off,
                       waking_vector, base, exposed>>
        /\ switch_buf \in [0 .. (BufSectors - 1) -> Cell]
    BY DEF switch_read, TInv, VarTypes
  <2>2. /\ base.ram.vec = rsvd1 /\ ~err /\ waking_vector = rsvd1 /\ action = "SWITCH"
        /\ ~exposed => RamIs(base.ram) /\ DumpImage(disk) = base.dump
        /\ base.dump # NoImage => header.vec = base.dump.vec
        /\ \A k \in 1 .. Len(ram_areas) : \A j \in 0 .. (header.areas[k].size - 1) : Traded(k, j)
        /\ HeadersInside /\ HeaderMeansDump
    BY <2>1 DEF CInv, Course, Kept, Switching, SwitchSteps
  <2>3. HeadersInside' /\ HeaderMeansDump'
    BY <2>1, <2>2 DEF HeadersInside, HeaderMeansDump, HasHeader, Inside, DumpIs
  <2>4. ~exposed => RamIs(base.ram)' /\ DumpImage(disk)' = base.dump'
    BY <2>1, <2>2 DEF RamIs
  <2>5. CASE pc' = "cleanup"
    <3>1. err'
      BY <2>1, <2>5 DEF switch_read, Fail
    <3>2. StoreDelivers' /\ SwitchDelivers' /\ CleanAbort'
      BY <2>1, <2>2, <2>4, <3>1 DEF StoreDelivers, SwitchDelivers, CleanAbort
    <3> QED
      BY <2>1, <2>2, <2>3, <2>5, <3>2
      DEF CInv, Course, Kept, Looking, StoreSteps, SwitchSteps, Storing, Switching
  <2>6. CASE pc' # "cleanup"
    <3>1. /\ pc' = "switch_write" /\ err' = err
          /\ switch_buf' = [k \in DOMAIN switch_buf |->
                              IF k < r.size THEN disk[r.sector + k] ELSE switch_buf[k]]
      BY <2>6 DEF switch_read, Fail
    <3>2. SwitchReq' = SwitchReq
      BY <2>1 DEF SwitchReq
    <3>3. Buffered'
      <4> SUFFICES ASSUME base.dump # NoImage, NEW j \in 0 .. (r.size - 1)
                   PROVE  switch_buf'[j] = base.dump
        BY <2>1, <3>2 DEF Buffered
      <4>1. /\ r.size \in Nat \ {0} /\ r.size <= BufSectors /\ i \in 1 .. Len(ram_areas)
            /\ off \in Nat /\ off + r.size <= header.areas[i].size
            /\ header.areas[i].size \in Nat
            /\ r.sector = header.areas[i].sector + off /\ header.areas[i].sector \in Nat
        BY <2>1, PartCells, SwitchReqFacts, AreaFacts DEF SwitchSteps, TInv, Cursors
      <4> HIDE DEF r
      <4>2. j \in 0 .. (BufSectors - 1) /\ j < r.size
        BY <4>1, SizesArePositive
      <4>3. off + j \in 0 .. (header.areas[i].size - 1) /\ ~(off + j < off)
        BY <4>1, SMTT(30)
      <4>4. ~OnDisk(i, off + j)
        BY <2>1, <4>1, <4>3 DEF OnDisk, InRam
      <4>5. disk[header.areas[i].sector + (off + j)] = base.dump
        BY <2>2, <4>1, <4>3, <4>4 DEF Traded, DiskAt
      <4>6. header.areas[i].sector + (off + j) = r.sector + j
        BY <4>1
      <4> QED
        BY <2>1, <3>1, <4>2, <4>5, <4>6
    <3>4. ASSUME NEW k \in 1 .. Len(ram_areas), NEW j \in 0 .. (header.areas[k].size - 1)
          PROVE  Traded(k, j)'
      <4>1. Traded(k, j) /\ (InRam(k, j)' <=> InRam(k, j)) /\ (OnDisk(k, j)' <=> OnDisk(k, j))
        BY <2>1, <2>2, <3>1 DEF InRam, OnDisk
      <4> QED
        BY <2>1, <4>1 DEF Traded, DiskAt, RamAt
    <3>5. Switching'
      BY <2>1, <2>2, <3>3, <3>4 DEF Switching
    <3> QED
      BY <2>1, <2>2, <2>3, <2>4, <3>1, <3>5
      DEF CInv, Course, Kept, Looking, StoreSteps, SwitchSteps, Storing,
          StoreDelivers, SwitchDelivers, CleanAbort
  <2> QED
    BY <2>5, <2>6
<1>5. TInv /\ CInv /\ switch_write => CInv'
  <2> SUFFICES ASSUME TInv, CInv, switch_write PROVE CInv'
    OBVIOUS
  <2> DEFINE lo == SwitchReq.sector
             n  == SwitchReq.size
             src == SwitchReq.data
  <2>1. /\ pc = "switch_write" /\ pc \in SwitchSteps
        /\ UNCHANGED <<action, ram_areas, rsvd1, ram, switch_buf, header, i, off,
                       waking_vector, base>>
        /\ exposed' = Exposing
        /\ Matches(header, Len(ram_areas)) /\ Placed(header) /\ disk[0] = header
        /\ disk \in [Sector -> Cell]
    BY DEF switch_write, TInv, VarTypes, Cursors, SwitchSteps
  <2>2. /\ base.ram.vec = rsvd1 /\ ~err /\ waking_vector = rsvd1 /\ action = "SWITCH"
        /\ base.dump # NoImage => header.vec = base.dump.vec
        /\ \A k \in 1 .. Len(ram_areas) : \A j \in 0 .. (header.areas[k].size - 1) : Traded(k, j)
        /\ HeadersInside /\ Buffered
    BY <2>1 DEF CInv, Course, Kept, Switching, SwitchSteps
  <2>3. HasHeader(disk) /\ header \in Header /\ Len(header.areas) = Len(ram_areas)
    BY <2>1, AreaFacts DEF HasHeader
  <2>4. /\ lo \in Nat /\ lo >= 1 /\ n \in Nat
        /\ \A k \in 0 .. (n - 1) : src[k] = ram[SwitchReq.addr + k] /\ src[k] \in Cell
    BY <2>1, SwitchReqFacts, PartCells
  <2>5. /\ disk' \in [Sector -> Cell] /\ disk'[0] = disk[0]
        /\ \A s \in Sector : s \notin Span(lo, n) => disk'[s] = disk[s]
        /\ WriteOk(lo, n, src) => \A k \in 0 .. (n - 1) : disk'[lo + k] = src[k]
    <3>1. WriteOk(lo, n, src) \/ disk' \in Partial(lo, n, src)
      BY DEF switch_write, WriteFails
    <3>2. \A k \in 0 .. (n - 1) : src[k] \in Cell
      BY <2>4
    <3> HIDE DEF lo, n, src
    <3> QED
      BY <2>1, <2>4, <3>1, <3>2, DataWrite, SMTT(30)
  <2>6. HeadersInside' /\ HeaderMeansDump' /\ exposed'
    BY <2>1, <2>2, <2>3, <2>5, DataHolds
  <2>7. CASE pc' = "cleanup"
    <3>1. err'
      BY <2>1, <2>7 DEF switch_write, Fail
    <3>2. StoreDelivers' /\ SwitchDelivers' /\ CleanAbort'
      BY <2>1, <2>2, <2>6, <3>1 DEF StoreDelivers, SwitchDelivers, CleanAbort
    <3> QED
      BY <2>1, <2>2, <2>6, <2>7, <3>2
      DEF CInv, Course, Kept, Looking, StoreSteps, SwitchSteps, Storing, Switching
  <2>8. CASE pc' # "cleanup"
    <3>1. pc' = "switch_copy" /\ err' = err /\ WriteOk(lo, n, src)
      BY <2>8 DEF switch_write, Fail
    <3>2. SwitchReq'.size = SwitchReq.size
      BY <2>1 DEF SwitchReq
    <3>3. Buffered'
      BY <2>1, <2>2, <3>2 DEF Buffered
    <3>4. ASSUME NEW k \in 1 .. Len(ram_areas), NEW j \in 0 .. (header.areas[k].size - 1)
          PROVE  Traded(k, j)'
      <4> DEFINE Part == k = i /\ j \in off .. (off + n - 1)
                 s == header.areas[k].sector + j
      <4>1. Traded(k, j) /\ (InRam(k, j)' <=> InRam(k, j)) /\ (OnDisk(k, j) <=> InRam(k, j))
        BY <2>1, <2>2, <3>1 DEF InRam, OnDisk
      <4>2. OnDisk(k, j)' <=> OnDisk(k, j) \/ Part
        <5>1. off \in Nat /\ n \in Nat
          BY <2>1, PartCells
        <5>2. OnDisk(k, j)' <=> InRam(k, j) \/ (k = i /\ j < off + n)
          BY <2>1, <3>1, <3>2, <4>1 DEF OnDisk
        <5>3. k = i /\ j < off => InRam(k, j)
          BY DEF InRam
        <5> HIDE DEF n
        <5>4. j < off + n <=> (j < off \/ j \in off .. (off + n - 1))
          BY <5>1
        <5>5. k = i => (Part <=> j \in off .. (off + n - 1))
          OBVIOUS
        <5> QED
          BY <4>1, <5>2, <5>3, <5>4, <5>5
      <4>3. RamAt(k, j)' = RamAt(k, j) /\ base' = base
        BY <2>1 DEF RamAt
      <4>4. CASE Part
        <5>1. j - off \in 0 .. (n - 1) /\ s = lo + (j - off)
              /\ header.areas[k].start + j = SwitchReq.addr + (j - off)
          BY <2>1, <4>4, PartCells
        <5>2. ~InRam(k, j)
          <6>1. off \in Nat /\ i \in Nat
            BY <2>1, PartCells
          <6> QED
            BY <2>1, <4>4, <6>1 DEF InRam
        <5>3. disk'[s] = RamAt(k, j)
          BY <2>4, <2>5, <3>1, <5>1 DEF RamAt
        <5>4. DiskAt(k, j)' = base.ram
          BY <2>1, <4>1, <5>2, <5>3 DEF Traded, DiskAt
        <5> QED
          BY <4>1, <4>2, <4>3, <4>4, <5>2, <5>4 DEF Traded
      <4>5. CASE ~Part
        <5>1. s \notin Span(lo, n)
          BY <2>1, <4>5, PartCells
        <5>2. s \in Sector
          <6>1. /\ header.areas[k].sector \in Nat /\ header.areas[k].size \in Nat
                /\ header.areas[k].sector + header.areas[k].size <= DiskSize
            BY <2>1, <2>2, <2>3, AreaFacts DEF HeadersInside, Inside
          <6> QED
            BY <6>1, SizesArePositive, SMTT(30) DEF Sector
        <5>3. DiskAt(k, j)' = DiskAt(k, j)
          BY <2>1, <2>5, <5>1, <5>2 DEF DiskAt
        <5> QED
          BY <4>1, <4>2, <4>3, <4>5, <5>3 DEF Traded
      <4> QED
        BY <4>4, <4>5
    <3>5. Switching'
      BY <2>1, <2>2, <3>3, <3>4 DEF Switching
    <3> QED
      BY <2>1, <2>2, <2>6, <3>1, <3>5
      DEF CInv, Course, Kept, Looking, StoreSteps, SwitchSteps, Storing,
          StoreDelivers, SwitchDelivers, CleanAbort
  <2> QED
    BY <2>7, <2>8
<1>6. TInv /\ CInv /\ switch_copy => CInv'
  <2> SUFFICES ASSUME TInv, CInv, switch_copy PROVE CInv'
    OBVIOUS
  <2> DEFINE n  == SwitchReq.size
             ad == SwitchReq.addr
  <2>1. /\ pc = "switch_copy" /\ pc \in SwitchSteps
        /\ UNCHANGED <<action, ram_areas, rsvd1, disk, switch_buf, header,
                       waking_vector, err, base, exposed>>
        /\ ram' = [a \in Addr |-> IF a \in Span(ad, n) THEN switch_buf[a - ad] ELSE ram[a]]
        /\ Matches(header, Len(ram_areas)) /\ Placed(header) /\ ram_areas \in Layouts
    BY DEF switch_copy, TInv, VarTypes, Cursors, SwitchSteps
  <2>2. /\ base.ram.vec = rsvd1 /\ ~err /\ waking_vector = rsvd1 /\ action = "SWITCH"
        /\ exposed
        /\ base.dump # NoImage => header.vec = base.dump.vec
        /\ \A k \in 1 .. Len(ram_areas) : \A j \in 0 .. (header.areas[k].size - 1) : Traded(k, j)
        /\ HeadersInside /\ HeaderMeansDump
        /\ base.dump # NoImage => \A j \in 0 .. (n - 1) : switch_buf[j] = base.dump
    BY <2>1 DEF CInv, Course, Kept, Switching, SwitchSteps, Buffered
  <2>3. HeadersInside' /\ HeaderMeansDump'
    BY <2>1, <2>2 DEF HeadersInside, HeaderMeansDump, HasHeader, Inside, DumpIs
  <2>4. /\ n \in Nat \ {0} /\ i \in 1 .. Len(ram_areas) /\ off \in Nat
        /\ off + n <= header.areas[i].size /\ Len(header.areas) = Len(ram_areas)
        /\ Len(ram_areas) \in Nat
        /\ \A k \in 1 .. Len(ram_areas) : header.areas[k].size \in Nat
        /\ ad \in Nat
    BY <2>1, PartCells, AreaFacts, SwitchReqFacts
  <2>5. \/ /\ pc' = "switch_read" /\ i' = i /\ off' = off + n
        \/ /\ pc' = "switch_read" /\ i' = i + 1 /\ off' = 0 /\ off + n = header.areas[i].size
        \/ /\ pc' = "switch_header" /\ i = Len(ram_areas) /\ off + n = header.areas[i].size
    <3>1. CASE MoreParts
      BY <3>1 DEF switch_copy
    <3>2. CASE ~MoreParts
      <4>1. off + n = header.areas[i].size
        BY <2>4, <3>2, SMTT(30) DEF MoreParts
      <4>2. \/ pc' = "switch_read" /\ i' = i + 1 /\ off' = 0
            \/ pc' = "switch_header" /\ ~(i < Len(ram_areas))
        BY <2>4, <3>2 DEF switch_copy, MoreAreas
      <4> QED
        BY <2>4, <4>1, <4>2
    <3> QED
      BY <3>1, <3>2
  <2>6. ASSUME NEW k \in 1 .. Len(ram_areas), NEW j \in 0 .. (header.areas[k].size - 1)
        PROVE  Traded(k, j)'
    <3> DEFINE Part == k = i /\ j \in off .. (off + n - 1)
               a == header.areas[k].start + j
    <3>1. Traded(k, j) /\ k \in Nat /\ j \in Nat
      BY <2>2, <2>4
    <3>2. (OnDisk(k, j) <=> InRam(k, j) \/ Part) /\ (Part => ~InRam(k, j))
      <4>1. InRam(k, j) <=> k < i \/ (k = i /\ j < off)
        BY <2>1 DEF InRam
      <4>2. OnDisk(k, j) <=> InRam(k, j) \/ (k = i /\ j < off + n)
        BY <2>1 DEF OnDisk
      <4> HIDE DEF n
      <4>3. Part <=> k = i /\ ~(j < off) /\ j < off + n
        BY <2>4, <3>1
      <4> QED
        BY <2>4, <3>1, <4>1, <4>2, <4>3
    <3>3. (InRam(k, j)' <=> OnDisk(k, j)) /\ (OnDisk(k, j)' <=> OnDisk(k, j))
      <4>1. OnDisk(k, j) <=> k < i \/ (k = i /\ j < off + n)
        <5>1. OnDisk(k, j) <=> k < i \/ (k = i /\ j < off) \/ (k = i /\ j < off + n)
          BY <2>1 DEF InRam, OnDisk
        <5> HIDE DEF n
        <5> QED
          BY <2>4, <3>1, <5>1
      <4>2. OnDisk(k, j)' <=> InRam(k, j)'
        BY <2>5 DEF OnDisk
      <4>3. InRam(k, j)' <=> pc' = "switch_header" \/ k < i' \/ (k = i' /\ j < off')
        BY DEF InRam
      <4>4. k = i => j < header.areas[i].size
        BY <2>4, <3>1
      <4> HIDE DEF n
      <4>5. InRam(k, j)' <=> k < i \/ (k = i /\ j < off + n)
        <5>1. CASE pc' = "switch_read" /\ i' = i /\ off' = off + n
          BY <4>3, <5>1
        <5>2. CASE pc' = "switch_read" /\ i' = i + 1 /\ off' = 0 /\ off + n = header.areas[i].size
          BY <2>4, <3>1, <4>3, <4>4, <5>2
        <5>3. CASE pc' = "switch_header" /\ i = Len(ram_areas) /\ off + n = header.areas[i].size
          BY <2>4, <3>1, <4>3, <4>4, <5>3
        <5> QED
          BY <2>5, <5>1, <5>2, <5>3 DEF n
      <4> QED
        BY <4>1, <4>2, <4>5
    <3>4. a \in Addr /\ DiskAt(k, j)' = DiskAt(k, j) /\ base' = base
      BY <2>1, MatchFacts DEF DiskAt
    <3>5. CASE Part
      <4>1. j - off \in 0 .. (n - 1) /\ a = ad + (j - off) /\ a \in Span(ad, n)
        BY <2>1, <3>5, PartCells
      <4>2. RamAt(k, j)' = switch_buf[j - off]
        <5>1. a - ad = j - off
          BY <2>4, <3>1, <4>1
        <5> QED
          BY <2>1, <3>4, <4>1, <5>1 DEF RamAt
      <4>3. base.dump # NoImage => RamAt(k, j)' = base.dump
        BY <2>2, <4>1, <4>2
      <4> QED
        BY <3>1, <3>2, <3>3, <3>4, <3>5, <4>3 DEF Traded
    <3>6. CASE ~Part
      <4>1. a \notin Span(ad, n)
        BY <2>1, <3>6, PartCells
      <4>2. RamAt(k, j)' = RamAt(k, j)
        BY <2>1, <3>4, <4>1 DEF RamAt
      <4> QED
        BY <3>1, <3>2, <3>3, <3>4, <3>6, <4>2 DEF Traded
    <3> QED
      BY <3>5, <3>6
  <2>7. Switching'
    BY <2>1, <2>2, <2>5, <2>6 DEF Switching, Buffered
  <2> QED
    BY <2>1, <2>2, <2>3, <2>5, <2>7
    DEF CInv, Course, Kept, Looking, StoreSteps, SwitchSteps, Storing,
        StoreDelivers, SwitchDelivers, CleanAbort
<1>7. TInv /\ CInv /\ switch_header => CInv'
  <2> SUFFICES ASSUME TInv, CInv, switch_header PROVE CInv'
    OBVIOUS
  <2> DEFINE h == SwappedHeader
  <2>1. /\ pc = "switch_header" /\ Matches(header, Len(ram_areas)) /\ Placed(header)
        /\ disk[0] = header /\ disk \in [Sector -> Cell]
        /\ pc' = "cleanup" /\ waking_vector' = header.vec
        /\ UNCHANGED <<action, ram_areas, rsvd1, ram, base>>
    BY DEF TInv, VarTypes, Cursors, SwitchSteps, switch_header, Fail
  <2>2. /\ base.ram.vec = rsvd1 /\ ~err /\ action = "SWITCH" /\ exposed
        /\ HeadersInside /\ HeaderMeansDump
        /\ base.dump # NoImage => header.vec = base.dump.vec
        /\ \A k \in 1 .. Len(ram_areas) : \A j \in 0 .. (header.areas[k].size - 1) :
             /\ DiskAt(k, j) = base.ram
             /\ base.dump # NoImage => RamAt(k, j) = base.dump
    BY <2>1 DEF CInv, Course, Kept, Switching, SwitchSteps, Traded, InRam, OnDisk
  <2>3. /\ header \in Header /\ base.ram \in Image
        /\ Len(ram_areas) \in Nat \ {0} /\ Len(header.areas) = Len(ram_areas)
        /\ \A k \in 1 .. Len(header.areas) : header.areas[k].size > 0
        /\ base.dump # NoImage => RamIs(base.dump)
    BY <2>1, <2>2, AreaFacts
  <2>4. /\ h \in Header /\ Placed(h) /\ h.areas = header.areas /\ h.vec = rsvd1
        /\ \A k \in 1 .. Len(h.areas) : Inside(h, k) /\ h.areas[k].size > 0
    BY <2>1, <2>2, <2>3, SwappedFacts DEF HeadersInside, HasHeader, Inside
  <2>5. /\ \/ disk' = HeaderWritten(h) /\ exposed' = FALSE /\ err' = err
           \/ disk' \in PartialHeader(h) /\ exposed' = exposed /\ err' = TRUE
    BY DEF switch_header, Fail
  <2> HIDE DEF h
  <2>6. DumpIs(disk, h, base.ram)
    BY <2>2, <2>3, <2>4, DumpByCells DEF DiskAt
  <2>7. /\ HeadersInside' /\ HeaderMeansDump'
        /\ disk' = HeaderWritten(h) =>
             HasHeader(disk') /\ disk'[0] = h /\ DumpIs(disk', disk'[0], base.ram)
    BY <2>1, <2>2, <2>3, <2>4, <2>5, <2>6, HeaderHolds
  <2>8. disk' = HeaderWritten(h) => DumpImage(disk') = base.ram
    BY <2>3, <2>4, <2>7, DumpFound
  <2>9. base.dump # NoImage => RamIs(base.dump)'
    BY <2>1, <2>3 DEF RamIs
  <2>10. SwitchDelivers'
    BY <2>1, <2>2, <2>5, <2>8, <2>9 DEF SwitchDelivers
  <2>11. StoreDelivers' /\ CleanAbort'
    <3>1. ~err' \/ exposed'
      BY <2>2, <2>5, Zenon
    <3>2. action' # "STORE"
      BY <2>1, <2>2
    <3> QED
      BY <3>1, <3>2, Zenon DEF StoreDelivers, CleanAbort
  <2> QED
    BY <2>1, <2>2, <2>7, <2>10, <2>11
    DEF CInv, Course, Kept, Looking, StoreSteps, SwitchSteps, Storing, Switching
<1>8. TInv /\ CInv /\ PowerLoss => CInv'
  <2> SUFFICES ASSUME TInv, CInv, PowerLoss PROVE CInv'
    OBVIOUS
  <2>1. /\ disk \in [Sector -> Cell] /\ HeadersInside /\ HeaderMeansDump /\ pc' = "os"
        /\ base.ram \in Image
    BY DEF TInv, VarTypes, CInv, PowerLoss, ColdBoot
  <2>2. CASE pc = "store_area" \/ pc = "switch_write"
    <3>1. exposed' = Exposing /\ disk'[0] = disk[0]
      <4>1. CASE pc = "store_area"
        <5> DEFINE r == StoreReq
        <5>1. /\ r.sector \in Nat /\ r.sector >= 1 /\ r.size \in Nat
              /\ \A k \in 0 .. (r.size - 1) : r.data[k] \in Cell
              /\ disk' \in Partial(r.sector, r.size, r.data) /\ exposed' = Exposing
          BY <4>1, StoreReqFacts DEF PowerLoss
        <5> HIDE DEF r
        <5> QED
          BY <2>1, <5>1, DataWrite
      <4>2. CASE pc = "switch_write"
        <5> DEFINE r == SwitchReq
        <5>1. /\ r.sector \in Nat /\ r.sector >= 1 /\ r.size \in Nat
              /\ \A k \in 0 .. (r.size - 1) : r.data[k] \in Cell
              /\ disk' \in Partial(r.sector, r.size, r.data) /\ exposed' = Exposing
          BY <4>2, SwitchReqFacts, PartCells DEF PowerLoss, SwitchSteps
        <5> HIDE DEF r
        <5> QED
          BY <2>1, <5>1, DataWrite
      <4> QED
        BY <2>2, <4>1, <4>2
    <3>2. HeadersInside' /\ HeaderMeansDump'
      BY <2>1, <3>1, DataHolds
    <3> QED
      BY <2>1, <3>2
      DEF CInv, Course, Kept, Looking, StoreSteps, SwitchSteps, Storing, Switching,
          StoreDelivers, SwitchDelivers, CleanAbort
  <2>3. CASE pc = "store_header" \/ pc = "switch_header"
    <3> DEFINE h == IF pc = "store_header" THEN header ELSE SwappedHeader
    <3>1. /\ Matches(header, Len(ram_areas)) /\ Placed(header) /\ base.ram.vec = rsvd1
          /\ pc = "store_header" => header.vec = rsvd1 /\ Stored(Len(ram_areas))
          /\ pc = "switch_header" => disk[0] = header /\ HasHeader(disk)
      BY <2>3 DEF TInv, CInv, Cursors, Course, Storing, StoreSteps, SwitchSteps, Matches, HasHeader
    <3>2. /\ header \in Header /\ Len(header.areas) = Len(ram_areas)
      BY <3>1, AreaFacts
    <3>3. /\ h \in Header /\ Placed(h) /\ h.areas = header.areas /\ h.vec = rsvd1
      BY <2>3, <3>1, <3>2, SwappedFacts
    <3>4. \A k \in 1 .. Len(ram_areas) :
            /\ Inside(header, k)
            /\ \A j \in 0 .. (header.areas[k].size - 1) : DiskAt(k, j) = base.ram
      <4>1. CASE pc = "store_header"
        BY <3>1, <4>1 DEF Stored
      <4>2. CASE pc = "switch_header"
        BY <2>1, <3>1, <3>2, <4>2 DEF CInv, Switching, SwitchSteps, Traded, OnDisk, InRam,
           HeadersInside
      <4> QED
        BY <2>3, <4>1, <4>2
    <3>5. disk' \in PartialHeader(h) /\ exposed' = exposed
      BY <2>3 DEF PowerLoss
    <3> HIDE DEF h
    <3>6. DumpIs(disk, h, base.ram) /\ \A k \in 1 .. Len(h.areas) : Inside(h, k)
      BY <3>1, <3>2, <3>3, <3>4, DumpByCells DEF DiskAt, Inside
    <3>7. HeadersInside' /\ HeaderMeansDump'
      BY <2>1, <3>3, <3>5, <3>6, HeaderHolds
    <3> QED
      BY <2>1, <3>7
      DEF CInv, Course, Kept, Looking, StoreSteps, SwitchSteps, Storing, Switching,
          StoreDelivers, SwitchDelivers, CleanAbort
  <2>4. CASE pc \notin {"store_area", "switch_write", "store_header", "switch_header"}
    <3>1. disk' = disk /\ exposed' = exposed
      BY <2>4 DEF PowerLoss
    <3>2. HeadersInside' /\ HeaderMeansDump'
      BY <2>1, <3>1 DEF HeadersInside, HeaderMeansDump, HasHeader, Inside, DumpIs
    <3> QED
      BY <2>1, <3>2
      DEF CInv, Course, Kept, Looking, StoreSteps, SwitchSteps, Storing, Switching,
          StoreDelivers, SwitchDelivers, CleanAbort
  <2> QED
    BY <2>2, <2>3, <2>4
<1> USE DEF CInv, Course, Kept, Looking, StoreSteps, SwitchSteps, Storing, Switching
<1>9. Init => CInv
  <2> SUFFICES ASSUME Init PROVE CInv
    OBVIOUS
  <2>1. ~HasHeader(disk) /\ pc = "os"
    BY HeaderSector DEF Init, HasHeader
  <2> QED
    BY <2>1 DEF HeadersInside, HeaderMeansDump, StoreDelivers, SwitchDelivers, CleanAbort
<1>10. CInv /\ UNCHANGED <<disk, exposed>> => HeadersInside' /\ HeaderMeansDump'
  BY DEF HeadersInside, HeaderMeansDump, HasHeader, Inside, DumpIs
<1>11. ASSUME CInv, pc' = "os", UNCHANGED <<disk, exposed>> PROVE CInv'
  BY <1>10, <1>11 DEF StoreDelivers, SwitchDelivers, CleanAbort
<1>12. CInv /\ (\/ Reboot \/ acpi_return_kernel
               \/ \E a \in {"STORE", "SWITCH"} : set_core_action(a)) => CInv'
  BY <1>11 DEF Reboot, ColdBoot, acpi_return_kernel, set_core_action
<1>13. TInv /\ CInv /\ Suspend => CInv'
  <2> SUFFICES ASSUME TInv, CInv, Suspend PROVE CInv'
    OBVIOUS
  <2> DEFINE img == [vec |-> waking_vector, at |-> clock + 1]
  <2>1. /\ ram' = [a \in Addr |-> img] /\ base' = [ram |-> img, dump |-> DumpImage(disk)]
        /\ img.vec = waking_vector
        /\ pc' = "core_main" /\ ~err' /\ rsvd1' = waking_vector
        /\ UNCHANGED <<ram_areas, disk, waking_vector, exposed>>
    BY DEF Suspend
  <2> HIDE DEF img
  <2>2. RamIs(base.ram)'
    BY <2>1, LayoutCells DEF RamIs, TInv, VarTypes
  <2>3. DumpImage(disk)' = base.dump'
    BY <2>1
  <2> QED
    BY <1>10, <2>1, <2>2, <2>3 DEF StoreDelivers, SwitchDelivers, CleanAbort
<1>14. CInv /\ (core_main \/ fill_dump_header \/ does_disk_contain_dump) => CInv'
  <2> SUFFICES ASSUME CInv, core_main \/ fill_dump_header \/ does_disk_contain_dump
               PROVE  CInv'
    OBVIOUS
  <2>1. /\ pc \in {"core_main", "fill_dump_header", "does_disk_contain_dump"}
        /\ UNCHANGED <<action, ram_areas, rsvd1, ram, disk, base, exposed>>
        /\ waking_vector' = rsvd1
        /\ \/ pc' = "cleanup" /\ err'
           \/ pc' \in {"fill_dump_header", "store_area"} /\ action = "STORE" /\ err' = err
           \/ pc' \in {"does_disk_contain_dump", "disk_switch_dump"} /\ action = "SWITCH"
                /\ err' = err
        /\ pc' = "store_area" => i' = 1
    BY DEF core_main, fill_dump_header, does_disk_contain_dump, read_dump_header, Fail
  <2>2. RamIs(base.ram)' /\ DumpImage(disk)' = base.dump'
    BY <2>1 DEF RamIs
  <2>3. HeadersInside' /\ HeaderMeansDump'
    BY <1>10, <2>1
  <2>4. pc' = "store_area" => Stored(i - 1)'
    BY <2>1 DEF Stored
  <2> QED
    BY <2>1, <2>2, <2>3, <2>4 DEF StoreDelivers, SwitchDelivers, CleanAbort
<1>15. CInv /\ UNCHANGED vars => CInv'
  <2> SUFFICES ASSUME CInv, UNCHANGED vars PROVE CInv'
    OBVIOUS
  <2>1. /\ HeadersInside' /\ HeaderMeansDump'
        /\ StoreDelivers' /\ SwitchDelivers' /\ CleanAbort'
    BY DEF vars, HeadersInside, Inside, HeaderMeansDump, HasHeader, DumpIs, StoreDelivers,
       SwitchDelivers, CleanAbort, RamIs
  <2>2. Course' /\ Kept' /\ Storing'
    BY DEF vars, RamIs, HasHeader, Stored, Inside, DiskAt
  <2>3. Switching'
    BY DEF vars, Traded, InRam, OnDisk, RamAt, DiskAt, Buffered, SwitchReq
  <2> QED
    BY <2>1, <2>2, <2>3
<1>16. TInv /\ CInv /\ [Next]_vars => CInv'
  BY <1>12, <1>13, <1>14, <1>15, <1>1, <1>2, <1>3, <1>4, <1>5, <1>6,
     <1>7, <1>8
  DEF Next, CoreStep
<1> HIDE DEF CInv, Course, Kept, Looking, StoreSteps, SwitchSteps, Storing, Switching
<1> QED
  BY <1>9, <1>16, TypeInvariant, PTL DEF Spec

-------------------------------------------------------------------------------
(* What a reader should know. *)

(* "The disk contains a dump only if a valid header exists": unless a       *)
(* transfer over an older dump was cut short, the header disk_store_dump    *)
(* and disk_switch_dump leave stands for one image, whatever request fails. *)
THEOREM HeadersMeanDumps == Small => (Spec => []HeaderMeansDump)
<1>1. CInv => HeaderMeansDump
  BY DEF CInv
<1> QED
  BY <1>1, ContentsInvariant, PTL

(* disk_store_dump leaves the suspended kernel whole whatever fails, and    *)
(* core_main is in error unless the whole image is on the disk.             *)
THEOREM StoresDeliver == Small => (Spec => []StoreDelivers)
<1>1. CInv => StoreDelivers
  BY DEF CInv
<1> QED
  BY <1>1, ContentsInvariant, PTL

(* disk_switch_dump succeeds only when the image of the suspended kernel    *)
(* and the one of the dump, with their vectors, have traded places.         *)
THEOREM SwitchesDeliver == Small => (Spec => []SwitchDelivers)
<1>1. CInv => SwitchDelivers
  BY DEF CInv
<1> QED
  BY <1>1, ContentsInvariant, PTL

(* core_main in error before a dump was written over has done no harm.      *)
THEOREM AbortsAreClean == Small => (Spec => []CleanAbort)
<1>1. CInv => CleanAbort
  BY DEF CInv
<1> QED
  BY <1>1, ContentsInvariant, PTL

(* No step of switch_memory_area loses a sector of either image: the        *)
(* buffer holds the part that is on neither side.                           *)
THEOREM NothingGetsLost == Small => (Spec => []NothingLost)
<1>1. TInv /\ CInv => NothingLost
  <2> SUFFICES ASSUME TInv, CInv, pc \in SwitchSteps, base.dump # NoImage,
                      NEW k \in DOMAIN header.areas,
                      NEW j \in 0 .. (header.areas[k].size - 1)
               PROVE  LET area == header.areas[k]
                          buffered == IF k = i /\ pc \in {"switch_write", "switch_copy"}
                                         /\ j \in Span(off, SwitchReq.size)
                                      THEN {switch_buf[j - off]} ELSE {}
                      IN  {base.ram, base.dump} \subseteq
                            {ram[area.start + j], disk[area.sector + j]} \cup buffered
    BY DEF NothingLost
  <2>1. k \in 1 .. Len(ram_areas)
    BY AreaFacts, HeaderTypes DEF TInv, Cursors
  <2>2. Traded(k, j) /\ Buffered
    BY <2>1 DEF CInv, Switching
  <2>3. CASE InRam(k, j) \/ ~OnDisk(k, j)
    <3>1. {base.ram, base.dump} \subseteq {RamAt(k, j), DiskAt(k, j)}
      BY <2>2, <2>3 DEF Traded, OnDisk
    <3> QED
      BY <3>1 DEF RamAt, DiskAt
  <2>4. CASE ~InRam(k, j) /\ OnDisk(k, j)
    <3>1. pc = "switch_copy" /\ k = i /\ j < off + SwitchReq.size /\ ~(j < off)
      BY <2>4 DEF OnDisk, InRam
    <3>2. off \in Nat /\ SwitchReq.size \in Nat /\ j \in Nat
      BY <2>1, <3>1, PartCells
    <3> DEFINE n == SwitchReq.size
    <3> HIDE DEF n
    <3>3. j \in Span(off, n) /\ j - off \in 0 .. (n - 1)
      BY <3>1, <3>2 DEF n, Span
    <3>4. switch_buf[j - off] = base.dump /\ RamAt(k, j) = base.ram
      BY <2>2, <2>4, <3>1, <3>3 DEF n, Buffered, Traded
    <3> QED
      BY <3>1, <3>3, <3>4 DEF n, RamAt
  <2> QED
    BY <2>3, <2>4
<1> QED
  BY <1>1, ContentsInvariant, TypeInvariant, PTL

-------------------------------------------------------------------------------
(* The core implements the snapshots of module Snapshot, when nothing      *)
(* fails but the start of the driver and the disk has room for every       *)
(* layout.                                                                 *)
(*                                                                         *)
(* Calm says what a machine without faults adds to CInv: a transfer that   *)
(* was begun is finished, so no data is left under a header that is not    *)
(* its own, and every kernel that runs is whole.                           *)

(* Where fill_dump_header puts the areas of layout l, if they fit.         *)
Places(l) ==
  {e \in [1 .. Len(l) -> Nat] :
     /\ e[1] = HeaderSectors
     /\ \A k \in 1 .. Len(l) : /\ e[k] + l[k].size <= DiskSize
                               /\ k < Len(l) => e[k + 1] = e[k] + l[k].size}

Room == \A l \in Layouts : Places(l) # {}

Sound == Small /\ Room /\ Faults \subseteq {"init"}

PlacedAt(n) ==
  \A e \in Places(ram_areas) : \A k \in 1 .. n : header.areas[k].sector = e[k]

Calm ==
  /\ pc \notin StoreSteps \cup SwitchSteps => ~exposed
  /\ pc = "os" => Alive
  /\ pc \in SwitchSteps => base.dump # NoImage
  /\ pc = "cleanup" /\ ~err =>
       \/ action = "STORE" /\ DumpImage(disk) = base.ram
       \/ action = "SWITCH" /\ base.dump # NoImage
  /\ pc = "fill_dump_header" => PlacedAt(i - 1)
  /\ pc \in StoreSteps => PlacedAt(Len(ram_areas))

(* The image that runs is the only one that fits the machine.              *)
OneRuns ==
  pc = "os" =>
    \A img \in Image : img.vec = waking_vector /\ RamIs(img) => RunningImage = img

-------------------------------------------------------------------------------
(* Without faults the requests of a transfer that has room succeed.          *)
LEMMA CalmInvariant == Sound => (Spec => []Calm)
<1> SUFFICES ASSUME Sound PROVE Spec => []Calm
  OBVIOUS
<1> USE DEF StoreSteps, SwitchSteps
<1>1. Init => Calm
  <2> SUFFICES ASSUME Init PROVE Calm
    OBVIOUS
  <2> DEFINE img == [vec |-> waking_vector, at |-> 0]
  <2>1. img \in Image /\ img.vec = waking_vector
    BY SizesArePositive DEF Init, Image
  <2>2. RamIs(img)
    BY LayoutCells DEF Init, RamIs
  <2>3. Alive
    BY <2>1, <2>2 DEF Alive
  <2> QED
    BY <2>3 DEF Init, Calm
<1>2. Calm /\ UNCHANGED vars => Calm'
  BY DEF Calm, vars, Alive, RamIs, PlacedAt
<1>3. TInv /\ Calm /\ Reboot => Calm'
  <2> SUFFICES ASSUME TInv, Calm, Reboot PROVE Calm'
    OBVIOUS
  <2> DEFINE img == [vec |-> waking_vector', at |-> clock']
  <2>1. /\ pc' = "os" /\ ~exposed' /\ ram_areas' \in Layouts
        /\ ram' = [a \in Addr |-> img]
    BY DEF Calm, Reboot, ColdBoot
  <2>2. img \in Image /\ img.vec = waking_vector'
    BY SizesArePositive DEF TInv, VarTypes, Image, Reboot, ColdBoot
  <2> HIDE DEF img
  <2>3. \A a \in RamCells(ram_areas') : ram'[a] = img
    BY <2>1, LayoutCells
  <2>4. Alive'
    BY <2>2, <2>3 DEF Alive, RamIs
  <2> QED
    BY <2>1, <2>4 DEF Calm
<1>4. Calm /\ (\E a \in {"STORE", "SWITCH"} : set_core_action(a)) => Calm'
  BY DEF Calm, set_core_action, Alive, RamIs
<1>5. Calm /\ Suspend => Calm'
  BY DEF Calm, Suspend
<1>6. Calm /\ core_main => Calm'
  BY DEF Calm, core_main, Fail, PlacedAt
<1>7. TInv /\ Calm /\ fill_dump_header => Calm'
  <2> SUFFICES ASSUME TInv, Calm, fill_dump_header PROVE Calm'
    OBVIOUS
  <2>1. /\ pc = "fill_dump_header" /\ i \in 1 .. Len(ram_areas) /\ ~exposed
        /\ UNCHANGED <<ram_areas, exposed>>
        /\ ram_areas \in Layouts /\ PlacedAt(i - 1)
        /\ i > 1 => /\ header \in Header /\ Len(header.areas) = i - 1
                    /\ header.areas[i - 1].size = ram_areas[i - 1].size
        /\ \/ pc' = "fill_dump_header" /\ i' = i + 1
           \/ pc' = "store_area" /\ i = Len(ram_areas)
        /\ Len(ram_areas) \in Nat
    <3>1. Len(ram_areas) \in Nat
      BY LayoutTypes DEF TInv, VarTypes
    <3> QED
      BY <3>1 DEF fill_dump_header, Calm, TInv, VarTypes, Cursors, Matches
  <2> DEFINE areas == IF i = 1 THEN <<>> ELSE header.areas
             next == IF i = 1 THEN FirstSector ELSE areas[i - 1].sector + areas[i - 1].size
             area == [start |-> ram_areas[i].start, size |-> ram_areas[i].size, sector |-> next]
  <2>2. header'.areas = Append(areas, area)
    BY DEF fill_dump_header
  <2>3. Len(areas) = i - 1 /\ areas \in Seq(DiskArea) /\ i \in Nat /\ i >= 1
    BY <2>1, HeaderTypes
  <2>4. ASSUME NEW e \in Places(ram_areas), NEW k \in 1 .. i
        PROVE  header'.areas[k].sector = e[k]
    <3>1. CASE k < i
      <4>1. k \in 1 .. (i - 1) /\ i > 1
        BY <2>3, <3>1
      <4>2. header'.areas[k] = header.areas[k]
        BY <2>2, <2>3, <4>1
      <4> QED
        BY <2>1, <4>1, <4>2 DEF PlacedAt
    <3>2. CASE k = i
      <4>1. header'.areas[k] = area
        <5> HIDE DEF areas, area
        <5> QED
          BY <2>2, <2>3, <3>2
      <4>2. next = e[i]
        <5>1. CASE i = 1
          BY <5>1 DEF Places, FirstSector
        <5>2. CASE i # 1
          <6>1. i - 1 \in 1 .. Len(ram_areas) /\ i - 1 < Len(ram_areas) /\ (i - 1) + 1 = i
            BY <2>1, <2>3, <5>2
          <6>2. e[(i - 1) + 1] = e[i - 1] + ram_areas[i - 1].size
            BY <6>1 DEF Places
          <6>3. i - 1 \in 1 .. (i - 1) /\ i > 1
            BY <2>3, <5>2
          <6>4. header.areas[i - 1].sector = e[i - 1]
            BY <2>1, <6>3 DEF PlacedAt
          <6> QED
            BY <2>1, <5>2, <6>1, <6>2, <6>3, <6>4
        <5> QED
          BY <5>1, <5>2
      <4> QED
        BY <3>2, <4>1, <4>2
    <3> QED
      BY <2>3, <3>1, <3>2
  <2>5. /\ pc' = "fill_dump_header" => PlacedAt(i - 1)'
        /\ pc' = "store_area" => PlacedAt(Len(ram_areas))'
    <3>1. pc' = "fill_dump_header" => i' - 1 = i
      BY <2>1, <2>3
    <3> QED
      BY <2>1, <2>4, <3>1 DEF PlacedAt
  <2> QED
    BY <2>1, <2>5 DEF Calm
<1>8. Sound /\ TInv /\ CInv /\ Calm /\ store_area => Calm'
  <2> SUFFICES ASSUME Sound, TInv, CInv, Calm, store_area PROVE Calm'
    OBVIOUS
  <2>1. /\ pc = "store_area" /\ i \in 1 .. Len(ram_areas) /\ PlacedAt(Len(ram_areas))
        /\ Matches(header, Len(ram_areas)) /\ Placed(header)
        /\ UNCHANGED <<ram_areas, header>> /\ ram_areas \in Layouts
    BY DEF store_area, TInv, VarTypes, Cursors, Calm
  <2>2. PICK e : e \in Places(ram_areas)
    BY <2>1 DEF Sound, Room
  <2>3. StoreReq.sector = e[i] /\ StoreReq.size = ram_areas[i].size
    <3>1. header.areas[i].sector = e[i] /\ header.areas[i].size = ram_areas[i].size
      BY <2>1, <2>2 DEF PlacedAt, Matches
    <3>2. header.areas[i].size \in Nat /\ header.areas[i].size < LenLimit
      BY <2>1, AreaFacts DEF Sound
    <3> QED
      BY <2>1, <3>1, <3>2, StoreReqFacts, LenFits
  <2>4. InRange(StoreReq.sector, StoreReq.size)
    BY <2>1, <2>2, <2>3 DEF Places, InRange
  <2>5. pc' \in StoreSteps
    BY <2>4 DEF store_area, WriteFails, Sound
  <2> QED
    BY <2>1, <2>5 DEF Calm, PlacedAt
<1>9. Sound /\ TInv /\ CInv /\ CInv' /\ store_header => Calm'
  <2> SUFFICES ASSUME Sound, TInv, CInv, CInv', store_header PROVE Calm'
    OBVIOUS
  <2>1. /\ pc' = "cleanup" /\ ~exposed' /\ err' = err /\ disk' = HeaderWritten(header)
        /\ UNCHANGED <<action, ram_areas, header, base>>
    BY DEF store_header, Sound
  <2>2. /\ pc = "store_header" /\ ~err /\ action = "STORE" /\ disk \in [Sector -> Cell]
        /\ Matches(header, Len(ram_areas)) /\ Placed(header)
    BY DEF store_header, TInv, VarTypes, Cursors, CInv, Course
  <2>3. HasHeader(disk') /\ DumpIs(disk', disk'[0], base.ram)
    BY <2>1, <2>2 DEF CInv, StoreDelivers
  <2>4. disk'[0] = header /\ base.ram \in Image /\ 1 \in 1 .. Len(header.areas)
        /\ header.areas[1].size > 0
    <3>1. /\ base.ram \in Image /\ Len(header.areas) = Len(ram_areas)
          /\ Len(ram_areas) \in Nat \ {0}
          /\ \A k \in 1 .. Len(ram_areas) : header.areas[k].size \in Nat \ {0}
      BY <2>2, AreaFacts
    <3> QED
      BY <2>1, <2>2, <3>1, HeaderSector DEF HeaderWritten
  <2>5. DumpImage(disk') = base.ram
    BY <2>3, <2>4, DumpFound
  <2> QED
    BY <2>1, <2>2, <2>5 DEF Calm
<1>10. Calm /\ does_disk_contain_dump => Calm'
  BY DEF Calm, does_disk_contain_dump, read_dump_header, Fail
<1>11. TInv /\ CInv /\ Calm /\ disk_switch_dump => Calm'
  <2> SUFFICES ASSUME TInv, CInv, Calm, disk_switch_dump PROVE Calm'
    OBVIOUS
  <2>1. pc = "disk_switch_dump" /\ ~exposed /\ UNCHANGED <<base, exposed, disk>>
    BY DEF disk_switch_dump, read_dump_header, Calm
  <2>2. \/ pc' = "cleanup" /\ err' = TRUE
        \/ pc' = "switch_read" /\ is_dump_header_valid(disk[0])
    BY DEF disk_switch_dump, read_dump_header, Fail
  <2>3. is_dump_header_valid(disk[0]) => base.dump # NoImage
    <3> SUFFICES ASSUME is_dump_header_valid(disk[0]) PROVE base.dump # NoImage
      OBVIOUS
    <3>1. HasHeader(disk) /\ \E img \in Image : DumpIs(disk, disk[0], img)
      BY <2>1 DEF is_dump_header_valid, HasHeader, CInv, HeaderMeansDump
    <3>2. DumpImage(disk) \in Image
      BY <3>1 DEF DumpImage
    <3> QED
      BY <2>1, <3>2, HeaderSector DEF CInv, Kept, Looking
  <2> QED
    BY <2>1, <2>2, <2>3 DEF Calm
<1>12. Sound /\ TInv /\ CInv /\ Calm /\ (switch_read \/ switch_write) => Calm'
  <2> SUFFICES ASSUME Sound, TInv, CInv, Calm, switch_read \/ switch_write PROVE Calm'
    OBVIOUS
  <2>1. /\ pc \in SwitchSteps /\ base.dump # NoImage /\ base' = base
        /\ Matches(header, Len(ram_areas)) /\ Placed(header) /\ disk[0] = header
        /\ HeadersInside
    BY DEF switch_read, switch_write, Calm, TInv, Cursors, CInv
  <2>2. /\ i \in 1 .. Len(ram_areas) /\ SwitchReq.sector = header.areas[i].sector + off
        /\ off + SwitchReq.size <= header.areas[i].size
        /\ SwitchReq.size \in Nat /\ off \in Nat
    BY <2>1, PartCells, SwitchReqFacts
  <2>3. /\ header.areas[i].sector \in Nat /\ header.areas[i].size \in Nat
        /\ header.areas[i].sector + header.areas[i].size <= DiskSize
    BY <2>1, <2>2, AreaFacts DEF HeadersInside, HasHeader, Inside
  <2>4. InRange(SwitchReq.sector, SwitchReq.size)
    BY <2>2, <2>3, SizesArePositive, SMTT(30) DEF InRange
  <2>5. pc' \in {"switch_write", "switch_copy"}
    BY <2>4 DEF switch_read, switch_write, WriteFails, Sound
  <2> QED
    BY <2>1, <2>5 DEF Calm
<1>13. Calm /\ switch_copy => Calm'
  BY DEF Calm, switch_copy
<1>14. Sound /\ CInv /\ Calm /\ switch_header => Calm'
  BY DEF Calm, switch_header, Sound, CInv, Course
<1>15. CInv /\ TInv /\ Calm /\ acpi_return_kernel => Calm'
  <2> SUFFICES ASSUME CInv, TInv, Calm, acpi_return_kernel PROVE Calm'
    OBVIOUS
  <2>1. /\ pc = "cleanup" /\ pc' = "os" /\ ~exposed
        /\ UNCHANGED <<ram_areas, ram, waking_vector, exposed>>
    BY DEF acpi_return_kernel, Calm
  <2>2. base.ram \in Image /\ base.dump \in Image \cup {NoImage}
    BY DEF TInv, VarTypes
  <2>3. CASE err
    BY <2>1, <2>2, <2>3 DEF CInv, CleanAbort, Calm, Alive, RamIs
  <2>4. CASE ~err
    BY <2>1, <2>2, <2>4 DEF CInv, StoreDelivers, SwitchDelivers, Calm, Alive, RamIs
  <2> QED
    BY <2>3, <2>4
<1>16. Sound => ~PowerLoss
  BY DEF Sound, PowerLoss
<1>17. Sound /\ TInv /\ CInv /\ CInv' /\ Calm /\ [Next]_vars => Calm'
  BY <1>2, <1>3, <1>4, <1>5, <1>6, <1>7, <1>8, <1>9, <1>10, <1>11, <1>12, <1>13, <1>14,
     <1>15, <1>16
  DEF Next, CoreStep
<1> HIDE DEF StoreSteps, SwitchSteps
<1>18. Sound => Small
  BY DEF Sound
<1> QED
  BY <1>1, <1>17, <1>18, TypeInvariant, ContentsInvariant, PTL DEF Spec

-------------------------------------------------------------------------------
(* Without faults core_main never wakes a kernel on memory other than the   *)
(* one it was suspended with.                                               *)
THEOREM KernelsResumeWhole == Sound => (Spec => []ResumedWhole)
<1> SUFFICES ASSUME Sound PROVE Spec => []ResumedWhole
  OBVIOUS
<1>1. Calm => ResumedWhole
  BY DEF Calm, ResumedWhole
<1> QED
  BY <1>1, CalmInvariant, PTL

(* The core implements the snapshots the README promises: a wake up of the  *)
(* core is seen, when a kernel resumes, as a snapshot that was taken, as    *)
(* two images that traded places, or as nothing at all.                     *)
THEOREM CoreTakesSnapshots == Sound => (Spec => ImplementsSnapshot)
<1> SUFFICES ASSUME Sound PROVE Spec => ImplementsSnapshot
  OBVIOUS
<1> DEFINE Held == IF pc # "os" THEN base.dump ELSE DumpImage(disk)
           AllInv == TInv /\ CInv /\ Calm /\ OneRuns
           Seen  == <<RunningImage, Held, clock>>
<1>0. TInv => OneRuns
  <2> SUFFICES ASSUME TInv, pc = "os",
                      NEW img \in Image, img.vec = waking_vector, RamIs(img)
               PROVE  RunningImage = img
    BY DEF OneRuns
  <2>1. PICK a : a \in RamCells(ram_areas)
    <3>1. ram_areas \in Layouts
      BY DEF TInv, VarTypes
    <3>2. 1 \in 1 .. Len(ram_areas) /\ 0 \in 0 .. (ram_areas[1].size - 1)
      BY <3>1, LayoutTypes
    <3> QED
      BY <3>1, <3>2, LayoutCells
  <2>2. Alive
    BY DEF Alive
  <2>3. RunningImage = CHOOSE m \in Image : m.vec = waking_vector /\ RamIs(m)
    BY <2>2 DEF RunningImage
  <2>4. \A m \in Image : RamIs(m) => m = img
    BY <2>1 DEF RamIs
  <2> QED
    BY <2>3, <2>4
<1>1. Init /\ AllInv => Snap!SInit
  <2> SUFFICES ASSUME Init, AllInv PROVE Snap!SInit
    OBVIOUS
  <2> DEFINE img == [vec |-> waking_vector, at |-> 0]
  <2>1. img \in Image /\ img.vec = waking_vector /\ img \in [vec : Vectors, at : {0}]
    BY SizesArePositive DEF Init, Image
  <2>2. RamIs(img) /\ pc = "os"
    BY LayoutCells DEF Init, RamIs
  <2> HIDE DEF img
  <2>3. RunningImage = img
    BY <2>1, <2>2 DEF OneRuns
  <2>4. Held = NoImage
    BY <2>2, HeaderSector, DumpFound DEF Init, HasHeader
  <2> QED
    BY <2>1, <2>3, <2>4 DEF Snap!SInit, Init
<1>2. AllInv /\ AllInv' /\ [Next]_vars => [Snap!SNext]_(Snap!svars)
  <2> SUFFICES ASSUME AllInv, AllInv', [Next]_vars
               PROVE  Snap!SNext \/ Seen' = Seen
    BY DEF Snap!svars
  <2>1. pc = "os" => /\ RunningImage \in Image /\ RunningImage.vec = waking_vector
                     /\ RamIs(RunningImage)
    BY DEF Calm, Alive, OneRuns
  <2>2. base.ram \in Image /\ clock \in Nat /\ waking_vector \in Vectors
    BY SizesArePositive DEF TInv, VarTypes
  <2>3. CASE UNCHANGED vars
    BY <2>3 DEF vars, RunningImage, Alive, RamIs
  <2>4. CASE \E a \in {"STORE", "SWITCH"} : set_core_action(a)
    BY <2>4 DEF set_core_action, RunningImage, Alive, RamIs
  <2>5. CASE Suspend
    <3> DEFINE img == [vec |-> waking_vector, at |-> clock + 1]
    <3>1. pc = "os" /\ pc' = "core_main" /\ clock' = clock + 1
          /\ base' = [ram |-> img, dump |-> DumpImage(disk)]
      BY <2>5 DEF Suspend
    <3>2. RunningImage' = img /\ Held' = Held
      BY <3>1 DEF RunningImage
    <3>3. img = [RunningImage EXCEPT !.at = clock + 1]
      BY <2>1, <3>1 DEF Image
    <3> QED
      BY <3>1, <3>2, <3>3 DEF Snap!SNext, Snap!Work
  <2>6. CASE Reboot
    <3> DEFINE img == [vec |-> waking_vector', at |-> clock + 1]
    <3>1. /\ pc = "os" /\ pc' = "os" /\ clock' = clock + 1 /\ disk' = disk
          /\ ram' = [a \in Addr |-> img] /\ ram_areas' \in Layouts
          /\ waking_vector' \in Vectors
      BY <2>6 DEF Reboot, ColdBoot
    <3>2. img \in Image /\ img.vec = waking_vector' /\ img \in [vec : Vectors, at : {clock + 1}]
      BY <2>2, <2>6, <3>1, SizesArePositive DEF Image, Reboot, ColdBoot
    <3> HIDE DEF img
    <3>3. \A a \in RamCells(ram_areas') : ram'[a] = img
      BY <3>1, LayoutCells
    <3>4. RunningImage' = img
      BY <3>1, <3>2, <3>3 DEF OneRuns, RamIs
    <3>5. Held' = Held
      BY <3>1
    <3> QED
      BY <3>1, <3>2, <3>4, <3>5 DEF Snap!SNext, Snap!Boot
  <2>7. CASE acpi_return_kernel
    <3>1. /\ pc = "cleanup" /\ pc' = "os" /\ ~exposed
          /\ UNCHANGED <<ram_areas, ram, disk, waking_vector, clock>>
      BY <2>7 DEF acpi_return_kernel, Calm, StoreSteps, SwitchSteps
    <3>2. /\ RunningImage = base.ram /\ Held = base.dump
          /\ Held' = DumpImage(disk) /\ clock' = clock
      BY <3>1 DEF RunningImage
    <3>3. ASSUME NEW img \in Image, RamIs(img), img.vec = waking_vector
          PROVE  RunningImage' = img
      BY <3>1, <3>3 DEF OneRuns, RamIs
    <3>4. CASE err
      <4>1. /\ RamIs(base.ram) /\ waking_vector = base.ram.vec
            /\ DumpImage(disk) = base.dump \/ DumpImage(disk) = base.ram
        BY <3>1, <3>4 DEF CInv, CleanAbort
      <4>2. RunningImage' = RunningImage
        BY <2>2, <3>2, <3>3, <4>1
      <4> QED
        BY <3>2, <4>1, <4>2 DEF Snap!SNext, Snap!Store
    <3>5. CASE ~err /\ action = "STORE"
      <4>1. RamIs(base.ram) /\ waking_vector = base.ram.vec /\ DumpImage(disk) = base.ram
        BY <3>1, <3>5 DEF CInv, StoreDelivers, Calm
      <4>2. RunningImage' = RunningImage
        BY <2>2, <3>2, <3>3, <4>1
      <4> QED
        BY <3>2, <4>1, <4>2 DEF Snap!SNext, Snap!Store
    <3>6. CASE ~err /\ action = "SWITCH" /\ base.dump # NoImage
      <4>1. RamIs(base.dump) /\ waking_vector = base.dump.vec /\ DumpImage(disk) = base.ram
        BY <3>1, <3>6 DEF CInv, SwitchDelivers
      <4>2. base.dump \in Image
        BY <3>6 DEF TInv, VarTypes
      <4>3. RunningImage' = base.dump
        BY <3>3, <4>1, <4>2
      <4> QED
        BY <3>2, <3>6, <4>1, <4>3 DEF Snap!SNext, Snap!Switch
    <3> QED
      BY <3>1, <3>4, <3>5, <3>6 DEF Calm
  <2>8. CASE \/ core_main \/ fill_dump_header \/ store_area \/ store_header
             \/ does_disk_contain_dump \/ disk_switch_dump \/ switch_read
             \/ switch_write \/ switch_copy \/ switch_header
    <3>1. pc # "os" /\ pc' # "os" /\ UNCHANGED <<base, clock>>
      BY <2>8 DEF core_main, fill_dump_header, store_area, store_header,
         does_disk_contain_dump, disk_switch_dump, read_dump_header, switch_read, switch_write, switch_copy,
         switch_header, Fail
    <3> QED
      BY <3>1 DEF RunningImage
  <2>9. ~PowerLoss
    BY DEF Sound, PowerLoss
  <2> QED
    BY <2>3, <2>4, <2>5, <2>6, <2>7, <2>8, <2>9 DEF Next, CoreStep
<1>3. Sound => Small
  BY DEF Sound
<1> HIDE DEF AllInv
<1>4. Spec => []AllInv
  BY <1>0, <1>3, TypeInvariant, ContentsInvariant, CalmInvariant, PTL DEF AllInv
<1>5. Spec => Snap!SInit
  BY <1>1, <1>4, PTL DEF Spec
<1> QED
  BY <1>2, <1>4, <1>5, PTL DEF Spec, ImplementsSnapshot, Snap!SSpec

===============================================================================
