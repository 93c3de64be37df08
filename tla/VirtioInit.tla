------------------------------- MODULE VirtioInit -------------------------------
(***************************************************************************)
(* How the core gets at the disk: the EFI application looks for it and     *)
(* saves its address and the BARs the firmware gave it (fill_disk_pci);    *)
(* after every wake up the core writes the BARs back, finds the device's   *)
(* registers through its PCI capabilities and brings the device up         *)
(* (init_virtio_blk_dev), until VirtioQueue can begin.                     *)
(*                                                                         *)
(* The struct virtio_blk_dev is an uninitialised local of core_main: what  *)
(* it holds at first is NULL, any address, or what the previous wake up    *)
(* left on the stack.                                                      *)
(***************************************************************************)
EXTENDS Pci, Integers, Sequences

CONSTANTS
  BarModulus,  \* 2^32 in the code: one more than the largest register value
  MaxBlock,    \* block size of the largest allocator, in bytes
  Cards        \* disks: [functions, kinds, bios, caps, queue_size, multiplier,
               \*          queue_notify_off], functions being those of the whole machine

NULL == 0
Wild == -1     \* an address that is none of the device's
None == <<>>   \* no queue is set
Kernel == <<"kernel">> \* the queue of the kernel's driver

VARIABLES
  pc,         \* the step that comes next
  card,       \* the disk
  addr,       \* g_core_header.disk_pci.addr
  saved,      \* g_core_header.disk_pci.bars
  present,    \* whether the disk answers since the wake up
  bars,       \* its base address registers
  mem_on,     \* PCI_COMMAND_MEMORY
  status,     \* device_status
  queue,      \* the addresses in queue_desc, queue_driver and queue_device
  enabled,    \* queue_enable
  common_cfg, \* virtio_blk_dev.common_cfg
  notify,     \* virtio_blk_dev.notify.off
  notify_off, \* virtio_blk_dev.queue.notify_off
  k           \* iter.off: the capability that is looked at, 0 after the last one

virtio_pci_common_cfg == <<status, queue, enabled>>
dev  == <<present, bars, mem_on, virtio_pci_common_cfg>>
drv  == <<common_cfg, notify, notify_off, k>>
disk_pci == <<addr, saved>>
vars == <<pc, card, disk_pci, dev, drv>>

Bars == DOMAIN card.bios
Running == {"ACKNOWLEDGE", "DRIVER", "FEATURES_OK", "DRIVER_OK"}
Kinds    == {"none", "io", "mem32", "mem64", "upper"}
CfgTypes == {"common", "notify", "isr", "invalid", "other vendor"}

ASSUME Widths == BarModulus \in Nat \ {0} /\ BarModulus % 16 = 0 /\ MaxBlock \in Nat

-------------------------------------------------------------------------------
(* pci_get_bar.  The low bits tell the kind of a register; nothing tells   *)
(* that it is the upper half of its neighbour.                             *)

IsIo(v)     == v % 2 = 1
Is64(v)     == ~IsIo(v) /\ (v % 8) \div 2 = 2
IsInvalid(v) == v = BarModulus - 1

Masked(v) == IF IsIo(v) THEN v - (v % 4) ELSE v - (v % 16)

HasBar(regs, i) ==
  /\ i \in DOMAIN regs
  /\ ~IsInvalid(regs[i])
  /\ Is64(regs[i]) => i + 1 \in DOMAIN regs

pci_get_bar(regs, i) ==
  Masked(regs[i]) + (IF Is64(regs[i]) THEN BarModulus * regs[i + 1] ELSE 0)

(* The bits of a register that the device does not let anyone write.       *)
Wired(kind, v) ==
  CASE kind = "none"  -> 0
    [] kind = "io"    -> v - (v % 4) + 1
    [] kind = "mem32" -> v - (v % 16)
    [] kind = "mem64" -> v - (v % 16) + 4
    [] kind = "upper" -> v

(* What the PCI and virtio specifications ask of a disk: registers that     *)
(* keep their read only bits, one capability for the common configuration  *)
(* and one for the notifications, and, since the driver ignores its        *)
(* offset, a common configuration at the start of its BAR.  Registers      *)
(* count from 1.                                                           *)
ASSUME CardsConform ==
  \A c \in Cards :
    /\ DOMAIN c.functions \subseteq Addresses
    /\ c.kinds \in Seq(Kinds) /\ c.bios \in Seq(0 .. (BarModulus - 1))
    /\ Len(c.kinds) = Len(c.bios)
    /\ \A i \in DOMAIN c.bios : Wired(c.kinds[i], c.bios[i]) = c.bios[i]
    /\ c.caps \in Seq([cfg_type : CfgTypes, bar : Nat, offset : Nat])
    /\ \A type \in {"common", "notify"} :
         /\ \E j \in DOMAIN c.caps : c.caps[j].cfg_type = type
         /\ \A i, j \in DOMAIN c.caps :
              c.caps[i].cfg_type = type /\ c.caps[j].cfg_type = type => i = j
    /\ \A j \in DOMAIN c.caps : c.caps[j].cfg_type = "common" => c.caps[j].offset = 0

(* disk_pci.bars are 32 bits wide, like the registers. *)
Truncated(v) == v % BarModulus

(* Mutant: all registers get back the first one. *)
Restored_first == [i \in Bars |-> Wired(card.kinds[i], saved[1])]
Restored       == [i \in Bars |-> Wired(card.kinds[i], saved[i])]

(* Where the device answers. *)
CapOf(type) == CHOOSE c \in {card.caps[j] : j \in DOMAIN card.caps} : c.cfg_type = type
BaseOf(type) == pci_get_bar(bars, CapOf(type).bar)
Doorbell == BaseOf("notify") + CapOf("notify").offset + card.queue_notify_off * card.multiplier
Answers(reg) == present /\ mem_on /\ reg = BaseOf("common")

Init ==
  /\ pc = "fill_disk_pci"
  /\ card \in Cards
  /\ addr = NotFound
  /\ saved = [i \in Bars |-> 0]
  /\ present = TRUE
  /\ bars = card.bios
  /\ mem_on = TRUE
  /\ status = {}
  /\ queue = None
  /\ enabled = FALSE
  /\ common_cfg \in {NULL, Wild}
  /\ notify \in {NULL, Wild}
  /\ notify_off = NULL
  /\ k = 0

-------------------------------------------------------------------------------
(* The EFI application.  Without the disk or its BARs the boot fails.      *)
fill_disk_pci ==
  /\ pc = "fill_disk_pci"
  /\ addr' = lookup_pci_dev(card.functions)
  /\ \/ /\ addr' # NotFound /\ \A i \in Bars : HasBar(bars, i)
        /\ saved' = [i \in Bars |-> Truncated(pci_get_bar(bars, i))]
        /\ pc' = "os"
     \/ /\ addr' = NotFound \/ \E i \in Bars : ~HasBar(bars, i)
        /\ pc' = "unhooked"
        /\ UNCHANGED saved
  /\ UNCHANGED <<card, dev, drv>>

(* A kernel drives the disk, goes to sleep, and the core wakes up.  The    *)
(* disk has lost power or kept it, or does not answer any more.            *)
Sleep ==
  /\ pc \in {"os", "ready", "failed"}
  /\ pc' = "init_pci_dev"
  /\ present' \in BOOLEAN
  /\ \/ /\ bars' = [i \in Bars |-> Wired(card.kinds[i], 0)]
        /\ mem_on' = FALSE
        /\ status' = {}
        /\ queue' = None
        /\ enabled' = FALSE
     \/ /\ bars' = card.bios
        /\ mem_on' = TRUE
        /\ status' = Running
        /\ queue' = Kernel
        /\ enabled' = TRUE
  /\ common_cfg' \in {NULL, Wild, common_cfg}
  /\ notify' \in {NULL, Wild, notify}
  /\ k' = 0
  /\ UNCHANGED <<card, disk_pci, notify_off>>

(* The cleanup of init_virtio_blk_dev. *)
Fail ==
  /\ pc' = IF common_cfg = Wild THEN "astray" ELSE "failed"
  /\ status' = IF Answers(common_cfg) THEN {"FAILED"} ELSE status
  /\ UNCHANGED <<card, disk_pci, present, bars, mem_on, queue, enabled, drv>>

(* The list of capabilities is the order in which they point at each       *)
(* other; what the last one points at is no capability.                    *)
is_cap_valid(cap_off)   == cap_off \in DOMAIN card.caps
pci_cap_iter_init       == IF is_cap_valid(1) THEN 1 ELSE 0
pci_cap_iter_next(off)  == IF is_cap_valid(off + 1) THEN off + 1 ELSE 0

(* init_pci_dev, and the BARs are written back. *)
init_pci_dev ==
  /\ pc = "init_pci_dev"
  /\ \/ /\ present
        /\ bars' = Restored
        /\ k' = pci_cap_iter_init
        /\ pc' = "parse_virtio_blk_caps"
        /\ UNCHANGED <<card, disk_pci, present, mem_on, status, queue, enabled, common_cfg, notify,
                       notify_off>>
     \/ ~present /\ Fail

Refused(cap) ==
  \/ cap.cfg_type = "invalid"
  \/ cap.cfg_type # "other vendor" /\ ~HasBar(bars, cap.bar)
  \/ cap.cfg_type \in {"common", "notify"} /\ IsIo(bars[cap.bar])

(* Mutant: the capability's registers are not remembered. *)
CommonAt_lost(cap) == common_cfg

CommonAt(cap) ==
  IF cap.cfg_type = "common" THEN pci_get_bar(bars, cap.bar) ELSE common_cfg

(* Mutant: the offset within the BAR is forgotten. *)
NotifyAt_base(cap) ==
  IF cap.cfg_type = "notify" THEN pci_get_bar(bars, cap.bar) ELSE notify

NotifyAt(cap) ==
  IF cap.cfg_type = "notify" THEN pci_get_bar(bars, cap.bar) + cap.offset ELSE notify

(* One capability. *)
parse_cap ==
  /\ pc = "parse_virtio_blk_caps"
  /\ k # 0
  /\ \/ Refused(card.caps[k]) /\ Fail
     \/ /\ ~Refused(card.caps[k])
        /\ common_cfg' = CommonAt(card.caps[k])
        /\ notify' = NotifyAt(card.caps[k])
        /\ k' = pci_cap_iter_next(k)
        /\ UNCHANGED <<pc, card, disk_pci, dev, notify_off>>

(* Mutant: the status bits are added to those of the kernel's driver.      *)
FirstStatus_noreset == status \cup {"ACKNOWLEDGE", "DRIVER"}

FirstStatus == {"ACKNOWLEDGE", "DRIVER"}

(* Both configurations are there; memory decoding is switched on and the   *)
(* device reset, which forgets its queue.                                  *)
init_virtio_status ==
  /\ pc = "parse_virtio_blk_caps"
  /\ k = 0
  /\ \/ (common_cfg = NULL \/ notify = NULL) /\ Fail
     \/ /\ common_cfg # NULL /\ notify # NULL
        /\ mem_on' = TRUE
        /\ IF common_cfg = BaseOf("common")
           THEN /\ status' = FirstStatus
                /\ queue' = None
                /\ enabled' = FALSE
                /\ pc' = "negotiate_virtio_features"
           ELSE pc' = "astray" /\ UNCHANGED <<status, queue, enabled>>
        /\ UNCHANGED <<card, disk_pci, present, bars, drv>>

(* No feature is asked for; the device may refuse that. *)
negotiate_virtio_features ==
  /\ pc = "negotiate_virtio_features"
  /\ \/ /\ status' = status \cup {"FEATURES_OK"}
        /\ pc' = "init_virtio_blk_queue"
        /\ UNCHANGED <<card, disk_pci, present, bars, mem_on, queue, enabled, drv>>
     \/ Fail

(* The bytes of the descriptor table, the available and the used ring. *)
PartSizes(n) == {16 * n, 4 + 2 * n, 4 + 8 * n}

InvalidQueueSize == 65535
QueueFits(n) == n \notin {0, InvalidQueueSize} /\ \A b \in PartSizes(n) : b <= MaxBlock

(* The queue is allocated, its addresses and its doorbell are set, and it  *)
(* is enabled.  When a part cannot be had the others are freed again.      *)
init_virtio_blk_queue ==
  /\ pc = "init_virtio_blk_queue"
  /\ \/ /\ QueueFits(card.queue_size)
        /\ queue' = <<"desc", "avail", "used">>
        /\ enabled' = TRUE
        /\ notify_off' = notify + card.queue_notify_off * card.multiplier
        /\ pc' = "driver_ok"
        /\ UNCHANGED <<card, disk_pci, present, bars, mem_on, status, common_cfg, notify, k>>
     \/ ~QueueFits(card.queue_size) /\ Fail

driver_ok ==
  /\ pc = "driver_ok"
  /\ status' = status \cup {"DRIVER_OK"}
  /\ pc' = "ready"
  /\ UNCHANGED <<card, disk_pci, present, bars, mem_on, queue, enabled, drv>>

init_virtio_blk_dev ==
  \/ init_pci_dev \/ parse_cap \/ init_virtio_status
  \/ negotiate_virtio_features \/ init_virtio_blk_queue \/ driver_ok

Next == fill_disk_pci \/ Sleep \/ init_virtio_blk_dev

Spec == Init /\ [][Next]_vars

-------------------------------------------------------------------------------
(* Properties. *)

(* On machines whose devices number their functions without gaps, a disk   *)
(* that answers is found, whatever else is on the buses, and the core      *)
(* keeps talking to the one that is enumerated first: a kernel that        *)
(* dumps to it in one boot finds the dump there in the next.  A gap hides  *)
(* the functions behind it.                                                *)
DiskIsFound ==
  LET disks == {a \in DOMAIN card.functions : card.functions[a] = "disk"}
  IN  /\ pc # "fill_disk_pci" /\ disks # {}
      /\ \A a \in DOMAIN card.functions : \A f \in 0 .. a[3] :
           <<a[1], a[2], f>> \in DOMAIN card.functions
      => addr \in disks /\ \A a \in disks \ {addr} : Before(addr, a)

(* "We restore these bars before starting communication with the device":  *)
(* after the way through pci_get_bar, the core header and the registers    *)
(* the disk is where the firmware had put it.  The exception is the upper  *)
(* half of a 64 bit BAR, which pci_get_bar masks as a BAR of its own: it   *)
(* comes back only when its four low bits are clear.                       *)
BarsComeBack ==
  present /\ pc \notin {"fill_disk_pci", "unhooked", "init_pci_dev"} =>
    \A i \in Bars : bars[i] # card.bios[i] =>
      card.kinds[i] = "upper" /\ card.bios[i] % 16 # 0

(* When init_virtio_blk_dev succeeds the device decodes memory, runs with  *)
(* the queue of the core and not with that of the kernel, and both it and  *)
(* the doorbell are where the driver looks for them.                       *)
ReadyMeansReady ==
  pc = "ready" =>
    /\ present /\ mem_on
    /\ status = Running
    /\ enabled /\ queue = <<"desc", "avail", "used">>
    /\ common_cfg = BaseOf("common")
    /\ notify_off = Doorbell

(* The order the virtio specification prescribes (3.1.1): features and the *)
(* queue are set only between the reset and DRIVER_OK, and the driver sets *)
(* DRIVER_OK only for a queue it has set, whatever state the kernel's      *)
(* driver left the device in.                                              *)
BringUpInOrder ==
  [][pc # "init_pci_dev" /\ pc' # "init_pci_dev" =>
       /\ status' # status /\ "FEATURES_OK" \in status' => "DRIVER" \in status
       /\ queue' \notin {queue, None} => "FEATURES_OK" \in status /\ "DRIVER_OK" \notin status
       /\ "DRIVER_OK" \in status' \ status => enabled /\ queue # Kernel]_vars

(* The core writes through an address it never set only when the disk does *)
(* not answer, or has not shown its common configuration yet.              *)
AstrayOnlyWithoutDevice ==
  pc = "astray" /\ present => k # 0 /\ \A j \in 1 .. (k - 1) : card.caps[j].cfg_type # "common"
===============================================================================
