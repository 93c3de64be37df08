--------------------------- MODULE VirtioInitProofs ---------------------------
(***************************************************************************)
(* Proofs about the bring-up of the disk, for any disks that conform to    *)
(* the specifications, any width of the registers and any block size.      *)
(***************************************************************************)
EXTENDS VirtioInit, WellFoundedInduction, TLAPS

BringUp == {"negotiate_virtio_features", "init_virtio_blk_queue", "driver_ok", "ready"}
Steps   == {"fill_disk_pci", "unhooked", "os", "init_pci_dev", "parse_virtio_blk_caps",
            "failed", "astray"} \cup BringUp

VarTypes ==
  /\ pc \in Steps
  /\ card \in Cards
  /\ present \in BOOLEAN
  /\ bars \in [Bars -> Nat]
  /\ k \in {0} \cup DOMAIN card.caps

(* What the registers hold: until the core wakes up what the firmware put  *)
(* there, and in the core header what pci_get_bar made of it.              *)
Saved ==
  /\ pc \in {"fill_disk_pci", "os"} => bars = card.bios
  /\ pc \notin {"fill_disk_pci", "unhooked"} =>
       /\ \A i \in Bars : HasBar(card.bios, i)
       /\ saved = [i \in Bars |-> Truncated(pci_get_bar(card.bios, i))]

IsCommon == common_cfg = BaseOf("common") /\ common_cfg \in Nat
IsNotify == notify = BaseOf("notify") + CapOf("notify").offset

(* The capabilities before k have been parsed, all of them when it is 0.   *)
Parsed(j) == j \in DOMAIN card.caps /\ (k = 0 \/ j < k)

Parsing ==
  pc = "parse_virtio_blk_caps" =>
    /\ present
    /\ \A j \in DOMAIN card.caps : Parsed(j) =>
         /\ card.caps[j].cfg_type = "common" => IsCommon
         /\ card.caps[j].cfg_type = "notify" => IsNotify

(* After the reset the device has gone as far as the step says. *)
Going ==
  /\ pc \in BringUp => present /\ mem_on /\ IsCommon /\ IsNotify
  /\ pc = "negotiate_virtio_features" => status = {"ACKNOWLEDGE", "DRIVER"}
  /\ pc \in {"init_virtio_blk_queue", "driver_ok"} =>
       status = {"ACKNOWLEDGE", "DRIVER", "FEATURES_OK"}
  /\ pc = "driver_ok" =>
       enabled /\ queue = <<"desc", "avail", "used">> /\ notify_off = Doorbell

IInv ==
  /\ VarTypes /\ Saved /\ Parsing /\ Going
  /\ BarsComeBack /\ ReadyMeansReady /\ AstrayOnlyWithoutDevice

-------------------------------------------------------------------------------
(* Every step of the application, of a sleep and of the bring-up keeps it. *)
(* The registers come back because what pci_get_bar adds for the upper     *)
(* half is a multiple of what disk_pci.bars can hold (step <1>0).           *)
LEMMA Invariant == Spec => []IInv
<1>0. ASSUME NEW m \in Nat \ {0}, NEW a \in 0 .. (m - 1), NEW w \in Nat
      PROVE  (a + m * w) % m = a
  <2> DEFINE x == a + m * w
             q == x \div m
             r == x % m
  <2>1. x \in Nat /\ m * w \in Nat
    OBVIOUS
  <2>2. q \in Int /\ r \in 0 .. (m - 1) /\ x = m * q + r
    <3> HIDE DEF x
    <3> QED
      BY <2>1
  <2>3. m * (w - q) = r - a
    <3> HIDE DEF q, r
    <3> QED
      BY <2>1, <2>2
  <2>4. \A d \in Int : (d >= 1 => m * d >= m) /\ (d <= -1 => m * d <= -m)
    OBVIOUS
  <2>5. w - q = 0 /\ r = a
    <3> HIDE DEF q, r
    <3>1. w - q = 0
      BY <2>2, <2>3, <2>4
    <3> QED
      BY <2>2, <2>3, <3>1
  <2> QED
    BY <2>5
<1>1. Init => IInv
  <2> SUFFICES ASSUME Init PROVE IInv
    OBVIOUS
  <2>1. bars = card.bios /\ card \in Cards /\ card.bios \in Seq(0 .. (BarModulus - 1))
    BY CardsConform DEF Init
  <2>2. bars \in [Bars -> Nat]
    BY <2>1, Widths DEF Bars
  <2> QED
    BY <2>1, <2>2 DEF Init, IInv, VarTypes, Steps, BringUp, Saved, BarsComeBack, Parsing, Going,
                      ReadyMeansReady, AstrayOnlyWithoutDevice, Bars
<1>2. ASSUME IInv, [Next]_vars PROVE IInv'
  <2> USE <1>2 DEF IInv
  <2>1. CASE UNCHANGED vars
    <3>1. UNCHANGED <<pc, card, saved, present, bars, mem_on, status, queue, enabled, common_cfg,
                      notify, notify_off, k>>
      BY <2>1 DEF vars, disk_pci, dev, drv, virtio_pci_common_cfg
    <3>2. VarTypes' /\ Saved' /\ BarsComeBack'
      BY <3>1 DEF VarTypes, Saved, BarsComeBack, Bars
    <3>3. UNCHANGED <<IsCommon, IsNotify, Doorbell, BaseOf("common")>>
      BY <3>1 DEF IsCommon, IsNotify, Doorbell, BaseOf, CapOf
    <3> QED
      BY <3>1, <3>2, <3>3 DEF Parsing, Parsed, Going, ReadyMeansReady, AstrayOnlyWithoutDevice
  <2>2. CASE fill_disk_pci
    <3>1. pc' \in {"os", "unhooked"} /\ UNCHANGED <<card, dev, drv>>
      BY <2>2 DEF fill_disk_pci
    <3>2. VarTypes'
      BY <3>1 DEF VarTypes, Steps, dev, drv, Bars
    <3>3. Saved'
      BY <2>2, <3>1 DEF fill_disk_pci, Saved, dev, Bars
    <3>4. BarsComeBack'
      BY <2>2, <3>1 DEF fill_disk_pci, Saved, BarsComeBack, dev, Bars
    <3> QED
      BY <3>1, <3>2, <3>3, <3>4 DEF Parsing, Going, BringUp, ReadyMeansReady, AstrayOnlyWithoutDevice
  <2>3. CASE Sleep
    <3>1. /\ pc' = "init_pci_dev" /\ UNCHANGED <<card, disk_pci>>
          /\ pc \notin {"fill_disk_pci", "unhooked"}
      BY <2>3 DEF Sleep
    <3>2. bars' \in [Bars -> Nat]
      <4>1. CASE bars' = card.bios
        <5>1. card \in Cards
          BY DEF VarTypes
        <5>2. card.bios \in Seq(0 .. (BarModulus - 1))
          BY <5>1, CardsConform
        <5> QED
          BY <4>1, <5>2, Widths DEF Bars
      <4>2. CASE bars' = [i \in Bars |-> Wired(card.kinds[i], 0)]
        <5>1. \A i \in Bars : card.kinds[i] \in Kinds
          BY CardsConform, SMTT(30) DEF VarTypes, Bars
        <5>2. \A i \in Bars : Wired(card.kinds[i], 0) \in Nat
          BY <5>1 DEF Wired, Kinds
        <5> QED
          BY <4>2, <5>2
      <4> QED
        BY <2>3, <4>1, <4>2 DEF Sleep
    <3>3. VarTypes'
      BY <2>3, <3>1, <3>2 DEF Sleep, VarTypes, Steps, Bars
    <3>4. Saved'
      BY <3>1 DEF Saved, disk_pci, Bars
    <3> QED
      BY <3>1, <3>3, <3>4 DEF BarsComeBack, Parsing, Going, BringUp, ReadyMeansReady,
                              AstrayOnlyWithoutDevice
  <2>4. CASE init_virtio_blk_dev
    <3>1. card \in Cards /\ card' = card
      BY <2>4 DEF VarTypes, init_virtio_blk_dev, init_pci_dev, parse_cap, init_virtio_status,
                  negotiate_virtio_features, init_virtio_blk_queue, driver_ok, Fail
    <3>2. \A type \in {"common", "notify"}, j \in DOMAIN card.caps :
            card.caps[j].cfg_type = type => CapOf(type) = card.caps[j]
      BY <3>1, CardsConform, SMTT(30) DEF CapOf
    <3>3. bars' = bars =>
            UNCHANGED <<BaseOf("common"), BaseOf("notify"), CapOf("notify"), Doorbell>>
      BY <3>1 DEF BaseOf, CapOf, Doorbell
    <3>4. CASE init_pci_dev /\ present
      <4>1. /\ pc = "init_pci_dev" /\ pc' = "parse_virtio_blk_caps"
            /\ bars' = Restored /\ k' = pci_cap_iter_init
            /\ UNCHANGED <<disk_pci, present>>
        BY <3>4 DEF init_pci_dev, Fail
      <4>2. ASSUME NEW i \in Bars
            PROVE  /\ bars'[i] \in Nat
                   /\ bars'[i] # card.bios[i] => card.kinds[i] = "upper" /\ card.bios[i] % 16 # 0
        <5> DEFINE v == card.bios[i]
        <5>1. /\ v \in 0 .. (BarModulus - 1) /\ card.kinds[i] \in Kinds
              /\ Wired(card.kinds[i], v) = v /\ BarModulus \in Nat \ {0}
              /\ HasBar(card.bios, i)
              /\ bars'[i] = Wired(card.kinds[i], Truncated(pci_get_bar(card.bios, i)))
          BY <3>1, <4>1, <4>2, CardsConform, Widths DEF Bars, Saved, Restored
        <5>2. Masked(v) \in 0 .. v
          BY <5>1 DEF Masked
        <5>3. Truncated(pci_get_bar(card.bios, i)) = Masked(v)
          <6>1. CASE Is64(v)
            <7> DEFINE w == card.bios[i + 1]
            <7>1. w \in Nat
              BY <3>1, <4>2, <5>1, <6>1, CardsConform DEF HasBar, Bars
            <7>2. BarModulus \in Nat \ {0} /\ Masked(v) \in 0 .. (BarModulus - 1)
              BY <5>1, <5>2
            <7>3. (Masked(v) + BarModulus * w) % BarModulus = Masked(v)
              BY <1>0, <7>1, <7>2
            <7> QED
              BY <6>1, <7>3 DEF Truncated, pci_get_bar
          <6>2. CASE ~Is64(v)
            BY <5>1, <5>2, <6>2 DEF Truncated, pci_get_bar
          <6> QED
            BY <6>1, <6>2
        <5>4. bars'[i] = Wired(card.kinds[i], Masked(v))
          BY <5>1, <5>3
        <5>5. CASE card.kinds[i] \in {"none", "io", "mem32", "mem64"}
          <6>1. CASE card.kinds[i] = "none"
            BY <5>1, <5>4, <6>1 DEF Wired
          <6>2. CASE card.kinds[i] = "io"
            <7>1. v % 4 = 1 /\ v \in Nat
              BY <5>1, <6>2 DEF Wired
            <7>2. v % 2 = 1 /\ (v - 1) % 4 = 0
              BY <7>1
            <7> QED
              BY <5>1, <5>4, <6>2, <7>1, <7>2 DEF Wired, Masked, IsIo
          <6>3. CASE card.kinds[i] = "mem32"
            <7>1. v % 16 = 0 /\ v \in Nat
              BY <5>1, <6>3 DEF Wired
            <7>2. v % 2 = 0
              BY <7>1
            <7>3. Masked(v) = v
              BY <7>1, <7>2 DEF Masked, IsIo
            <7> QED
              BY <5>1, <5>4, <7>3
          <6>4. CASE card.kinds[i] = "mem64"
            <7>1. v % 16 = 4 /\ v \in Nat
              BY <5>1, <6>4 DEF Wired
            <7>2. v % 2 = 0 /\ (v - 4) % 16 = 0
              BY <7>1
            <7>3. Masked(v) = v - 4
              BY <7>1, <7>2 DEF Masked, IsIo
            <7>4. bars'[i] = (v - 4) - ((v - 4) % 16) + 4
              BY <5>4, <6>4, <7>3 DEF Wired
            <7> QED
              BY <7>1, <7>2, <7>4
          <6> QED
            BY <5>5, <6>1, <6>2, <6>3, <6>4
        <5>6. CASE card.kinds[i] = "upper"
          BY <5>1, <5>2, <5>4, <5>6 DEF Wired, Masked, IsIo
        <5> QED
          BY <5>1, <5>5, <5>6 DEF Kinds
      <4>3. VarTypes'
        <5>1. bars' \in [Bars -> Nat]
          BY <4>1, <4>2 DEF Restored
        <5>2. k' \in {0} \cup DOMAIN card.caps
          BY <4>1 DEF pci_cap_iter_init, is_cap_valid
        <5> QED
          BY <3>1, <4>1, <5>1, <5>2 DEF VarTypes, Steps, Bars
      <4>4. Saved' /\ BarsComeBack'
        BY <3>1, <4>1, <4>2 DEF Saved, BarsComeBack, disk_pci, Bars
      <4>5. \A j \in DOMAIN card.caps : ~Parsed(j)'
        BY <3>1, <4>1, CardsConform DEF Parsed, pci_cap_iter_init, is_cap_valid
      <4> QED
        BY <3>1, <3>4, <4>1, <4>3, <4>4, <4>5 DEF Parsing, Going, BringUp, ReadyMeansReady,
                                             AstrayOnlyWithoutDevice
    <3>5. CASE parse_cap /\ ~Refused(card.caps[k])
      <4>1. /\ pc = "parse_virtio_blk_caps" /\ k # 0 /\ k' = pci_cap_iter_next(k)
            /\ common_cfg' = CommonAt(card.caps[k]) /\ notify' = NotifyAt(card.caps[k])
            /\ UNCHANGED <<pc, disk_pci, present, bars>>
        BY <3>5 DEF parse_cap, dev
      <4>2. /\ k \in DOMAIN card.caps
            /\ card.caps \in Seq([cfg_type : CfgTypes, bar : Nat, offset : Nat])
        BY <3>1, <4>1, CardsConform DEF VarTypes
      <4>3. VarTypes' /\ Saved' /\ BarsComeBack'
        BY <3>1, <4>1, <4>2 DEF VarTypes, Saved, BarsComeBack, disk_pci, Bars,
                                pci_cap_iter_next, is_cap_valid
      <4>4. \A j \in DOMAIN card.caps : Parsed(j)' => j = k \/ Parsed(j)
        BY <3>1, <4>1, <4>2, SMTT(30) DEF Parsed, pci_cap_iter_next, is_cap_valid
      <4>5. ASSUME card.caps[k].cfg_type = "common" PROVE IsCommon'
        <5>1. CapOf("common") = card.caps[k] /\ common_cfg' = BaseOf("common")
          BY <3>2, <4>1, <4>2, <4>5 DEF CommonAt, BaseOf
        <5>2. HasBar(bars, card.caps[k].bar)
          BY <3>5, <4>5 DEF Refused
        <5>3. BaseOf("common") \in Nat
          <6> DEFINE b == card.caps[k].bar
          <6>1. bars[b] \in Nat /\ (Is64(bars[b]) => bars[b + 1] \in Nat)
            BY <5>2 DEF HasBar, VarTypes
          <6>2. Masked(bars[b]) \in Nat
            BY <6>1 DEF Masked
          <6>3. pci_get_bar(bars, b) \in Nat
            BY <6>1, <6>2, Widths DEF pci_get_bar
          <6> QED
            BY <5>1, <6>3 DEF BaseOf
        <5> QED
          BY <3>3, <4>1, <5>1, <5>3 DEF IsCommon
      <4>6. ASSUME card.caps[k].cfg_type = "notify" PROVE IsNotify'
        BY <3>2, <3>3, <4>1, <4>2, <4>6 DEF NotifyAt, BaseOf, IsNotify
      <4>7. ASSUME NEW j \in DOMAIN card.caps, Parsed(j)
            PROVE  /\ card.caps[j].cfg_type = "common" => IsCommon'
                   /\ card.caps[j].cfg_type = "notify" => IsNotify'
        <5>1. \A type \in {"common", "notify"} :
                card.caps[j].cfg_type = type /\ card.caps[k].cfg_type = type => j = k
          BY <3>1, <4>2, CardsConform
        <5> QED
          BY <3>3, <4>1, <4>5, <4>6, <4>7, <5>1
             DEF Parsing, CommonAt, NotifyAt, IsCommon, IsNotify
      <4>8. Parsing'
        BY <3>1, <4>1, <4>2, <4>4, <4>5, <4>6, <4>7 DEF Parsing
      <4> QED
        BY <4>1, <4>3, <4>8 DEF Going, BringUp, ReadyMeansReady, AstrayOnlyWithoutDevice
    <3>6. ASSUME pc = "parse_virtio_blk_caps", k = 0 PROVE IsCommon /\ IsNotify /\ present
      BY <3>1, <3>6, CardsConform DEF Parsing, Parsed
    <3>7. ASSUME UNCHANGED <<disk_pci, present, bars, k>>, pc # "init_pci_dev", pc' \in Steps,
                 pc \notin {"fill_disk_pci", "unhooked", "os"},
                 pc' \notin {"fill_disk_pci", "unhooked", "os"}
          PROVE  VarTypes' /\ Saved' /\ BarsComeBack'
      BY <3>1, <3>7 DEF VarTypes, Saved, BarsComeBack, disk_pci, Bars
    <3>8. CASE init_virtio_status /\ common_cfg # NULL /\ notify # NULL
      <4>1. /\ pc = "parse_virtio_blk_caps" /\ k = 0 /\ pc' = "negotiate_virtio_features"
            /\ mem_on' /\ status' = {"ACKNOWLEDGE", "DRIVER"}
            /\ UNCHANGED <<disk_pci, present, bars, common_cfg, notify, k>>
        BY <3>6, <3>8 DEF init_virtio_status, Fail, drv, IsCommon, FirstStatus, NULL
      <4> QED
        BY <3>3, <3>6, <3>7, <4>1 DEF Parsing, Going, IsCommon, IsNotify, BringUp, Steps,
                                      ReadyMeansReady, AstrayOnlyWithoutDevice
    <3>9. CASE negotiate_virtio_features /\ pc' = "init_virtio_blk_queue"
      <4>1. /\ pc = "negotiate_virtio_features" /\ status' = status \cup {"FEATURES_OK"}
            /\ UNCHANGED <<disk_pci, present, bars, mem_on, common_cfg, notify, k>>
        BY <3>9 DEF negotiate_virtio_features, Fail, drv
      <4> QED
        BY <3>3, <3>7, <3>9, <4>1 DEF Parsing, Going, IsCommon, IsNotify, BringUp, Steps,
                                      ReadyMeansReady, AstrayOnlyWithoutDevice
    <3>10. CASE init_virtio_blk_queue /\ pc' = "driver_ok"
      <4>1. /\ pc = "init_virtio_blk_queue" /\ queue' = <<"desc", "avail", "used">> /\ enabled'
            /\ notify_off' = notify + card.queue_notify_off * card.multiplier
            /\ UNCHANGED <<disk_pci, present, bars, mem_on, status, common_cfg, notify, k>>
        BY <3>10 DEF init_virtio_blk_queue, Fail
      <4>2. notify_off' = Doorbell
        BY <4>1 DEF Going, BringUp, IsNotify, Doorbell
      <4> QED
        BY <3>3, <3>7, <3>10, <4>1, <4>2 DEF Parsing, Going, IsCommon, IsNotify, BringUp, Steps,
                                        ReadyMeansReady, AstrayOnlyWithoutDevice
    <3>11. CASE driver_ok
      <4>1. /\ pc = "driver_ok" /\ pc' = "ready" /\ status' = status \cup {"DRIVER_OK"}
            /\ UNCHANGED <<disk_pci, present, bars, mem_on, queue, enabled, common_cfg, notify,
                           notify_off, k>>
        BY <3>11 DEF driver_ok, drv
      <4>2. status' = Running
        BY <4>1 DEF Going, Running
      <4> QED
        BY <3>3, <3>7, <4>1, <4>2 DEF Parsing, Going, IsCommon, IsNotify, BringUp, Steps,
                                      ReadyMeansReady, AstrayOnlyWithoutDevice
    <3>12. CASE Fail /\ \/ pc = "init_pci_dev" /\ ~present
                        \/ pc \in {"parse_virtio_blk_caps", "negotiate_virtio_features",
                                   "init_virtio_blk_queue"}
      <4>1. /\ pc' = IF common_cfg = Wild THEN "astray" ELSE "failed"
            /\ UNCHANGED <<disk_pci, present, bars, common_cfg, k>>
        BY <3>12 DEF Fail, drv
      <4>2. VarTypes' /\ Saved' /\ BarsComeBack'
        BY <3>1, <3>12, <4>1 DEF VarTypes, Steps, Saved, BarsComeBack, disk_pci, Bars
      <4>3. AstrayOnlyWithoutDevice'
        <5> SUFFICES ASSUME pc' = "astray", present'
                     PROVE  k # 0 /\ \A j \in 1 .. (k - 1) : card.caps[j].cfg_type # "common"
          BY <3>1, <4>1 DEF AstrayOnlyWithoutDevice
        <5>1. present /\ ~IsCommon /\ pc = "parse_virtio_blk_caps"
          BY <3>12, <4>1 DEF IsCommon, Wild, Going, BringUp
        <5>2. k # 0 /\ k \in DOMAIN card.caps
          BY <3>6, <5>1 DEF VarTypes
        <5>3. \A j \in 1 .. (k - 1) : Parsed(j)
          <6>1. card.caps \in Seq([cfg_type : CfgTypes, bar : Nat, offset : Nat])
            BY <3>1, CardsConform
          <6>2. \A j \in 1 .. (k - 1) : j \in DOMAIN card.caps /\ j < k
            BY <5>2, <6>1
          <6> QED
            BY <6>2 DEF Parsed
        <5> QED
          BY <5>1, <5>2, <5>3 DEF Parsing, Parsed
      <4> QED
        BY <4>1, <4>2, <4>3 DEF Parsing, Going, BringUp, ReadyMeansReady
    <3> QED
      BY <2>4, <3>4, <3>5, <3>8, <3>9, <3>10, <3>11, <3>12
         DEF init_virtio_blk_dev, init_pci_dev, parse_cap, init_virtio_status,
             negotiate_virtio_features, init_virtio_blk_queue, VarTypes
  <2> QED
    BY <2>1, <2>2, <2>3, <2>4 DEF Next
<1> QED
  BY <1>1, <1>2, PTL DEF Spec

(* After any number of sleeps the registers of the disk are those the       *)
(* firmware gave it, but for upper halves with low bits (fill_disk_pci,     *)
(* pci_get_bar, init_virtio_blk_dev).                                       *)
THEOREM BarsReturn == Spec => []BarsComeBack
<1>1. IInv => BarsComeBack
  BY DEF IInv
<1> QED
  BY <1>1, Invariant, PTL

(* init_virtio_blk_dev succeeds only with a device that runs the core's     *)
(* queue, at the addresses the driver uses.                                 *)
THEOREM ReadyIsReady == Spec => []ReadyMeansReady
<1>1. IInv => ReadyMeansReady
  BY DEF IInv
<1> QED
  BY <1>1, Invariant, PTL

(* The cleanup of init_virtio_blk_dev writes through an address it was      *)
(* never given only when the disk has not shown its common configuration.   *)
THEOREM AstrayIsRare == Spec => []AstrayOnlyWithoutDevice
<1>1. IInv => AstrayOnlyWithoutDevice
  BY DEF IInv
<1> QED
  BY <1>1, Invariant, PTL

(* Reset, features, queue, DRIVER_OK: the order of the virtio specification, *)
(* whatever the device was doing and wherever a bring-up failed before.     *)
THEOREM InOrder == Spec => BringUpInOrder
<1> DEFINE Ordered ==
      pc # "init_pci_dev" /\ pc' # "init_pci_dev" =>
        /\ status' # status /\ "FEATURES_OK" \in status' => "DRIVER" \in status
        /\ queue' \notin {queue, None} => "FEATURES_OK" \in status /\ "DRIVER_OK" \notin status
        /\ "DRIVER_OK" \in status' \ status => enabled /\ queue # Kernel
<1>1. IInv /\ [Next]_vars => [Ordered]_vars
  <2> SUFFICES ASSUME IInv, Next, pc # "init_pci_dev", pc' # "init_pci_dev" PROVE Ordered
    OBVIOUS
  <2>1. CASE fill_disk_pci
    BY <2>1 DEF fill_disk_pci, dev, virtio_pci_common_cfg
  <2>2. CASE Fail
    BY <2>2 DEF Fail
  <2>3. CASE parse_cap /\ ~Fail
    BY <2>3 DEF parse_cap, dev, virtio_pci_common_cfg
  <2>4. CASE init_virtio_status /\ ~Fail
    BY <2>4 DEF init_virtio_status, FirstStatus, None
  <2>5. CASE negotiate_virtio_features /\ ~Fail
    BY <2>5 DEF negotiate_virtio_features, IInv, Going
  <2>6. CASE init_virtio_blk_queue /\ ~Fail
    BY <2>6 DEF init_virtio_blk_queue, IInv, Going
  <2>7. CASE driver_ok
    <3>1. enabled /\ Len(queue) = 3 /\ UNCHANGED queue /\ "DRIVER" \in status
      BY <2>7 DEF driver_ok, IInv, Going
    <3>2. queue # Kernel
      BY <3>1 DEF Kernel
    <3> QED
      BY <3>1, <3>2
  <2> QED
    BY <2>1, <2>2, <2>3, <2>4, <2>5, <2>6, <2>7 DEF Next, Sleep, init_virtio_blk_dev, init_pci_dev
<1>2. Spec => [][Ordered]_vars
  BY <1>1, Invariant, PTL DEF Spec
<1> QED
  BY <1>2 DEF BringUpInOrder

(* A set of addresses has one that the enumeration reaches first: there is  *)
(* a least number in every set of numbers, for the bus, the device and the  *)
(* function in turn.                                                        *)
LEMMA FirstAddress ==
  ASSUME NEW S, S \subseteq Addresses, S # {}
  PROVE  \E a \in S : \A b \in S \ {a} : Before(a, b)
<1>1. ASSUME NEW T, T \subseteq Nat, T # {} PROVE \E x \in T : \A y \in T : x <= y
  <2> DEFINE R == OpToRel(<, Nat)
  <2>1. IsWellFoundedOn(R, Nat)
    BY NatLessThanWellFounded
  <2>2. \E x \in T : \A y \in T : ~(<<y, x>> \in R)
    <3> HIDE DEF R
    <3> QED
      BY <1>1, <2>1, WFMin, Zenon
  <2>3. ASSUME NEW x \in T, NEW y \in T, ~(<<y, x>> \in R) PROVE x <= y
    <3>1. x \in Nat /\ y \in Nat
      BY <1>1
    <3>2. ~(y < x)
      BY <2>3, <3>1, Zenon DEF OpToRel
    <3> QED
      BY <3>1, <3>2
  <2> QED
    BY <2>2, <2>3
<1>2. \A a \in S : a[1] \in Nat /\ a[2] \in Nat /\ a[3] \in Nat /\ a = <<a[1], a[2], a[3]>>
  BY DEF Addresses
<1>3. PICK a1 \in S : \A b \in S : a1[1] <= b[1]
  <2> DEFINE T == {a[1] : a \in S}
  <2>1. T \subseteq Nat /\ T # {}
    BY <1>2
  <2>2. \E x \in T : \A y \in T : x <= y
    <3> HIDE DEF T
    <3> QED
      BY <1>1, <2>1
  <2> QED
    BY <2>2
<1> DEFINE S2 == {a \in S : a[1] = a1[1]}
<1>4. PICK a2 \in S2 : \A b \in S2 : a2[2] <= b[2]
  <2> DEFINE T == {a[2] : a \in S2}
  <2>1. T \subseteq Nat /\ T # {}
    BY <1>2
  <2>2. \E x \in T : \A y \in T : x <= y
    <3> HIDE DEF T
    <3> QED
      BY <1>1, <2>1
  <2> QED
    BY <2>2
<1> DEFINE S3 == {a \in S2 : a[2] = a2[2]}
<1>5. PICK a3 \in S3 : \A b \in S3 : a3[3] <= b[3]
  <2> DEFINE T == {a[3] : a \in S3}
  <2>1. T \subseteq Nat /\ T # {}
    BY <1>2
  <2>2. \E x \in T : \A y \in T : x <= y
    <3> HIDE DEF T
    <3> QED
      BY <1>1, <2>1
  <2> QED
    BY <2>2
<1>6. ASSUME NEW b \in S \ {a3} PROVE Before(a3, b)
  <2>1. a3 \in S /\ a3[1] = a1[1] /\ a3[2] = a2[2]
    OBVIOUS
  <2>2. CASE b[1] # a1[1]
    BY <1>2, <1>3, <1>6, <2>1, <2>2 DEF Before
  <2>3. CASE b[1] = a1[1] /\ b[2] # a2[2]
    BY <1>2, <1>4, <1>6, <2>1, <2>3 DEF Before
  <2>4. CASE b[1] = a1[1] /\ b[2] = a2[2]
    <3>1. a3[3] # b[3]
      BY <1>2, <1>6, <2>1, <2>4
    <3> QED
      BY <1>2, <1>5, <1>6, <2>1, <2>4, <3>1 DEF Before
  <2> QED
    BY <2>2, <2>3, <2>4
<1> QED
  BY <1>6

(* lookup_pci_dev finds the disk on every machine without gaps among the    *)
(* functions of a device, and of several disks the one enumerated first.    *)
THEOREM DiskFound == Spec => []DiskIsFound
<1> DEFINE Located == pc # "fill_disk_pci" => addr = lookup_pci_dev(card.functions)
<1>1. Init => Located
  BY DEF Init
<1>2. ASSUME Located, [Next]_vars PROVE Located'
  <2>1. CASE fill_disk_pci
    BY <2>1 DEF fill_disk_pci
  <2>2. CASE UNCHANGED vars
    BY <1>2, <2>2 DEF vars, disk_pci
  <2>3. CASE Sleep \/ init_virtio_blk_dev
    <3>1. pc # "fill_disk_pci" /\ UNCHANGED <<card, disk_pci>>
      BY <2>3 DEF Sleep, init_virtio_blk_dev, init_pci_dev, parse_cap, init_virtio_status,
                  negotiate_virtio_features, init_virtio_blk_queue, driver_ok, Fail
    <3> QED
      BY <1>2, <3>1 DEF disk_pci
  <2> QED
    BY <1>2, <2>1, <2>2, <2>3 DEF Next
<1>3. ASSUME IInv, Located PROVE DiskIsFound
  <2> DEFINE disks == {a \in DOMAIN card.functions : card.functions[a] = "disk"}
             found == {a \in DOMAIN card.functions :
                         Visited(card.functions, a) /\ card.functions[a] = "disk"}
  <2> SUFFICES ASSUME pc # "fill_disk_pci", disks # {},
                      \A a \in DOMAIN card.functions : \A f \in 0 .. a[3] :
                        <<a[1], a[2], f>> \in DOMAIN card.functions
               PROVE  addr \in disks /\ \A a \in disks \ {addr} : Before(addr, a)
    BY DEF DiskIsFound
  <2>1. found = disks
    BY DEF Visited
  <2>2. disks \subseteq Addresses
    BY <1>3, CardsConform DEF IInv, VarTypes
  <2>3. \E a \in disks : \A b \in disks \ {a} : Before(a, b)
    <3> HIDE DEF disks
    <3> QED
      BY <2>2, FirstAddress
  <2>4. addr = CHOOSE a \in disks : \A b \in disks \ {a} : Before(a, b)
    <3> HIDE DEF disks
    <3>1. addr = IF found = {} THEN NotFound
                 ELSE CHOOSE a \in found : \A b \in found \ {a} : Before(a, b)
      BY <1>3 DEF lookup_pci_dev
    <3> QED
      BY <2>1, <3>1
  <2> QED
    <3> HIDE DEF disks
    <3> QED
      BY <2>3, <2>4
<1>4. Spec => []Located
  BY <1>1, <1>2, PTL DEF Spec
<1> QED
  BY <1>3, <1>4, Invariant, PTL
===============================================================================
