-------------------------------- MODULE BootProofs --------------------------------
(***************************************************************************)
(* What the EFI application and the entry of the core guarantee on every   *)
(* machine: theorems about EntrySpec.                                      *)
(***************************************************************************)
EXTENDS CoreEntry, DataLemmas

(* The steps, and those that come after each step of efi_main. *)
Unhooking         == {"unhook", "unhook get_memory_map", "unhook set_variable"}
Kernel            == {"boot", "kernel", "virtual"}
Paged             == {"load_lm_gdt", "core_main"}
Mapped            == {"enable_pae", "enable_lm", "enable_paging"} \cup Paged
InCore            == {"core_wakeup", "begin_pm", "pm_stub", "setup_pml4"} \cup Mapped
AfterAreas        == Kernel \cup InCore
AfterDisk         == {"fill_ram_areas"} \cup AfterAreas
AfterBody         == {"fill_disk_pci"} \cup AfterDisk
AfterHead         == {"append_body"} \cup AfterBody
AfterPts          == {"append_head"} \cup AfterHead
AfterEvent        == {"find_pts"} \cup AfterPts
AfterGetMemoryMap == {"virtual_address_map_event"} \cup AfterEvent
AfterSetVariable  == {"get_memory_map"} \cup AfterGetMemoryMap
AfterTables       == {"set_variable"} \cup AfterSetVariable
Steps             == {"load_core", "load_rm", "load_pm", "find_acpi_tables"} \cup AfterTables \cup Unhooking

TypeInv ==
  /\ machine \in Machines
  /\ pc \in Steps
  /\ err \in BOOLEAN
  /\ is_dsdt_patched \in BOOLEAN
  /\ DOMAIN g = DOMAIN NoTables
  /\ type \in [Pages -> Types]
  /\ hook \in [Hooks -> Pages \cup {0}]
  /\ service \in [Services -> Pages]

(* A failed efi_main only unhooks, and lets a kernel boot. *)
ErrInv ==
  /\ err => pc \in Unhooking \cup Kernel
  /\ pc \in Unhooking => err

(* The loaded hooks have pages of their own, which their services enter. *)
HookInv ==
  /\ type[FirmwarePage] = "runtime_services"
  /\ \A h \in Hooks : hook[h] # 0 => hook[h] # FirmwarePage /\ type[hook[h]] = "runtime_services"
  /\ \A h, k \in Hooks : h # k /\ hook[h] # 0 => hook[h] # hook[k]
  /\ \A s \in Services : service[s] = IF hook[HookOf[s]] = 0 THEN FirmwarePage ELSE hook[HookOf[s]]

(* Which hooks are loaded at which step. *)
LoadedInv ==
  /\ ~err => /\ pc \in AfterSetVariable => hook["set_variable"] # 0
             /\ pc \in AfterGetMemoryMap => hook["get_memory_map"] # 0
             /\ pc \in AfterEvent => hook["virtual_address_map_event"] # 0
             /\ events = IF pc \in AfterEvent THEN {hook["virtual_address_map_event"]} ELSE {}
  /\ err => /\ pc # "unhook" => hook["virtual_address_map_event"] = 0
            /\ pc \in {"unhook set_variable"} \cup Kernel => hook["get_memory_map"] = 0
            /\ pc \in Kernel => hook["set_variable"] = 0

(* The parts of the core that are loaded. *)
LoadedParts ==
  CASE pc = "load_core" -> {}
    [] pc = "load_rm"   -> PagesOf(Core)
    [] pc = "load_pm"   -> PagesOf(Core) \cup PagesOf(Rm)
    [] OTHER            -> PartPages

(* The copy of the DSDT, apart from the core; and what is reserved: the    *)
(* firmware's memory as it was, the core, and the copy.                    *)
Copy == IF is_dsdt_patched THEN Run(g.dsdt, DsdtPages) ELSE {}

ReservedInv ==
  /\ Copy \subseteq Pages
  /\ \A p \in Copy : type[p] = "reserved" /\ p \notin PartPages
  /\ \A p \in Pages : machine.memory[p] \in {"reserved", "nvs"} => type[p] = machine.memory[p]
  /\ ~err => (is_dsdt_patched <=> pc \in AfterHead)
  /\ ~err => \A p \in Pages :
       type[p] = "reserved" /\ machine.memory[p] # "reserved" <=> p \in LoadedParts \cup Copy

MemoryInv == TypeInv /\ ErrInv /\ HookInv /\ LoadedInv /\ ReservedInv

-------------------------------------------------------------------------------
(* What efi_main finds in the machine, and a copy of a DSDT's record. *)
Found == find_acpi_tables_in(machine.config, machine.tables)
WholeDsdt(t) == {"aml", "checksum"} \subseteq DOMAIN t /\ t.checksum = t.aml

FoundInv ==
  /\ DOMAIN machine.tables \subseteq DOMAIN tables
  /\ g = NoTables => tables = machine.tables /\ ~is_dsdt_patched
  /\ g # NoTables =>
       /\ Found # NoTables
       /\ g.rsdp = Found.rsdp /\ g.fadt = Found.fadt /\ g.facs = Found.facs
  /\ ~err => (g # NoTables <=> pc \in AfterTables)

TablesInv ==
  g # NoTables =>
    /\ tables[g.fadt] \in acpi_fadt(Nat)
    /\ {g.dsdt, KernelDsdt} \subseteq DOMAIN tables /\ {g.dsdt, KernelDsdt} \subseteq Nat \ {0}
    /\ WholeDsdt(tables[g.dsdt]) /\ WholeDsdt(tables[KernelDsdt])
    /\ g.dsdt # g.fadt
    /\ is_dsdt_patched =>
         /\ tables[g.fadt].dsdt = tables[g.fadt].x_dsdt
         /\ tables[g.fadt].checksum = <<tables[g.fadt].dsdt, tables[g.fadt].x_dsdt>>
         /\ Run(KernelDsdt, DsdtPages) \subseteq Pages
         /\ \A p \in Run(KernelDsdt, DsdtPages) : type[p] = "reserved"
    /\ ~err => g.dsdt = KernelDsdt
    /\ ~err /\ pc \in AfterPts => pts.facs = g.facs

(* What create_or_hook_pts and append_method have made of the machine's     *)
(* declarations so far.                                                    *)
Patched(methods) ==
  LET aml == Encode(methods)
  IN  IF find_method(aml, "_PTS") THEN rename_method(aml, "_PTS", "SPTS") ELSE aml

AmlInv ==
  ~err =>
    /\ pc \in AfterTables \ AfterPts => Block = Encode(machine.methods)
    /\ pc = "append_head" => Block = Patched(machine.methods)
    /\ pc = "append_body" => Block = Patched(machine.methods) \o HookHead
    /\ pc \in AfterBody  => Block = Patched(machine.methods) \o HookHead \o HookBody
    /\ pc \in AfterPts   => (pts.calls_spts <=> find_method(Encode(machine.methods), "_PTS"))

Area == [start : Nat, size : Nat \ {0}]

(* A table of areas in the pages `pages`. *)
GoodAreas(areas, pages) ==
  /\ areas \in Seq(Area) /\ AreDisjoint(areas)
  /\ Len(areas) <= MaxRamAreas
  /\ PagesIn(areas) \subseteq pages

(* The header that core_main will find. *)
HeaderInv ==
  /\ DOMAIN header = {"rsdp", "facs", "ram_areas"}
  /\ GoodAreas(header.ram_areas, Pages)
  /\ ~err /\ pc \in AfterDisk => header.rsdp = g.rsdp /\ header.facs = g.facs
  /\ ~err /\ pc \in AfterAreas =>
       \A p \in PagesIn(header.ram_areas) : type[p] \in UsableTypes

(* What the kernel keeps mapped after a boot that succeeded. *)
RuntimeInv ==
  /\ ~err /\ pc \in {"kernel", "virtual"} =>
       {g.facs, Core.start, FirmwarePage, hook["set_variable"]} \subseteq runtime
  /\ ~err /\ pc = "virtual" => moved = ToSet(Pointers)

-------------------------------------------------------------------------------
(* The processor at each step in the core. *)
Woken     == [Cpu EXCEPT !.at = RmText]
Protected == [Woken EXCEPT !.gdt = RmText, !.pe = TRUE, !.cs = "code32"]
InPm      == [Protected EXCEPT !.at = PmText]
OnStack   == [InPm EXCEPT !.stack = PmStack]
WithCr3   == [OnStack EXCEPT !.cr3 = PML4]
WithPae   == [WithCr3 EXCEPT !.pae = TRUE]
WithLme   == [WithPae EXCEPT !.lme = TRUE]
WithPg    == [WithLme EXCEPT !.pg = TRUE]
InMain    == [WithPg EXCEPT !.gdt = PmText, !.cs = "code64", !.at = CORE_MAIN_PHYS_ADDR]

CpuInv ==
  /\ pc \notin InCore       => cpu = Cpu
  /\ pc = "core_wakeup"     => cpu = Woken
  /\ pc = "begin_pm"        => cpu = Protected
  /\ pc = "pm_stub"         => cpu = InPm
  /\ pc = "setup_pml4"      => cpu = OnStack
  /\ pc = "enable_pae"      => cpu = WithCr3
  /\ pc = "enable_lm"       => cpu = WithPae
  /\ pc = "enable_paging"   => cpu = WithLme
  /\ pc = "load_lm_gdt"     => cpu = WithPg
  /\ pc = "core_main"       => cpu = InMain

(* The pages written: an unknown one, the stack, and the page tables. *)
WrittenInv ==
  written \subseteq {RmText, RmText + 1, PmStack} \cup PML4 .. PML4 + PT_ENTRIES_NUM

Indexes == 0 .. PT_ENTRIES_NUM - 1

(* The entries that the loops have written so far. *)
PagingInv ==
  /\ idx \in [pdpt_idx : 0 .. PT_ENTRIES_NUM, i : 0 .. PT_ENTRIES_NUM]
  /\ pc \in Mapped => idx.pdpt_idx = PT_ENTRIES_NUM
  /\ \A k \in Indexes : k < idx.pdpt_idx =>
       <<PML4, k>> \in DOMAIN pt /\ pt[<<PML4, k>>] = [addr |-> PML4 + k + 1, huge |-> FALSE]
  /\ \A k, j \in Indexes : k < idx.pdpt_idx \/ (k = idx.pdpt_idx /\ j < idx.i) =>
       /\ <<PML4 + k + 1, j>> \in DOMAIN pt
       /\ pt[<<PML4 + k + 1, j>>] = [addr |-> k * PT_ENTRIES_NUM + j, huge |-> TRUE]

EntryInv == CpuInv /\ WrittenInv /\ PagingInv

-------------------------------------------------------------------------------
(* The constants. *)

LEMMA Sizes ==
  /\ PageCount \in Nat /\ LowPages \in 0 .. PageCount /\ DsdtPages \in Nat \ {0}
  /\ \A part \in {Rm, Pm, Core} : part.start \in Nat /\ part.size \in Nat
  /\ FirmwarePage \in Pages \ PartPages
  /\ PartPages \subseteq Pages
PROOF
<1>1. \A part \in {Rm, Pm, Core} : part \in [start : Nat, size : Nat]
  BY MachinesAreMachines
<1> QED
  BY <1>1, MachinesAreMachines

LEMMA Apart ==
  /\ PagesOf(Rm) \cap PagesOf(Pm) = {}
  /\ PagesOf(Rm) \cap PagesOf(Core) = {}
  /\ PagesOf(Pm) \cap PagesOf(Core) = {}
PROOF
<1> DEFINE parts == <<Rm, Pm, Core>>
<1>1. AreDisjoint(parts)
  BY MachinesAreMachines
<1>2. DOMAIN parts = 1 .. 3 /\ parts[1] = Rm /\ parts[2] = Pm /\ parts[3] = Core
  OBVIOUS
<1> HIDE DEF parts
<1>3. \A j, k \in 1 .. 3 : j # k => PagesOf(parts[j]) \cap PagesOf(parts[k]) = {}
  BY <1>1, <1>2 DEF AreDisjoint
<1> QED
  BY <1>2, <1>3

LEMMA OwnRun ==
  ASSUME NEW part \in {Rm, Pm, Core}
  PROVE  Run(part.start, part.size) = PagesOf(part) /\ PagesOf(part) \subseteq PartPages
PROOF
<1>1. Run(part.start, part.size) = PagesOf(part)
  BY Sizes DEF Run, PagesOf, EndOf
<1>2. PagesOf(part) \subseteq PartPages
  <2>1. part = Rm \/ part = Pm \/ part = Core
    OBVIOUS
  <2> QED
    BY <2>1 DEF PartPages
<1> QED
  BY <1>1, <1>2

LEMMA AMachine ==
  ASSUME NEW m \in Machines
  PROVE  /\ m.memory \in [Pages -> Types] /\ m.memory[FirmwarePage] = "runtime_services"
         /\ \A a \in DOMAIN m.tables : a \in Nat /\ a > PageCount
BY MachinesAreMachines

(* What is found in a machine is there. *)
LEMMA AFind ==
  ASSUME NEW m \in Machines, find_acpi_tables_in(m.config, m.tables) # NoTables
  PROVE  LET found == find_acpi_tables_in(m.config, m.tables)
         IN  /\ found.facs \in 1 .. LowPages /\ m.memory[found.facs] = "nvs"
             /\ {found.fadt, found.dsdt} \subseteq DOMAIN m.tables
             /\ m.tables[found.fadt] \in acpi_fadt(Nat)
             /\ m.tables[found.dsdt] \in acpi_dsdt(Bytes(Names))
             /\ m.tables[found.dsdt].aml = Encode(m.methods)
             /\ m.tables[found.dsdt].checksum = m.tables[found.dsdt].aml
BY MachinesAreMachines

-------------------------------------------------------------------------------
(* The memory and the hooks. *)

(* A step of the core leaves all that the EFI application set up. *)
LEMMA CoreSteps ==
  ASSUME EnterCore
  PROVE  /\ pc = "virtual" \/ pc \in InCore
         /\ pc' \in InCore
         /\ UNCHANGED <<machine, err, type, acpi, hook, service, events, header, runtime, moved>>
         /\ pc = "virtual" => ~err
BY DEF EnterCore, Suspend, core_wakeup, begin_pm, pm_stub, setup_pdpt, setup_pml4, load_cr3, enable_pae,
       enable_lm, enable_paging, load_lm_gdt, At, InCore, Mapped, Paged

LEMMA HookNames == \A s \in Services : HookOf[s] \in Hooks
BY DEF Services, HookOf, Hooks

(* 0 is not a page. *)
LEMMA NoPage == 0 \notin Pages /\ FirmwarePage # 0
BY Sizes DEF Pages

LEMMA MemoryInit == EntryInit => MemoryInv
PROOF
<1> SUFFICES ASSUME EntryInit
             PROVE  MemoryInv
  OBVIOUS
<1> USE DEF EntryInit, Init
<1>1. machine \in Machines /\ type \in [Pages -> Types] /\ type[FirmwarePage] = "runtime_services"
  BY AMachine
<1>2. hook = [h \in Hooks |-> 0] /\ \A h \in Hooks : hook[h] = 0
  OBVIOUS
<1>3. service = [s \in Services |-> FirmwarePage] /\ FirmwarePage \in Pages
  BY Sizes
<1>5. TypeInv
  BY <1>1, <1>2, <1>3 DEF TypeInv, Steps
<1>6. ErrInv
  BY DEF ErrInv, Unhooking
<1>7. HookInv
  BY <1>1, <1>2, <1>3, HookNames DEF HookInv
<1>8. LoadedInv
  BY DEF LoadedInv, AfterSetVariable, AfterGetMemoryMap, AfterEvent, AfterPts, AfterHead, AfterBody, AfterDisk,
         AfterAreas, Kernel, InCore, Mapped, Paged
<1>9. pc \notin AfterHead
  BY DEF AfterHead, AfterBody, AfterDisk, AfterAreas, Kernel, InCore, Mapped, Paged
<1>10. ReservedInv
  BY <1>1, <1>9 DEF ReservedInv, Copy, LoadedParts
<1> QED
  BY <1>5, <1>6, <1>7, <1>8, <1>10 DEF MemoryInv

(* Which steps follow which. *)
LEMMA StepSets ==
  /\ Unhooking \cup Kernel \cup AfterTables \subseteq Steps
  /\ InCore \subseteq AfterAreas /\ Kernel \subseteq AfterAreas /\ AfterAreas \subseteq AfterDisk
  /\ AfterDisk \subseteq AfterBody /\ AfterBody \subseteq AfterHead /\ AfterHead \subseteq AfterPts
  /\ AfterPts \subseteq AfterEvent /\ AfterEvent \subseteq AfterGetMemoryMap
  /\ AfterGetMemoryMap \subseteq AfterSetVariable /\ AfterSetVariable \subseteq AfterTables
  /\ AfterTables \cap Unhooking = {} /\ InCore \cap Kernel = {}
  /\ \A s \in {"load_core", "load_rm", "load_pm", "find_acpi_tables"} : s \notin AfterTables \cup Unhooking
BY DEF Steps, Unhooking, AfterTables, AfterSetVariable, AfterGetMemoryMap, AfterEvent, AfterPts, AfterHead,
       AfterBody, AfterDisk, AfterAreas, Kernel, InCore, Mapped, Paged

(* A step that leaves the memory alone. *)
LEMMA QuietStep ==
  ASSUME MemoryInv, UNCHANGED <<machine, type, hook, service, events, is_dsdt_patched>>,
         Copy' = Copy, ~err' => LoadedParts' = LoadedParts,
         DOMAIN g' = DOMAIN NoTables, pc' \in Steps, err' \in BOOLEAN, ErrInv',
         err => err',
         ~err' => /\ pc \in AfterSetVariable <=> pc' \in AfterSetVariable
                  /\ pc \in AfterGetMemoryMap <=> pc' \in AfterGetMemoryMap
                  /\ pc \in AfterEvent <=> pc' \in AfterEvent
                  /\ pc \in AfterHead <=> pc' \in AfterHead,
         err' => /\ pc' # "unhook" => err /\ pc # "unhook"
                 /\ pc' = "unhook set_variable" => pc = "unhook set_variable"
                 /\ pc' \in Kernel => pc \in Kernel
  PROVE  MemoryInv'
PROOF
<1> USE DEF MemoryInv
<1>1. TypeInv'
  BY DEF TypeInv
<1>2. HookInv'
  BY DEF HookInv
<1>3. LoadedInv'
  <2>1. CASE err'
    BY <2>1 DEF LoadedInv, Kernel
  <2>2. CASE ~err'
    BY <2>2 DEF LoadedInv
  <2> QED
    BY <2>1, <2>2
<1>4. ReservedInv'
  BY DEF ReservedInv
<1> QED
  BY <1>1, <1>2, <1>3, <1>4

(* A step of efi_main that fails leaves the memory alone, or keeps what it *)
(* allocated.                                                              *)
LEMMA FailStep ==
  ASSUME MemoryInv, Fail, UNCHANGED <<machine, type, hook, service, events, is_dsdt_patched>>, Copy' = Copy,
         DOMAIN g' = DOMAIN NoTables
  PROVE  MemoryInv'
PROOF
<1>1. pc' \in Steps /\ err' = TRUE /\ ErrInv' /\ pc' \notin Kernel
  BY StepSets DEF Fail, ErrInv, Unhooking, Kernel
<1> QED
  BY <1>1, QuietStep DEF Fail

LEMMA Allocated ==
  ASSUME MemoryInv, NEW p, NEW n, NEW t \in Types, Allocate(p, n, t)
  PROVE  /\ type' \in [Pages -> Types]
         /\ \A q \in Run(p, n) : q \in Pages /\ type[q] = "conventional" /\ type'[q] = t
         /\ \A q \in Pages \ Run(p, n) : type'[q] = type[q]
BY DEF MemoryInv, TypeInv, Allocate, FreePages

LEMMA LoadPartStep ==
  ASSUME MemoryInv, NEW step \in {"load_core", "load_rm", "load_pm"}, NEW part \in {Rm, Pm, Core},
         NEW next \in {"load_rm", "load_pm", "find_acpi_tables"}, LoadPart(step, part, next),
         pc' = next => LoadedParts' = LoadedParts \cup PagesOf(part)
  PROVE  MemoryInv'
PROOF
<1>1. ASSUME Fail, UNCHANGED type
      PROVE  MemoryInv'
  BY <1>1, FailStep DEF LoadPart, acpi, Copy, MemoryInv, TypeInv
<1>2. ASSUME Allocate(part.start, part.size, "reserved"), Goto(next)
      PROVE  MemoryInv'
  <2> USE DEF MemoryInv
  <2>1. UNCHANGED <<machine, g, is_dsdt_patched, hook, service, events, err>> /\ pc = step /\ pc' = next
    BY <1>2 DEF LoadPart, acpi, Goto
  <2>2. /\ type' \in [Pages -> Types]
        /\ \A q \in PagesOf(part) : q \in Pages /\ type[q] = "conventional" /\ type'[q] = "reserved"
        /\ \A q \in Pages \ PagesOf(part) : type'[q] = type[q]
    BY <1>2, Allocated, OwnRun DEF Types
  <2>3. ~err /\ ~err'
    BY <2>1, StepSets DEF ErrInv, Unhooking, Kernel
  <2>4. TypeInv' /\ ErrInv'
    BY <2>1, <2>2, <2>3 DEF TypeInv, ErrInv, Steps, Unhooking, Kernel
  <2>5. HookInv'
    BY <2>1, <2>2, Sizes, FirmwarePage \notin PagesOf(part) DEF HookInv, TypeInv
  <2>6. pc \notin AfterTables /\ pc' \notin AfterTables
    BY <2>1, StepSets
  <2>7. LoadedInv'
    BY <2>1, <2>3, <2>6, StepSets DEF LoadedInv
  <2>8. Copy' = Copy /\ Copy = {}
    BY <2>1, <2>3, <2>6, StepSets DEF ReservedInv, Copy
  <2>9. ReservedInv'
    <3>1. \A p \in Pages : machine.memory[p] \in {"reserved", "nvs"} => p \notin PagesOf(part)
      BY <2>2 DEF ReservedInv
    <3>2. \A p \in Pages : machine'.memory[p] \in {"reserved", "nvs"} => type'[p] = machine'.memory[p]
      BY <2>1, <2>2, <3>1 DEF ReservedInv
    <3>3. \A p \in Pages : type'[p] = "reserved" /\ machine'.memory[p] # "reserved" <=> p \in LoadedParts'
      <4>1. \A p \in Pages : type[p] = "reserved" /\ machine.memory[p] # "reserved" <=> p \in LoadedParts
        BY <2>3, <2>8 DEF ReservedInv
      <4> QED
        BY <2>1, <2>2, <3>1, <4>1
    <3> QED
      BY <2>1, <2>3, <2>6, <2>8, <3>2, <3>3, StepSets DEF ReservedInv
  <2> QED
    BY <2>4, <2>5, <2>7, <2>9
<1> QED
  BY <1>1, <1>2 DEF LoadPart

(* A hook that is loaded into a page of its own. *)
LEMMA Hooked ==
  ASSUME MemoryInv, ~err, NEW p \in Pages, NEW h \in Hooks, Allocate(p, 1, "runtime_services"),
         hook' = [hook EXCEPT ![h] = p], UNCHANGED <<machine, g, is_dsdt_patched>>
  PROVE  /\ type' \in [Pages -> Types] /\ hook' \in [Hooks -> Pages \cup {0}]
         /\ type[p] = "conventional" /\ type'[p] = "runtime_services"
         /\ \A q \in Pages \ {p} : type'[q] = type[q]
         /\ p # FirmwarePage /\ p # 0 /\ type'[FirmwarePage] = "runtime_services"
         /\ \A k \in Hooks : hook'[k] = IF k = h THEN p ELSE hook[k]
         /\ \A k \in Hooks : hook[k] # p
         /\ \A k \in Hooks : hook'[k] # 0 => hook'[k] # FirmwarePage /\ type'[hook'[k]] = "runtime_services"
         /\ \A j, k \in Hooks : j # k /\ hook'[j] # 0 => hook'[j] # hook'[k]
         /\ Copy' = Copy
         /\ Copy \subseteq Pages
         /\ \A q \in Copy : type'[q] = "reserved" /\ q \notin PartPages
         /\ \A q \in Pages : machine'.memory[q] \in {"reserved", "nvs"} => type'[q] = machine'.memory[q]
         /\ \A q \in Pages :
              type'[q] = "reserved" /\ machine'.memory[q] # "reserved" <=> q \in LoadedParts \cup Copy
PROOF
<1> USE DEF MemoryInv
<1>1. Run(p, 1) = {p} /\ p # 0
  BY Sizes DEF Run, Pages
<1>2. "runtime_services" \in Types
  BY DEF Types, UsableTypes
<1>3. /\ type' \in [Pages -> Types]
      /\ type[p] = "conventional" /\ type'[p] = "runtime_services"
      /\ \A q \in Pages \ {p} : type'[q] = type[q]
  BY <1>1, <1>2, Allocated
<1>4. hook' \in [Hooks -> Pages \cup {0}] /\ \A k \in Hooks : hook'[k] = IF k = h THEN p ELSE hook[k]
  BY DEF TypeInv
<1>5. \A k \in Hooks : hook[k] # p
  BY <1>1, <1>3 DEF HookInv
<1>6. p # FirmwarePage /\ type'[FirmwarePage] = "runtime_services"
  BY <1>3, Sizes DEF HookInv
<1>7. \A k \in Hooks : hook'[k] # 0 => hook'[k] # FirmwarePage /\ type'[hook'[k]] = "runtime_services"
  BY <1>3, <1>4, <1>5, <1>6 DEF HookInv, TypeInv
<1>8. \A j, k \in Hooks : j # k /\ hook'[j] # 0 => hook'[j] # hook'[k]
  BY <1>4, <1>5 DEF HookInv
<1>9. Copy' = Copy
  BY DEF Copy
<1>10. Copy \subseteq Pages /\ \A q \in Copy : type'[q] = "reserved" /\ q \notin PartPages
  BY <1>3 DEF ReservedInv
<1>11. \A q \in Pages : machine'.memory[q] \in {"reserved", "nvs"} => type'[q] = machine'.memory[q]
  BY <1>3 DEF ReservedInv
<1>12. \A q \in Pages : type'[q] = "reserved" /\ machine'.memory[q] # "reserved" <=> q \in LoadedParts \cup Copy
  BY <1>3 DEF ReservedInv
<1> QED
  BY <1>1, <1>3, <1>4, <1>5, <1>6, <1>7, <1>8, <1>9, <1>10, <1>11, <1>12

LEMMA HookServiceStep ==
  ASSUME MemoryInv,
         \/ hook_service("SetVariable", "get_memory_map")
         \/ hook_service("GetMemoryMap", "virtual_address_map_event")
  PROVE  MemoryInv'
PROOF
<1>1. PICK s \in Services, next \in {"get_memory_map", "virtual_address_map_event"} :
        /\ hook_service(s, next)
        /\ s = "SetVariable" => next = "get_memory_map"
        /\ s = "GetMemoryMap" => next = "virtual_address_map_event"
  BY DEF Services
<1>2. HookOf[s] \in Hooks /\ pc = HookOf[s] /\ \A k \in Services : HookOf[k] = HookOf[s] => k = s
  BY <1>1 DEF HookOf, Services, Hooks, hook_service
<1>. pc \in {"set_variable", "get_memory_map"} /\ HookOf[s] = pc
  BY <1>2 DEF HookOf, Services
<1>3. CASE Fail /\ UNCHANGED <<type, hook, service>>
  BY <1>1, <1>3, FailStep DEF hook_service, acpi, Copy, MemoryInv, TypeInv
<1>4. ASSUME NEW p \in Pages, Allocate(p, 1, "runtime_services"),
             hook' = [hook EXCEPT ![HookOf[s]] = p], service' = [service EXCEPT ![s] = p], Goto(next)
      PROVE  MemoryInv'
  <2> USE DEF MemoryInv
  <2>1. UNCHANGED <<machine, g, is_dsdt_patched, events, err>> /\ pc' = next /\ pc \in AfterTables
    BY <1>1, <1>2, <1>4 DEF hook_service, acpi, Goto, HookOf, Services, AfterTables, AfterSetVariable
  <2>2. ~err /\ ~err'
    BY <2>1 DEF ErrInv, Unhooking, Kernel
  <2>3. service' \in [Services -> Pages] /\ \A k \in Services : service'[k] = IF k = s THEN p ELSE service[k]
    BY <1>4 DEF TypeInv
  <2>. /\ p # FirmwarePage /\ p # 0
       /\ \A k \in Hooks : hook'[k] = IF k = HookOf[s] THEN p ELSE hook[k]
    BY <1>2, <1>4, <2>1, <2>2, Hooked
  <2>4. TypeInv'
    <3>1. pc' \in Steps
      BY <2>1 DEF Steps, AfterTables, AfterSetVariable, AfterGetMemoryMap
    <3> QED
      BY <1>2, <1>4, <2>1, <2>2, <2>3, <3>1, Hooked DEF TypeInv
  <2>5. ErrInv'
    BY <2>1, <2>2 DEF ErrInv, Unhooking
  <2>6. HookInv'
    <3>1. \A k \in Services : service'[k] = IF hook'[HookOf[k]] = 0 THEN FirmwarePage ELSE hook'[HookOf[k]]
      <4>1. \A k \in Services : HookOf[k] \in Hooks
        BY DEF HookOf, Services, Hooks
      <4> QED
        BY <1>2, <2>1, <2>3, <4>1 DEF HookInv
    <3>2. /\ type'[FirmwarePage] = "runtime_services"
          /\ \A h \in Hooks : hook'[h] # 0 => hook'[h] # FirmwarePage /\ type'[hook'[h]] = "runtime_services"
          /\ \A h, k \in Hooks : h # k /\ hook'[h] # 0 => hook'[h] # hook'[k]
      BY <1>2, <1>4, <2>1, <2>2, Hooked
    <3> QED
      BY <3>1, <3>2 DEF HookInv
  <2>7. LoadedInv'
    <3>1. pc \notin AfterEvent /\ pc' \notin AfterEvent
      BY <1>1, <1>2, <2>1 DEF AfterEvent, AfterPts, AfterHead, AfterBody, AfterDisk, AfterAreas, Kernel, InCore,
                              Mapped, Paged, HookOf, Services
    <3>2. events' = {}
      BY <2>1, <2>2, <3>1 DEF LoadedInv
    <3>3. /\ hook'["set_variable"] # 0
          /\ pc' \in AfterGetMemoryMap => hook'["get_memory_map"] # 0
      <4>1. CASE s = "SetVariable"
        <5>1. pc' = "get_memory_map" /\ HookOf[s] = "set_variable"
          BY <1>1, <2>1, <4>1 DEF HookOf
        <5>2. pc' \notin AfterGetMemoryMap
          BY <5>1, <3>1 DEF AfterGetMemoryMap
        <5> QED
          BY <1>2, <5>1, <5>2
      <4>2. CASE s = "GetMemoryMap"
        <5>1. HookOf[s] = "get_memory_map" /\ "set_variable" \in Hooks /\ pc \in AfterSetVariable
          BY <1>2, <4>2 DEF HookOf, Hooks, AfterSetVariable
        <5>2. hook["set_variable"] # 0
          BY <2>2, <5>1 DEF LoadedInv
        <5> QED
          BY <1>2, <5>1, <5>2
      <4> QED
        BY <4>1, <4>2 DEF Services
    <3> QED
      BY <2>2, <3>1, <3>2, <3>3 DEF LoadedInv
  <2>8. ReservedInv'
    <3>1. LoadedParts' = LoadedParts
      BY <1>2, <2>1, <1>1 DEF LoadedParts, HookOf, Services
    <3>2. pc \notin AfterHead /\ pc' \notin AfterHead
      BY <1>1, <1>2, <2>1 DEF AfterHead, AfterBody, AfterDisk, AfterAreas, Kernel, InCore, Mapped, Paged,
                              HookOf, Services
    <3> QED
      BY <1>2, <1>4, <2>1, <2>2, <3>1, <3>2, Hooked DEF ReservedInv
  <2> QED
    BY <2>4, <2>5, <2>6, <2>7, <2>8
<1> QED
  BY <1>1, <1>3, <1>4 DEF hook_service

LEMMA EventStep == MemoryInv /\ create_virtual_address_map_event => MemoryInv'
PROOF
<1> SUFFICES ASSUME MemoryInv, create_virtual_address_map_event
             PROVE  MemoryInv'
  OBVIOUS
<1> DEFINE h == "virtual_address_map_event"
<1>1. pc = h /\ h \in Hooks /\ UNCHANGED <<machine, acpi, service, header, runtime, moved>>
  BY DEF create_virtual_address_map_event, Hooks
<1>2. CASE Fail /\ UNCHANGED <<type, hook, events>>
  BY <1>1, <1>2, FailStep DEF acpi, Copy, MemoryInv, TypeInv
<1>3. ASSUME NEW p \in Pages, Allocate(p, 1, "runtime_services"), hook' = [hook EXCEPT ![h] = p],
             (events' = events \cup {p} /\ Goto("find_pts")) \/ (UNCHANGED events /\ Fail)
      PROVE  MemoryInv'
  <2> USE DEF MemoryInv
  <2>1. UNCHANGED <<machine, g, is_dsdt_patched, service>>
    BY <1>1 DEF acpi
  <2>2. /\ ~err
        /\ pc \notin AfterEvent
        /\ pc \in AfterGetMemoryMap
    BY <1>1, StepSets DEF ErrInv, Unhooking, Kernel, AfterEvent, AfterPts, AfterHead, AfterBody, AfterDisk,
                          AfterAreas, InCore, Mapped, Paged, AfterGetMemoryMap
  <2>3. /\ pc' \in {"find_pts", "unhook"} /\ err' \in BOOLEAN
        /\ pc' = "unhook" => err'
        /\ pc' = "find_pts" => ~err'
    <3>1. CASE Fail
      <4>1. pc' = "unhook" /\ err' = TRUE
        BY <3>1 DEF Fail
      <4> QED
        BY <4>1
    <3>2. CASE Goto("find_pts")
      <4>1. pc' = "find_pts" /\ ~err'
        BY <2>2, <3>2 DEF Goto
      <4>2. err' \in BOOLEAN
        BY <3>2 DEF Goto, TypeInv
      <4> QED
        BY <4>1, <4>2
    <3> QED
      BY <1>3, <3>1, <3>2
  <2>4. TypeInv'
    BY <1>1, <1>3, <2>1, <2>2, <2>3, Hooked DEF TypeInv, Steps, Unhooking, AfterTables, AfterSetVariable,
                                                AfterGetMemoryMap, AfterEvent
  <2>5. ErrInv'
    BY <2>3 DEF ErrInv, Unhooking
  <2>6. HookInv'
    <3>1. \A k \in Services : HookOf[k] \in Hooks \ {h}
      BY DEF HookOf, Services, Hooks
    <3>2. \A k \in Services : service'[k] = IF hook'[HookOf[k]] = 0 THEN FirmwarePage ELSE hook'[HookOf[k]]
      BY <1>1, <1>3, <2>1, <2>2, <3>1, Hooked DEF HookInv
    <3>3. /\ type'[FirmwarePage] = "runtime_services"
          /\ \A k \in Hooks : hook'[k] # 0 => hook'[k] # FirmwarePage /\ type'[hook'[k]] = "runtime_services"
          /\ \A j, k \in Hooks : j # k /\ hook'[j] # 0 => hook'[j] # hook'[k]
      BY <1>1, <1>3, <2>1, <2>2, Hooked
    <3> QED
      BY <3>2, <3>3 DEF HookInv
  <2>7. LoadedInv'
    <3>1. CASE pc' = "unhook"
      BY <2>3, <3>1 DEF LoadedInv, Kernel
    <3>2. CASE pc' = "find_pts"
      <4>1. events' = {p} /\ pc' \in AfterEvent
        BY <1>3, <2>2, <3>2 DEF LoadedInv, Fail, AfterEvent
      <4>2. {"set_variable", "get_memory_map"} \subseteq Hooks \ {h}
        BY DEF Hooks
      <4>3. hook["set_variable"] # 0 /\ hook["get_memory_map"] # 0
        BY <2>2, StepSets DEF LoadedInv
      <4>. \A k \in Hooks : hook'[k] = IF k = h THEN p ELSE hook[k]
        BY <1>1, <1>3, <2>1, <2>2, Hooked
      <4>4. hook'[h] = p /\ p # 0 /\ hook'["set_variable"] # 0 /\ hook'["get_memory_map"] # 0
        BY <1>1, <4>2, <4>3, Sizes DEF Pages
      <4> QED
        BY <2>3, <3>2, <4>1, <4>4 DEF LoadedInv
    <3> QED
      BY <2>3, <3>1, <3>2
  <2>8. ReservedInv'
    <3>1. LoadedParts' = LoadedParts
      BY <1>1, <2>3 DEF LoadedParts
    <3>2. pc \notin AfterHead
      BY <2>2, StepSets
    <3>3. "find_pts" \notin AfterHead
      BY DEF AfterHead, AfterBody, AfterDisk, AfterAreas, Kernel, InCore, Mapped, Paged
    <3> QED
      BY <1>1, <1>3, <2>1, <2>2, <2>3, <3>1, <3>2, <3>3, Hooked DEF ReservedInv
  <2> QED
    BY <2>4, <2>5, <2>6, <2>7, <2>8
<1> QED
  BY <1>2, <1>3 DEF create_virtual_address_map_event

LEMMA AppendStep ==
  ASSUME MemoryInv, NEW part,
         \/ append_dsdt("append_head", part, "append_body")
         \/ append_dsdt("append_body", part, "fill_disk_pci")
  PROVE  MemoryInv'
PROOF
<1>1. PICK step \in {"append_head", "append_body"}, next \in {"append_body", "fill_disk_pci"} :
        append_dsdt(step, part, next)
  OBVIOUS
<1> HIDE DEF append_dsdt
<1>2. pc = step /\ UNCHANGED <<machine, hook, service, events>>
  BY <1>1 DEF append_dsdt
<1>3. /\ ~err /\ pc \in AfterPts /\ next \in AfterHead
  BY <1>2 DEF MemoryInv, ErrInv, Unhooking, Kernel, AfterPts, AfterHead, AfterBody
<1>4. CASE Fail /\ UNCHANGED <<type, tables, g, is_dsdt_patched>>
  BY <1>2, <1>4, FailStep DEF Copy, MemoryInv, TypeInv
<1>5. ASSUME NEW p \in 1 .. LowPages, Allocate(p, DsdtPages, "reserved"), Fail,
             UNCHANGED <<g, is_dsdt_patched>>
      PROVE  MemoryInv'
  <2> USE DEF MemoryInv
  <2>1. /\ type' \in [Pages -> Types]
        /\ \A q \in Pages : type[q] # "conventional" => type'[q] = type[q]
    BY <1>5, Allocated DEF Types
  <2>2. pc' = "unhook" /\ err' = TRUE /\ Copy' = Copy
    BY <1>2, <1>5 DEF Fail, Copy
  <2>3. TypeInv' /\ ErrInv'
    BY <1>2, <1>5, <2>1, <2>2, StepSets DEF TypeInv, ErrInv, Unhooking
  <2>4. HookInv'
    BY <1>2, <2>1, Sizes DEF HookInv, TypeInv
  <2>5. LoadedInv'
    BY <2>2 DEF LoadedInv, Kernel
  <2>6. ReservedInv'
    BY <1>2, <2>1, <2>2 DEF ReservedInv
  <2> QED
    BY <2>3, <2>4, <2>5, <2>6
<1>6. ASSUME NEW p \in 1 .. LowPages,
             Run(p, DsdtPages) \subseteq FreePages,
             type' = [q \in Pages |-> IF q \in Outgrown(p) THEN "conventional"
                                      ELSE IF q \in Run(p, DsdtPages) THEN "reserved" ELSE type[q]],
             g' = [g EXCEPT !.dsdt = p],
             is_dsdt_patched' = TRUE, Goto(next)
      PROVE  MemoryInv'
  <2> USE DEF MemoryInv
  <2>1. pc' = next /\ ~err' /\ err' = err
    BY <1>3, <1>6 DEF Goto
  <2>2. Outgrown(p) = Copy
    BY DEF Outgrown, Copy
  <2>3. Copy' = Run(p, DsdtPages)
    <3>1. "dsdt" \in DOMAIN g
      BY DEF NoTables, TypeInv
    <3>2. g'.dsdt = p
      BY <1>6, <3>1
    <3> QED
      BY <1>6, <3>2 DEF Copy, Run
  <2> DEFINE new == Run(p, DsdtPages)
  <2>4. \A q \in new : q \in Pages /\ type[q] = "conventional" /\ q \notin Copy
    BY <1>6 DEF FreePages, ReservedInv
  <2>5. type' \in [Pages -> Types]
    BY <1>6 DEF TypeInv, Types, UsableTypes
  <2>6. \A q \in Pages : type'[q] = IF q \in Copy THEN "conventional"
                                    ELSE IF q \in new THEN "reserved" ELSE type[q]
    BY <1>6, <2>2
  <2> HIDE DEF new
  <2>7. \A q \in Pages : type[q] \notin {"reserved", "conventional"} => type'[q] = type[q]
    BY <2>4, <2>6 DEF ReservedInv
  <2>8. TypeInv' /\ ErrInv'
    BY <1>2, <1>6, <2>1, <2>5, StepSets DEF TypeInv, ErrInv, Steps, Unhooking, AfterBody, AfterHead, NoTables
  <2>9. HookInv'
    BY <1>2, <2>7, Sizes DEF HookInv, TypeInv
  <2>10. LoadedInv'
    BY <1>2, <1>3, <2>1, StepSets DEF LoadedInv
  <2>11. LoadedParts = PartPages /\ LoadedParts' = PartPages
    BY <1>2, <2>1 DEF LoadedParts
  <2>12. /\ \A q \in Pages : type[q] = "reserved" /\ machine.memory[q] # "reserved" <=> q \in PartPages \cup Copy
         /\ \A q \in Pages : machine.memory[q] \in {"reserved", "nvs"} => type[q] = machine.memory[q]
         /\ Copy \subseteq Pages
         /\ \A q \in Copy : type[q] = "reserved" /\ q \notin PartPages
    BY <1>3, <2>11 DEF ReservedInv
  <2>13. \A q \in Copy : machine.memory[q] \notin {"reserved", "nvs"}
    BY <2>12
  <2>14. \A q \in new : machine.memory[q] \notin {"reserved", "nvs"} /\ q \notin PartPages
    BY <2>4, <2>12
  <2>15. \A q \in Pages : machine'.memory[q] \in {"reserved", "nvs"} => type'[q] = machine'.memory[q]
    BY <1>2, <2>6, <2>12, <2>13, <2>14
  <2>16. \A q \in Pages : type'[q] = "reserved" /\ machine'.memory[q] # "reserved" <=> q \in PartPages \cup new
    BY <1>2, <2>4, <2>6, <2>12, <2>13, <2>14
  <2>17. new \subseteq Pages /\ \A q \in new : type'[q] = "reserved" /\ q \notin PartPages
    BY <2>4, <2>6, <2>14
  <2>18. ReservedInv'
    BY <1>3, <1>6, <2>1, <2>3, <2>11, <2>15, <2>16, <2>17 DEF ReservedInv, new
  <2> QED
    BY <2>8, <2>9, <2>10, <2>18
<1> QED
  BY <1>1, <1>4, <1>5, <1>6 DEF append_dsdt

(* A hook that is freed, if it was loaded. *)
LEMMA UnhookStep ==
  ASSUME MemoryInv, NEW step \in Unhooking, NEW h \in Hooks, NEW next, Unhook(step, h, next),
         service' = [s \in Services |-> IF HookOf[s] = h /\ hook[h] # 0 THEN FirmwarePage ELSE service[s]],
         \/ h = "virtual_address_map_event" /\ step = "unhook" /\ next = "unhook get_memory_map"
         \/ h = "get_memory_map" /\ step = "unhook get_memory_map" /\ next = "unhook set_variable"
         \/ h = "set_variable" /\ step = "unhook set_variable" /\ next = "boot"
  PROVE  MemoryInv'
PROOF
<1> USE DEF MemoryInv
<1>1. /\ pc = step /\ pc' = next /\ err' = err
      /\ UNCHANGED <<machine, g, is_dsdt_patched, events>>
      /\ type' = [p \in Pages |-> IF p = hook[h] THEN "conventional" ELSE type[p]]
      /\ hook' = [hook EXCEPT ![h] = 0]
  BY DEF Unhook, acpi, Goto, free_hook
<1>2. err /\ err'
  BY <1>1 DEF ErrInv
<1>3. /\ type' \in [Pages -> Types]
      /\ \A p \in Pages : p # hook[h] => type'[p] = type[p]
  BY <1>1 DEF TypeInv, Types, UsableTypes
<1>4. \A k \in Hooks : hook'[k] = IF k = h THEN 0 ELSE hook[k]
  BY <1>1 DEF TypeInv
<1>5. service' \in [Services -> Pages]
  BY Sizes DEF TypeInv
<1>6. TypeInv'
  <2>1. pc' \in Steps
    BY <1>1, StepSets DEF Unhooking, Kernel
  <2>2. hook' \in [Hooks -> Pages \cup {0}]
    BY <1>1 DEF TypeInv
  <2> QED
    BY <1>1, <1>2, <1>3, <1>5, <2>1, <2>2 DEF TypeInv
<1>7. ErrInv'
  BY <1>1, <1>2 DEF ErrInv, Unhooking, Kernel
<1>8. hook[h] # 0 => hook[h] # FirmwarePage /\ type[hook[h]] = "runtime_services"
  BY DEF HookInv
<1>9. HookInv'
  <2>1. type'[FirmwarePage] = "runtime_services"
    <3>1. FirmwarePage \in Pages /\ FirmwarePage # hook[h]
      BY Sizes, NoPage, <1>8
    <3> QED
      BY <1>3, <3>1 DEF HookInv
  <2>2. \A k \in Hooks : hook'[k] # 0 => hook'[k] # FirmwarePage /\ type'[hook'[k]] = "runtime_services"
    <3> SUFFICES ASSUME NEW k \in Hooks, hook'[k] # 0
                 PROVE  hook'[k] # FirmwarePage /\ type'[hook'[k]] = "runtime_services"
      OBVIOUS
    <3>1. k # h /\ hook'[k] = hook[k] /\ hook[k] # 0
      BY <1>4
    <3>2. hook[k] \in Pages /\ hook[k] # hook[h]
      BY <3>1 DEF HookInv, TypeInv
    <3> QED
      BY <1>3, <3>1, <3>2 DEF HookInv
  <2>3. \A j, k \in Hooks : j # k /\ hook'[j] # 0 => hook'[j] # hook'[k]
    BY <1>4 DEF HookInv
  <2>4. \A s \in Services : service'[s] = IF hook'[HookOf[s]] = 0 THEN FirmwarePage ELSE hook'[HookOf[s]]
    BY <1>4, HookNames DEF HookInv
  <2> QED
    BY <2>1, <2>2, <2>3, <2>4 DEF HookInv
<1>10. LoadedInv'
  <2>1. {"virtual_address_map_event", "get_memory_map", "set_variable"} \subseteq Hooks
    BY DEF Hooks
  <2>2. next \notin Kernel \/ next = "boot"
    BY DEF Kernel
  <2>3. /\ next # "unhook"
        /\ next \in {"unhook set_variable"} \cup Kernel => h \in {"get_memory_map", "set_variable"}
        /\ next \in Kernel => h = "set_variable"
    BY DEF Kernel
  <2>4. /\ hook'["virtual_address_map_event"] = 0
        /\ next \in {"unhook set_variable"} \cup Kernel => hook'["get_memory_map"] = 0
        /\ next \in Kernel => hook'["set_variable"] = 0
    BY <1>1, <1>2, <1>4, <2>1, <2>3 DEF LoadedInv
  <2> QED
    BY <1>1, <1>2, <2>4 DEF LoadedInv
<1>11. ReservedInv'
  <2>1. Copy' = Copy
    BY <1>1 DEF Copy
  <2>2. \A p \in Pages : type[p] \in {"reserved", "nvs"} => type'[p] = type[p]
    <3>1. hook[h] \notin Pages \/ type[hook[h]] = "runtime_services"
      BY NoPage, <1>8
    <3> QED
      BY <1>3, <3>1
  <2> QED
    BY <1>1, <1>2, <2>1, <2>2 DEF ReservedInv
<1> QED
  BY <1>6, <1>7, <1>9, <1>10, <1>11

LEMMA UnhookServicesStep == MemoryInv /\ unhook_services => MemoryInv'
PROOF
<1> SUFFICES ASSUME MemoryInv, unhook_services
             PROVE  MemoryInv'
  OBVIOUS
<1>1. service = [s \in Services |-> service[s]]
  BY DEF MemoryInv, TypeInv
<1>2. Hooks = {"set_variable", "get_memory_map", "virtual_address_map_event"} /\ Services = {"SetVariable", "GetMemoryMap"}
      /\ HookOf["SetVariable"] = "set_variable" /\ HookOf["GetMemoryMap"] = "get_memory_map"
      /\ {"unhook", "unhook get_memory_map", "unhook set_variable"} = Unhooking
  BY DEF Hooks, Services, HookOf, Unhooking
<1>3. CASE remove_virtual_address_map_event
  <2>1. service' = [s \in Services |->
                      IF HookOf[s] = "virtual_address_map_event" /\ hook["virtual_address_map_event"] # 0
                      THEN FirmwarePage ELSE service[s]]
    BY <1>1, <1>2, <1>3 DEF remove_virtual_address_map_event
  <2> QED
    BY <1>2, <1>3, <2>1, UnhookStep DEF remove_virtual_address_map_event
<1>4. CASE unhook_get_memory_map
  <2>1. service' = [s \in Services |-> IF HookOf[s] = "get_memory_map" /\ hook["get_memory_map"] # 0
                                       THEN FirmwarePage ELSE service[s]]
    BY <1>1, <1>2, <1>4 DEF unhook_get_memory_map, Restored
  <2> QED
    BY <1>2, <1>4, <2>1, UnhookStep DEF unhook_get_memory_map
<1>5. CASE unhook_set_variable
  <2>1. service' = [s \in Services |-> IF HookOf[s] = "set_variable" /\ hook["set_variable"] # 0
                                       THEN FirmwarePage ELSE service[s]]
    BY <1>1, <1>2, <1>5 DEF unhook_set_variable, Restored
  <2> QED
    BY <1>2, <1>5, <2>1, UnhookStep DEF unhook_set_variable
<1> QED
  BY <1>3, <1>4, <1>5 DEF unhook_services

(* A step that goes on, or fails, and leaves the memory alone. *)
LEMMA GoOn ==
  ASSUME MemoryInv, ~err, NEW next,
         UNCHANGED <<machine, type, hook, service, events, is_dsdt_patched>>, Copy' = Copy,
         DOMAIN g' = DOMAIN NoTables, Goto(next) \/ Fail,
         \/ pc = "find_acpi_tables" /\ next = "set_variable"
         \/ pc = "find_pts" /\ next = "append_head"
         \/ pc = "fill_disk_pci" /\ next = "fill_ram_areas"
         \/ pc = "fill_ram_areas" /\ next = "boot"
  PROVE  MemoryInv'
PROOF
<1>1. CASE Fail
  BY <1>1, FailStep
<1>2. CASE Goto(next)
  <2>1. pc' = next /\ ~err' /\ err' \in BOOLEAN
    BY <1>2 DEF Goto, MemoryInv, TypeInv
  <2>2. pc' \in Steps /\ ErrInv'
    BY <2>1, StepSets DEF ErrInv, Unhooking, Kernel, Steps, AfterTables, AfterSetVariable, AfterGetMemoryMap,
                          AfterEvent, AfterPts, AfterHead, AfterBody, AfterDisk, AfterAreas
  <2>3. /\ pc \in AfterSetVariable <=> pc' \in AfterSetVariable
        /\ pc \in AfterGetMemoryMap <=> pc' \in AfterGetMemoryMap
        /\ pc \in AfterEvent <=> pc' \in AfterEvent
        /\ pc \in AfterHead <=> pc' \in AfterHead
    BY <2>1 DEF AfterSetVariable, AfterGetMemoryMap, AfterEvent, AfterPts, AfterHead, AfterBody, AfterDisk,
                AfterAreas, Kernel, InCore, Mapped, Paged
  <2>4. LoadedParts' = LoadedParts
    BY <2>1 DEF LoadedParts
  <2> QED
    BY <2>1, <2>2, <2>3, <2>4, QuietStep
<1> QED
  BY <1>1, <1>2

(* The kernel's steps, and the core's, leave the memory alone. *)
LEMMA LaterStep ==
  ASSUME MemoryInv, GetMemoryMap \/ virtual_address_map_event \/ EnterCore
  PROVE  /\ MemoryInv'
         /\ UNCHANGED <<machine, err, type, acpi, hook, service, events, header>>
PROOF
<1>1. UNCHANGED <<machine, err, type, acpi, hook, service, events, header>>
  BY CoreSteps DEF GetMemoryMap, virtual_address_map_event
<1>2. /\ pc \in AfterAreas /\ pc' \in AfterAreas
      /\ err => pc \in Kernel /\ pc' \in Kernel
  <2>1. CASE EnterCore
    BY <2>1, CoreSteps, StepSets DEF MemoryInv, ErrInv, Unhooking, Kernel, InCore, Mapped, Paged
  <2>2. CASE GetMemoryMap \/ virtual_address_map_event
    BY <2>2, StepSets DEF GetMemoryMap, virtual_address_map_event, Kernel
  <2> QED
    BY <2>1, <2>2
<1>3. pc' \notin Unhooking /\ pc' \in Steps /\ err' \in BOOLEAN /\ ErrInv' /\ pc # "unhook" /\ pc' # "unhook"
  BY <1>1, <1>2, StepSets DEF MemoryInv, TypeInv, ErrInv, Unhooking
<1>4. Copy' = Copy /\ LoadedParts' = LoadedParts
  BY <1>1, <1>2, StepSets DEF acpi, Copy, LoadedParts, AfterAreas, Kernel, InCore, Mapped, Paged
<1>5. DOMAIN g' = DOMAIN NoTables /\ is_dsdt_patched' = is_dsdt_patched
  BY <1>1 DEF acpi, MemoryInv, TypeInv
<1>6. /\ ~err' => /\ pc \in AfterSetVariable <=> pc' \in AfterSetVariable
                  /\ pc \in AfterGetMemoryMap <=> pc' \in AfterGetMemoryMap
                  /\ pc \in AfterEvent <=> pc' \in AfterEvent
                  /\ pc \in AfterHead <=> pc' \in AfterHead
      /\ err' => /\ pc' # "unhook" => err /\ pc # "unhook"
                 /\ pc' = "unhook set_variable" => pc = "unhook set_variable"
                 /\ pc' \in Kernel => pc \in Kernel
  BY <1>1, <1>2, <1>3, StepSets DEF Unhooking
<1> QED
  BY <1>1, <1>3, <1>4, <1>5, <1>6, QuietStep

LEMMA LoadCoreStep == MemoryInv /\ load_core => MemoryInv'
PROOF
<1> SUFFICES ASSUME MemoryInv, load_core
             PROVE  MemoryInv'
  OBVIOUS
<1>1. CASE LoadPart("load_core", Core, "load_rm")
  <2>1. pc = "load_core" /\ (pc' = "load_rm" => LoadedParts' = LoadedParts \cup PagesOf(Core))
    BY <1>1 DEF LoadPart, LoadedParts
  <2> QED
    BY <1>1, <2>1, LoadPartStep
<1>2. CASE LoadPart("load_rm", Rm, "load_pm")
  <2>1. pc = "load_rm" /\ (pc' = "load_pm" => LoadedParts' = LoadedParts \cup PagesOf(Rm))
    BY <1>2 DEF LoadPart, LoadedParts
  <2> QED
    BY <1>2, <2>1, LoadPartStep
<1>3. CASE LoadPart("load_pm", Pm, "find_acpi_tables")
  <2>1. pc = "load_pm" /\ (pc' = "find_acpi_tables" => LoadedParts' = LoadedParts \cup PagesOf(Pm))
    BY <1>3 DEF LoadPart, LoadedParts, PartPages
  <2> QED
    BY <1>3, <2>1, LoadPartStep
<1> QED
  BY <1>1, <1>2, <1>3 DEF load_core

LEMMA QuietSteps ==
  ASSUME MemoryInv, find_acpi_tables \/ create_or_hook_pts \/ fill_disk_pci \/ fill_core_header
  PROVE  MemoryInv'
PROOF
<1> USE DEF MemoryInv
<1>1. pc \in {"find_acpi_tables", "find_pts", "fill_disk_pci", "fill_ram_areas"}
  BY DEF find_acpi_tables, create_or_hook_pts, fill_disk_pci, fill_core_header
<1>2. ~err
  BY <1>1 DEF ErrInv, Unhooking, Kernel
<1>3. UNCHANGED <<machine, type, hook, service, events, is_dsdt_patched>>
  BY DEF find_acpi_tables, create_or_hook_pts, fill_disk_pci, fill_core_header, acpi
<1>4. DOMAIN g' = DOMAIN NoTables /\ Copy' = Copy
  <2>1. CASE find_acpi_tables
    <3>1. g' = find_acpi_tables_in(machine.config, tables) /\ pc \notin AfterHead
      BY <2>1 DEF find_acpi_tables, AfterHead, AfterBody, AfterDisk, AfterAreas, Kernel, InCore, Mapped, Paged
    <3>2. DOMAIN g' = DOMAIN NoTables
      BY <3>1 DEF find_acpi_tables_in, NoTables
    <3>3. ~is_dsdt_patched /\ ~is_dsdt_patched'
      BY <1>2, <1>3, <3>1 DEF ReservedInv
    <3> QED
      BY <3>2, <3>3 DEF Copy
  <2>2. CASE create_or_hook_pts \/ fill_disk_pci \/ fill_core_header
    <3>1. g' = g
      BY <2>2 DEF create_or_hook_pts, fill_disk_pci, fill_core_header, acpi
    <3> QED
      BY <1>3, <3>1 DEF Copy, TypeInv
  <2> QED
    BY <2>1, <2>2
<1>5. \/ (pc = "find_acpi_tables" /\ (Goto("set_variable") \/ Fail))
      \/ (pc = "find_pts" /\ (Goto("append_head") \/ Fail))
      \/ (pc = "fill_disk_pci" /\ (Goto("fill_ram_areas") \/ Fail))
      \/ (pc = "fill_ram_areas" /\ (Goto("boot") \/ Fail))
  BY DEF find_acpi_tables, create_or_hook_pts, fill_disk_pci, fill_core_header
<1> QED
  BY <1>2, <1>3, <1>4, <1>5, GoOn

LEMMA MemoryNext == MemoryInv /\ [EntryNext]_allVars => MemoryInv'
PROOF
<1> SUFFICES ASSUME MemoryInv, [EntryNext]_allVars
             PROVE  MemoryInv'
  OBVIOUS
<1>1. CASE load_core
  BY <1>1, LoadCoreStep
<1>2. CASE find_acpi_tables \/ create_or_hook_pts \/ fill_disk_pci \/ fill_core_header
  BY <1>2, QuietSteps
<1>3. CASE hook_set_variable \/ hook_get_memory_map
  BY <1>3, HookServiceStep DEF hook_set_variable, hook_get_memory_map
<1>4. CASE create_virtual_address_map_event
  BY <1>4, EventStep
<1>5. CASE append_method
  BY <1>5, AppendStep DEF append_method
<1>6. CASE unhook_services
  BY <1>6, UnhookServicesStep
<1>7. CASE GetMemoryMap \/ virtual_address_map_event \/ EnterCore
  BY <1>7, LaterStep
<1>8. CASE UNCHANGED allVars
  BY <1>8 DEF MemoryInv, TypeInv, ErrInv, HookInv, LoadedInv, ReservedInv, Copy, LoadedParts, allVars, vars, acpi
<1> QED
  BY <1>1, <1>2, <1>3, <1>4, <1>5, <1>6, <1>7, <1>8 DEF EntryNext, Next, EfiMain

LEMMA MemoryInvariant == EntrySpec => []MemoryInv
BY MemoryInit, MemoryNext, PTL DEF EntrySpec

(* A service enters only a loaded hook of its own, at any step of hooking  *)
(* and unhooking, and none after a failed boot; the event's hook is loaded *)
(* (uefi/app.c, uefi/services).                                              *)
THEOREM ServicesStayLive == EntrySpec => []ServicesAreLive
PROOF
<1>1. MemoryInv => ServicesAreLive
  <2> SUFFICES ASSUME MemoryInv
               PROVE  ServicesAreLive
    OBVIOUS
  <2> USE DEF MemoryInv
  <2>1. ASSUME NEW s \in Services, service[s] # FirmwarePage
        PROVE  /\ hook[HookOf[s]] = service[s]
               /\ type[service[s]] = "runtime_services"
               /\ Booted => ~err
    <3>1. hook[HookOf[s]] = service[s] /\ hook[HookOf[s]] # 0 /\ HookOf[s] \in Hooks
      BY <2>1, HookNames DEF HookInv
    <3>2. ASSUME Booted, err
          PROVE  FALSE
      <4>1. pc \in Kernel
        BY <3>2 DEF Booted, Kernel
      <4>2. pc # "unhook" /\ hook["get_memory_map"] = 0 /\ hook["set_variable"] = 0
        BY <3>2, <4>1 DEF LoadedInv, Kernel
      <4> QED
        BY <3>1, <4>2 DEF HookOf, Services
    <3> QED
      BY <3>1, <3>2 DEF HookInv
  <2>2. ASSUME NEW p \in events, ~err
        PROVE  p = hook["virtual_address_map_event"] /\ type[p] = "runtime_services"
    <3>1. pc \in AfterEvent /\ p = hook["virtual_address_map_event"]
      BY <2>2 DEF LoadedInv
    <3>2. "virtual_address_map_event" \in Hooks /\ hook["virtual_address_map_event"] # 0
      BY <2>2, <3>1 DEF LoadedInv, Hooks
    <3> QED
      BY <3>1, <3>2 DEF HookInv
  <2> QED
    BY <2>1, <2>2 DEF ServicesAreLive
<1> QED
  BY <1>1, MemoryInvariant, PTL

-------------------------------------------------------------------------------
(* The ACPI tables. *)

LEMMA FoundFacts ==
  ASSUME machine \in Machines, Found # NoTables
  PROVE  /\ Found.rsdp # 0 /\ Found.facs \in Pages /\ machine.memory[Found.facs] = "nvs"
         /\ {Found.fadt, Found.dsdt} \subseteq DOMAIN machine.tables
         /\ Found.fadt \in Nat /\ Found.dsdt \in Nat
         /\ Found.fadt > PageCount /\ Found.dsdt > PageCount /\ Found.fadt # Found.dsdt
         /\ Found.facs = find_facs(machine.tables[Found.fadt])
         /\ Found.dsdt = find_dsdt(machine.tables[Found.fadt])
         /\ machine.tables[Found.fadt] \in acpi_fadt(Nat)
         /\ WholeDsdt(machine.tables[Found.dsdt])
PROOF
<1>1. /\ Found.facs \in 1 .. LowPages /\ machine.memory[Found.facs] = "nvs"
      /\ {Found.fadt, Found.dsdt} \subseteq DOMAIN machine.tables
      /\ machine.tables[Found.fadt] \in acpi_fadt(Nat)
      /\ machine.tables[Found.dsdt] \in acpi_dsdt(Bytes(Names))
      /\ machine.tables[Found.dsdt].checksum = machine.tables[Found.dsdt].aml
  BY AFind DEF Found
<1>2. /\ Found.rsdp # 0
      /\ Found.facs = find_facs(machine.tables[Found.fadt])
      /\ Found.dsdt = find_dsdt(machine.tables[Found.fadt])
  BY DEF Found, find_acpi_tables_in
<1>3. Found.facs \in Pages
  BY <1>1, Sizes DEF Pages
<1>4. \A a \in {Found.fadt, Found.dsdt} : a \in Nat /\ a > PageCount
  BY <1>1, AMachine
<1>5. machine.tables[Found.fadt].signature = "FACP" /\ machine.tables[Found.dsdt].signature = "DSDT"
  BY <1>1 DEF acpi_fadt, acpi_dsdt
<1>6. WholeDsdt(machine.tables[Found.dsdt])
  BY <1>1 DEF acpi_dsdt, WholeDsdt
<1> QED
  BY <1>1, <1>2, <1>3, <1>4, <1>5, <1>6

LEMMA TablesInit == EntryInit => FoundInv /\ TablesInv
PROOF
<1> SUFFICES ASSUME EntryInit
             PROVE  FoundInv /\ TablesInv
  OBVIOUS
<1>1. pc \notin AfterTables
  BY DEF EntryInit, Init, AfterTables, AfterSetVariable, AfterGetMemoryMap, AfterEvent, AfterPts, AfterHead,
         AfterBody, AfterDisk, AfterAreas, Kernel, InCore, Mapped, Paged
<1> QED
  BY <1>1 DEF EntryInit, Init, FoundInv, TablesInv

(* A step that leaves the tables alone and frees no reserved memory. *)
LEMMA TablesKept ==
  ASSUME FoundInv, TablesInv, UNCHANGED <<machine, acpi>>,
         \A p \in Pages : type[p] = "reserved" => type'[p] = "reserved",
         ~err' => /\ ~err
                  /\ pc' \in AfterTables <=> pc \in AfterTables
                  /\ pc' \in AfterPts <=> pc \in AfterPts
  PROVE  FoundInv' /\ TablesInv'
PROOF
<1>1. UNCHANGED <<machine, tables, g, is_dsdt_patched, pts>>
  BY DEF acpi
<1>2. FoundInv'
  BY <1>1 DEF FoundInv, Found
<1>3. TablesInv'
  <2>1. KernelDsdt' = KernelDsdt
    BY <1>1 DEF KernelDsdt
  <2> SUFFICES ASSUME g # NoTables
               PROVE  TablesInv'
    BY <1>1 DEF TablesInv
  <2>2. is_dsdt_patched =>
          /\ tables[g.fadt].dsdt = tables[g.fadt].x_dsdt
          /\ tables[g.fadt].checksum = <<tables[g.fadt].dsdt, tables[g.fadt].x_dsdt>>
          /\ Run(KernelDsdt, DsdtPages) \subseteq Pages
          /\ \A p \in Run(KernelDsdt, DsdtPages) : type'[p] = "reserved"
    BY DEF TablesInv
  <2> QED
    BY <1>1, <2>1, <2>2 DEF TablesInv
<1> QED
  BY <1>2, <1>3

LEMMA TablesFound ==
  ASSUME MemoryInv, FoundInv, TablesInv, find_acpi_tables
  PROVE  FoundInv' /\ TablesInv'
PROOF
<1>1. pc = "find_acpi_tables" /\ UNCHANGED <<machine, tables, is_dsdt_patched>>
  BY DEF find_acpi_tables
<1>2. ~err
  BY <1>1 DEF MemoryInv, ErrInv, Unhooking, Kernel
<1>3. g = NoTables /\ tables = machine.tables /\ ~is_dsdt_patched
  BY <1>1, <1>2, StepSets DEF FoundInv
<1>4. g' = Found
  BY <1>3 DEF find_acpi_tables, Found
<1>5. machine \in Machines
  BY DEF MemoryInv, TypeInv
<1>6. CASE Found = NoTables
  <2>1. err' = TRUE
    BY <1>4, <1>6 DEF find_acpi_tables, Fail
  <2> QED
    BY <1>1, <1>3, <1>4, <1>6, <2>1 DEF FoundInv, TablesInv
<1>7. CASE Found # NoTables
  <2>1. pc' = "set_variable" /\ err' = err
    BY <1>4, <1>7 DEF find_acpi_tables, Goto
  <2>2. pc' \in AfterTables /\ pc' \notin AfterPts
    BY <2>1 DEF AfterTables, AfterPts, AfterHead, AfterBody, AfterDisk, AfterAreas, Kernel, InCore, Mapped, Paged
  <2>3. FoundInv'
    BY <1>1, <1>3, <1>4, <1>7, <2>1, <2>2 DEF FoundInv, Found
  <2>4. KernelDsdt' = Found.dsdt /\ g'.dsdt = Found.dsdt /\ Found.dsdt # 0
    BY <1>1, <1>3, <1>4, <1>5, <1>7, FoundFacts, Sizes DEF KernelDsdt
  <2>5. TablesInv'
    BY <1>1, <1>3, <1>4, <1>5, <1>7, <2>1, <2>2, <2>4, FoundFacts DEF TablesInv
  <2> QED
    BY <2>3, <2>5
<1> QED
  BY <1>6, <1>7

LEMMA TablesHooked ==
  ASSUME MemoryInv, FoundInv, TablesInv, create_or_hook_pts
  PROVE  FoundInv' /\ TablesInv'
PROOF
<1>1. pc = "find_pts" /\ UNCHANGED <<machine, type, g, is_dsdt_patched>>
  BY DEF create_or_hook_pts
<1>2. /\ ~err
      /\ pc \in AfterTables
      /\ pc \notin AfterHead
  BY <1>1, StepSets DEF MemoryInv, ErrInv, Unhooking, Kernel, AfterEvent, AfterHead, AfterBody, AfterDisk, AfterAreas,
                        InCore, Mapped, Paged
<1>3. g # NoTables /\ ~is_dsdt_patched /\ machine \in Machines
  BY <1>2 DEF FoundInv, MemoryInv, TypeInv, ReservedInv
<1>4. pts'.facs = g.facs
  BY DEF create_or_hook_pts
<1>5. /\ pc' \in {"append_head", "unhook"}
      /\ ~err' => pc' = "append_head"
  BY DEF create_or_hook_pts, Fail, Goto
<1>6. ~err' => pc' \in AfterTables /\ pc' \in AfterPts
  BY <1>5, StepSets DEF AfterPts
<1>7. \/ tables' = tables
      \/ \E dsdt : tables' = [tables EXCEPT ![g.dsdt] = fix_table_checksum(dsdt)] /\ DOMAIN dsdt = DOMAIN tables[g.dsdt]
  <2> DEFINE renamed == [tables[g.dsdt] EXCEPT !.aml = rename_method(Block, "_PTS", "SPTS")]
  <2>1. tables' = tables \/ tables' = [tables EXCEPT ![g.dsdt] = fix_table_checksum(renamed)]
    BY DEF create_or_hook_pts
  <2>2. DOMAIN renamed = DOMAIN tables[g.dsdt]
    OBVIOUS
  <2> HIDE DEF renamed
  <2> QED
    BY <2>1, <2>2
<1>8. /\ DOMAIN tables' = DOMAIN tables
      /\ \A a \in DOMAIN tables : a # g.dsdt => tables'[a] = tables[a]
      /\ WholeDsdt(tables'[g.dsdt])
  <2>1. {"aml", "checksum"} \subseteq DOMAIN tables[g.dsdt] /\ g.dsdt \in DOMAIN tables /\ WholeDsdt(tables[g.dsdt])
    BY <1>3 DEF TablesInv, WholeDsdt
  <2>2. ASSUME NEW dsdt, DOMAIN dsdt = DOMAIN tables[g.dsdt]
        PROVE  WholeDsdt(fix_table_checksum(dsdt))
    BY <2>1, <2>2 DEF WholeDsdt, fix_table_checksum
  <2> QED
    BY <1>7, <2>1, <2>2
<1>9. g.dsdt = KernelDsdt /\ g.dsdt # g.fadt /\ g.fadt \in DOMAIN tables
  BY <1>2, <1>3, FoundFacts DEF TablesInv, FoundInv
<1>10. tables'[g.fadt] = tables[g.fadt] /\ KernelDsdt' = KernelDsdt
  BY <1>1, <1>8, <1>9 DEF KernelDsdt
<1>11. FoundInv'
  BY <1>1, <1>2, <1>3, <1>6, <1>8 DEF FoundInv, Found
<1>12. TablesInv'
  BY <1>1, <1>2, <1>3, <1>4, <1>6, <1>8, <1>9, <1>10 DEF TablesInv
<1> QED
  BY <1>11, <1>12

LEMMA TablesAppended ==
  ASSUME MemoryInv, FoundInv, TablesInv, NEW part,
         \/ append_dsdt("append_head", part, "append_body")
         \/ append_dsdt("append_body", part, "fill_disk_pci")
  PROVE  FoundInv' /\ TablesInv'
PROOF
<1>1. PICK step \in {"append_head", "append_body"}, next \in {"append_body", "fill_disk_pci"} :
        append_dsdt(step, part, next)
  OBVIOUS
<1> HIDE DEF append_dsdt
<1>2. pc = step /\ UNCHANGED <<machine, pts>>
  BY <1>1 DEF append_dsdt
<1>3. /\ ~err
      /\ pc \in AfterPts /\ pc \in AfterTables
      /\ next \in AfterPts /\ next \in AfterTables
  BY <1>2, StepSets DEF MemoryInv, ErrInv, Unhooking, Kernel, AfterPts, AfterHead, AfterBody
<1>4. /\ g # NoTables /\ machine \in Machines /\ Found # NoTables /\ g.fadt = Found.fadt
      /\ DOMAIN g = DOMAIN NoTables /\ pts.facs = g.facs
  BY <1>3 DEF FoundInv, TablesInv, MemoryInv, TypeInv
<1>5. CASE Fail /\ UNCHANGED <<type, tables, g, is_dsdt_patched>>
  BY <1>2, <1>5, TablesKept DEF Fail, acpi
<1>6. ASSUME NEW p \in 1 .. LowPages,
             LET longer == Block \o part
                 copied == [signature |-> "DSDT", aml |-> longer, checksum |-> longer]
                 redirected == [tables[g.fadt] EXCEPT !.dsdt = p, !.x_dsdt = p, !.checksum = <<p, p>>]
             IN  tables' = [a \in DOMAIN tables \cup {p} |->
                              CASE a = p -> copied [] a = g.fadt -> redirected [] OTHER -> tables[a]],
             g'.fadt = g.fadt
      PROVE  /\ DOMAIN tables \subseteq DOMAIN tables' /\ p \in DOMAIN tables' /\ p \in Pages /\ p \in Nat \ {0}
             /\ WholeDsdt(tables'[p]) /\ tables'[g.fadt] \in acpi_fadt(Nat)
             /\ tables'[g.fadt].dsdt = p /\ tables'[g.fadt].x_dsdt = p
             /\ tables'[g.fadt].checksum = <<p, p>>
             /\ p # g.fadt /\ KernelDsdt' = p
             /\ \A a \in DOMAIN tables : a \notin {p, g.fadt} => tables'[a] = tables[a]
  <2>1. p \in Pages /\ p \in Nat /\ p # 0 /\ p # g.fadt /\ g.fadt \in DOMAIN tables
    BY <1>4, FoundFacts, Sizes DEF Pages, FoundInv
  <2>2. tables[g.fadt] \in acpi_fadt(Nat)
    BY <1>4 DEF TablesInv
  <2> DEFINE longer == Block \o part
             copied == [signature |-> "DSDT", aml |-> longer, checksum |-> longer]
             redirected == [tables[g.fadt] EXCEPT !.dsdt = p, !.x_dsdt = p, !.checksum = <<p, p>>]
  <2>3. WholeDsdt(copied)
    <3> HIDE DEF longer
    <3> QED
      BY DEF WholeDsdt
  <2>4. redirected \in acpi_fadt(Nat) /\ redirected.dsdt = p /\ redirected.x_dsdt = p /\ redirected.checksum = <<p, p>>
    BY <2>1, <2>2 DEF acpi_fadt
  <2>5. tables' = [a \in DOMAIN tables \cup {p} |->
                     CASE a = p -> copied [] a = g.fadt -> redirected [] OTHER -> tables[a]]
    BY <1>6
  <2> HIDE DEF longer, copied, redirected
  <2>6. tables'[p] = copied /\ tables'[g.fadt] = redirected /\ DOMAIN tables' = DOMAIN tables \cup {p}
    BY <2>1, <2>5
  <2>7. \A a \in DOMAIN tables : a \notin {p, g.fadt} => tables'[a] = tables[a]
    BY <2>5
  <2>8. KernelDsdt' = p
    BY <1>6, <2>1, <2>4, <2>6 DEF KernelDsdt, find_dsdt
  <2> QED
    BY <2>1, <2>3, <2>4, <2>6, <2>7, <2>8
<1>7. ASSUME NEW p \in 1 .. LowPages, Allocate(p, DsdtPages, "reserved"), is_dsdt_patched, Fail,
             UNCHANGED <<g, is_dsdt_patched>>,
             LET longer == Block \o part
                 copied == [signature |-> "DSDT", aml |-> longer, checksum |-> longer]
                 redirected == [tables[g.fadt] EXCEPT !.dsdt = p, !.x_dsdt = p, !.checksum = <<p, p>>]
             IN  tables' = [a \in DOMAIN tables \cup {p} |->
                              CASE a = p -> copied [] a = g.fadt -> redirected [] OTHER -> tables[a]]
      PROVE  FoundInv' /\ TablesInv'
  <2>1. /\ DOMAIN tables \subseteq DOMAIN tables' /\ p \in DOMAIN tables' /\ p \in Pages /\ p \in Nat \ {0}
        /\ WholeDsdt(tables'[p]) /\ tables'[g.fadt] \in acpi_fadt(Nat)
        /\ tables'[g.fadt].dsdt = p /\ tables'[g.fadt].x_dsdt = p
        /\ tables'[g.fadt].checksum = <<p, p>>
        /\ p # g.fadt /\ KernelDsdt' = p
        /\ \A a \in DOMAIN tables : a \notin {p, g.fadt} => tables'[a] = tables[a]
    BY <1>6, <1>7
  <2>2. Run(p, DsdtPages) \subseteq Pages /\ \A q \in Run(p, DsdtPages) : type[q] = "conventional" /\ type'[q] = "reserved"
    BY <1>7, Allocated DEF Types
  <2>3. g.dsdt # p
    <3>1. type[p] = "conventional"
      BY <2>1, <2>2, Sizes DEF Run, Pages
    <3>2. g.dsdt \in Copy
      BY <1>4, <1>7, Sizes DEF Copy, Run, TablesInv
    <3> QED
      BY <3>1, <3>2 DEF ReservedInv, MemoryInv
  <2>4. tables'[g.dsdt] = tables[g.dsdt] /\ g.dsdt \in DOMAIN tables'
    BY <1>4, <2>1, <2>3 DEF TablesInv
  <2>5. FoundInv'
    BY <1>2, <1>4, <1>7, <2>1 DEF FoundInv, Found, Fail
  <2>6. err' = TRUE /\ g' = g /\ is_dsdt_patched' /\ WholeDsdt(tables[g.dsdt]) /\ g.dsdt \in Nat \ {0}
        /\ g.dsdt # g.fadt
    BY <1>4, <1>7 DEF TablesInv, Fail
  <2>7. TablesInv'
    BY <2>1, <2>2, <2>4, <2>6 DEF TablesInv
  <2> QED
    BY <2>5, <2>7
<1>8. ASSUME NEW p \in 1 .. LowPages,
             Run(p, DsdtPages) \subseteq FreePages,
             type' = [q \in Pages |-> IF q \in Outgrown(p) THEN "conventional"
                                      ELSE IF q \in Run(p, DsdtPages) THEN "reserved" ELSE type[q]],
             g' = [g EXCEPT !.dsdt = p], is_dsdt_patched' = TRUE, Goto(next),
             LET longer == Block \o part
                 copied == [signature |-> "DSDT", aml |-> longer, checksum |-> longer]
                 redirected == [tables[g.fadt] EXCEPT !.dsdt = p, !.x_dsdt = p, !.checksum = <<p, p>>]
             IN  tables' = [a \in DOMAIN tables \cup {p} |->
                              CASE a = p -> copied [] a = g.fadt -> redirected [] OTHER -> tables[a]]
      PROVE  FoundInv' /\ TablesInv'
  <2>1. g'.dsdt = p /\ g'.fadt = g.fadt /\ g'.rsdp = g.rsdp /\ g'.facs = g.facs /\ DOMAIN g' = DOMAIN g
    BY <1>4, <1>8 DEF NoTables
  <2>2. /\ DOMAIN tables \subseteq DOMAIN tables' /\ p \in DOMAIN tables' /\ p \in Pages /\ p \in Nat \ {0}
        /\ WholeDsdt(tables'[p]) /\ tables'[g.fadt] \in acpi_fadt(Nat)
        /\ tables'[g.fadt].dsdt = p /\ tables'[g.fadt].x_dsdt = p
        /\ tables'[g.fadt].checksum = <<p, p>>
        /\ p # g.fadt /\ KernelDsdt' = p
        /\ \A a \in DOMAIN tables : a \notin {p, g.fadt} => tables'[a] = tables[a]
    BY <1>6, <1>8, <2>1
  <2>3. g' # NoTables
    BY <2>1, <2>2 DEF NoTables
  <2>4. pc' \in AfterTables /\ pc' \in AfterPts /\ err' = err
    BY <1>3, <1>8 DEF Goto
  <2>5. \A q \in Run(p, DsdtPages) : q \in Pages /\ type'[q] = "reserved"
    <3>1. Outgrown(p) = Copy
      BY DEF Outgrown, Copy
    <3>2. \A q \in Run(p, DsdtPages) : q \in Pages /\ q \notin Outgrown(p)
      BY <1>8, <3>1 DEF FreePages, MemoryInv, ReservedInv
    <3> QED
      BY <1>8, <3>2
  <2>6. FoundInv'
    BY <1>2, <1>3, <1>4, <2>1, <2>2, <2>3, <2>4 DEF FoundInv, Found
  <2>7. TablesInv'
    BY <1>2, <1>4, <2>1, <2>2, <2>4, <2>5 DEF TablesInv
  <2> QED
    BY <2>6, <2>7
<1> QED
  BY <1>1, <1>5, <1>7, <1>8 DEF append_dsdt

(* Memory that is reserved is given back only for a copy of the DSDT that  *)
(* is replaced.                                                            *)
LEMMA KeepsReserved ==
  ASSUME MemoryInv, NEW p \in Pages, type[p] = "reserved",
         \/ load_core \/ hook_set_variable \/ hook_get_memory_map \/ create_virtual_address_map_event
         \/ unhook_services \/ UNCHANGED type
  PROVE  type'[p] = "reserved"
PROOF
<1>1. CASE UNCHANGED type
  BY <1>1
<1>2. ASSUME NEW a, NEW n, NEW t, Allocate(a, n, t)
      PROVE  type'[p] = "reserved"
  BY <1>2 DEF Allocate, FreePages
<1>3. ASSUME NEW h \in Hooks, free_hook(h)
      PROVE  type'[p] = "reserved"
  <2>1. p # hook[h]
    BY NoPage DEF MemoryInv, HookInv
  <2> QED
    BY <1>3, <2>1 DEF free_hook
<1>4. CASE load_core
  BY <1>1, <1>2, <1>4 DEF load_core, LoadPart
<1>5. CASE hook_set_variable \/ hook_get_memory_map
  BY <1>1, <1>2, <1>5 DEF hook_set_variable, hook_get_memory_map, hook_service
<1>6. CASE create_virtual_address_map_event
  BY <1>1, <1>2, <1>6 DEF create_virtual_address_map_event
<1>7. CASE unhook_services
  <2>1. {"set_variable", "get_memory_map", "virtual_address_map_event"} \subseteq Hooks
    BY DEF Hooks
  <2> QED
    BY <1>3, <1>7, <2>1 DEF unhook_services, remove_virtual_address_map_event, unhook_get_memory_map,
                            unhook_set_variable, Unhook
<1> QED
  BY <1>1, <1>4, <1>5, <1>6, <1>7

(* The steps that leave the tables alone.  Without an error they stay      *)
(* before or after each step that does not.                                *)
QuietNext ==
  \/ load_core \/ hook_set_variable \/ hook_get_memory_map \/ create_virtual_address_map_event
  \/ fill_disk_pci \/ fill_core_header \/ unhook_services
  \/ GetMemoryMap \/ virtual_address_map_event \/ EnterCore \/ UNCHANGED allVars

LEMMA QuietPhases ==
  ASSUME MemoryInv, QuietNext, ~err'
  PROVE  /\ ~err
         /\ pc' \in AfterTables <=> pc \in AfterTables
         /\ pc' \in AfterPts <=> pc \in AfterPts
         /\ pc' \in AfterBody <=> pc \in AfterBody
         /\ pc' \in {"append_head", "append_body"} => pc' = pc
PROOF
<1>0. {"append_head", "append_body"} \subseteq AfterPts \ AfterBody
  BY DEF AfterPts, AfterHead, AfterBody, AfterDisk, AfterAreas, Kernel, InCore, Mapped, Paged
<1>1. CASE load_core
  <2>1. pc \in {"load_core", "load_rm", "load_pm"} /\ pc' \in {"load_rm", "load_pm", "find_acpi_tables"}
        /\ err' = err
    BY <1>1 DEF load_core, LoadPart, Fail, Goto
  <2>2. pc \notin AfterTables /\ pc' \notin AfterTables
    BY <2>1, StepSets
  <2> QED
    BY <1>0, <2>1, <2>2, StepSets
<1>2. CASE hook_set_variable \/ hook_get_memory_map \/ create_virtual_address_map_event
  <2>1. /\ pc \in {"set_variable", "get_memory_map", "virtual_address_map_event"}
        /\ pc' \in {"get_memory_map", "virtual_address_map_event", "find_pts"}
        /\ err' = err
    BY <1>2 DEF hook_set_variable, hook_get_memory_map, hook_service, create_virtual_address_map_event,
                Fail, Goto, HookOf
  <2>2. pc \in AfterTables /\ pc' \in AfterTables
    BY <2>1 DEF AfterTables, AfterSetVariable, AfterGetMemoryMap, AfterEvent
  <2>3. pc \notin AfterPts /\ pc' \notin AfterPts
    BY <2>1 DEF AfterPts, AfterHead, AfterBody, AfterDisk, AfterAreas, Kernel, InCore, Mapped, Paged
  <2> QED
    BY <1>0, <2>1, <2>2, <2>3, StepSets
<1>3. CASE fill_disk_pci \/ fill_core_header
  <2>1. /\ pc \in {"fill_disk_pci", "fill_ram_areas"} /\ pc' \in {"fill_ram_areas", "boot"}
        /\ err' = err
    BY <1>3 DEF fill_disk_pci, fill_core_header, Fail, Goto
  <2>2. pc \in AfterBody /\ pc' \in AfterBody
    BY <2>1 DEF AfterBody, AfterDisk, AfterAreas, Kernel
  <2> QED
    BY <1>0, <2>1, <2>2, StepSets
<1>4. CASE unhook_services
  <2>1. err
    BY <1>4 DEF unhook_services, remove_virtual_address_map_event, unhook_get_memory_map, unhook_set_variable,
                Unhook, MemoryInv, ErrInv, Unhooking
  <2>2. err' = err
    BY <1>4 DEF unhook_services, remove_virtual_address_map_event, unhook_get_memory_map, unhook_set_variable,
                Unhook, Goto
  <2> QED
    BY <2>1, <2>2
<1>5. CASE GetMemoryMap \/ virtual_address_map_event \/ EnterCore
  <2>1. pc \in AfterAreas /\ pc' \in AfterAreas
    BY <1>5, CoreSteps DEF GetMemoryMap, virtual_address_map_event, AfterAreas, Kernel
  <2>2. err' = err
    BY <1>5, LaterStep
  <2> QED
    BY <1>0, <2>1, <2>2, StepSets
<1>6. CASE UNCHANGED allVars
  BY <1>6 DEF allVars, vars
<1> QED
  BY <1>1, <1>2, <1>3, <1>4, <1>5, <1>6 DEF QuietNext

LEMMA QuietTables == ASSUME MemoryInv, QuietNext PROVE UNCHANGED <<machine, acpi>>
BY LaterStep DEF QuietNext, load_core, LoadPart, hook_set_variable, hook_get_memory_map, hook_service,
                 create_virtual_address_map_event, fill_disk_pci, fill_core_header, unhook_services,
                 remove_virtual_address_map_event, unhook_get_memory_map, unhook_set_variable, Unhook,
                 allVars, vars

LEMMA TablesQuiet ==
  ASSUME MemoryInv, FoundInv, TablesInv, QuietNext
  PROVE  FoundInv' /\ TablesInv'
PROOF
<1>1. UNCHANGED <<machine, acpi>>
  BY QuietTables
<1>2. \A p \in Pages : type[p] = "reserved" => type'[p] = "reserved"
  BY KeepsReserved, LaterStep DEF QuietNext, fill_disk_pci, fill_core_header, allVars, vars
<1> QED
  BY <1>1, <1>2, QuietPhases, TablesKept

LEMMA TablesNext == MemoryInv /\ FoundInv /\ TablesInv /\ [EntryNext]_allVars => FoundInv' /\ TablesInv'
PROOF
<1> SUFFICES ASSUME MemoryInv, FoundInv, TablesInv, [EntryNext]_allVars
             PROVE  FoundInv' /\ TablesInv'
  OBVIOUS
<1>1. CASE find_acpi_tables
  BY <1>1, TablesFound
<1>2. CASE create_or_hook_pts
  BY <1>2, TablesHooked
<1>3. CASE append_method
  BY <1>3, TablesAppended DEF append_method
<1>4. CASE QuietNext
  BY <1>4, TablesQuiet
<1> QED
  BY <1>1, <1>2, <1>3, <1>4 DEF QuietNext, EntryNext, Next, EfiMain

LEMMA TablesInvariant == EntrySpec => [](FoundInv /\ TablesInv)
BY TablesInit, TablesNext, MemoryInvariant, PTL DEF EntrySpec

(* The tables a kernel follows stay whole through both copies of the DSDT, *)
(* and what a boot leaves reserved is the core and the last copy           *)
(* (uefi/acpi/patch/dsdt.c).                                              *)
THEOREM TablesStayWhole == EntrySpec => []TablesAreWhole
PROOF
<1>1. MemoryInv /\ FoundInv /\ TablesInv => TablesAreWhole
  <2> SUFFICES ASSUME MemoryInv, FoundInv, TablesInv, g.dsdt # 0
               PROVE  LET fadt == tables[g.fadt] dsdt == tables[KernelDsdt]
                      IN  /\ dsdt.checksum = dsdt.aml
                          /\ is_dsdt_patched =>
                               /\ fadt.checksum = <<fadt.dsdt, fadt.x_dsdt>>
                               /\ fadt.dsdt = fadt.x_dsdt
                               /\ \A p \in Run(KernelDsdt, DsdtPages) : type[p] = "reserved"
                          /\ Booted /\ ~err =>
                               /\ is_dsdt_patched
                               /\ {p \in Pages : type[p] = "reserved" /\ machine.memory[p] # "reserved"} =
                                    PartPages \cup Run(KernelDsdt, DsdtPages)
                               /\ pts.facs = find_facs(machine.tables[g.fadt])
    BY DEF TablesAreWhole
  <2>1. g # NoTables
    BY DEF NoTables
  <2>2. ASSUME Booted, ~err
        PROVE  /\ is_dsdt_patched
               /\ {p \in Pages : type[p] = "reserved" /\ machine.memory[p] # "reserved"} =
                    PartPages \cup Run(KernelDsdt, DsdtPages)
               /\ pts.facs = find_facs(machine.tables[g.fadt])
    <3>1. pc \in Kernel
      BY <2>2 DEF Booted, Kernel
    <3>2. is_dsdt_patched /\ pts.facs = g.facs /\ g.dsdt = KernelDsdt
      BY <2>1, <2>2, <3>1, StepSets DEF MemoryInv, ReservedInv, TablesInv
    <3>3. LoadedParts \cup Copy = PartPages \cup Run(KernelDsdt, DsdtPages)
      BY <3>1, <3>2 DEF LoadedParts, Kernel, Copy
    <3>4. \A p \in Pages : type[p] = "reserved" /\ machine.memory[p] # "reserved" <=> p \in LoadedParts \cup Copy
      BY <2>2 DEF MemoryInv, ReservedInv
    <3>5. PartPages \subseteq Pages /\ Copy \subseteq Pages /\ Copy = Run(KernelDsdt, DsdtPages)
      BY <3>2, Sizes DEF MemoryInv, ReservedInv, Copy
    <3>6. g.facs = find_facs(machine.tables[g.fadt])
      BY <2>1, FoundFacts DEF FoundInv, MemoryInv, TypeInv
    <3> QED
      BY <3>2, <3>3, <3>4, <3>5, <3>6
  <2> QED
    BY <2>1, <2>2 DEF TablesInv, WholeDsdt
<1> QED
  BY <1>1, MemoryInvariant, TablesInvariant, PTL

-------------------------------------------------------------------------------
(* The RAM areas. *)

(* What inserting does to the areas: one of them grows into the            *)
(* descriptor, or the descriptor is appended.                              *)
LEMMA Inserted ==
  ASSUME NEW areas \in Seq(Area), NEW pages, GoodAreas(areas, pages), NEW desc,
         desc.start \in Nat, desc.size \in Nat \ {0}, PagesOf(desc) \cap pages = {}, ~IsFull(areas)
  PROVE  GoodAreas(insert_desc(areas, desc), pages \cup PagesOf(desc))
PROOF
<1> DEFINE new == [start |-> desc.start, size |-> desc.size]
           k == Neighbour(areas, desc)
           touching == {n \in DOMAIN areas : areas[n].start = EndOf(desc) \/ EndOf(areas[n]) = desc.start}
<1>1. /\ Len(areas) \in Nat /\ DOMAIN areas = 1 .. Len(areas) /\ DOMAIN areas \subseteq Nat
      /\ \A n \in DOMAIN areas : areas[n] \in Area /\ areas[n].start \in Nat /\ areas[n].size \in Nat \ {0}
  <2>1. Len(areas) \in Nat /\ DOMAIN areas = 1 .. Len(areas) /\ \A n \in DOMAIN areas : areas[n] \in Area
    OBVIOUS
  <2>2. \A a \in Area : a.start \in Nat /\ a.size \in Nat \ {0}
    BY DEF Area
  <2> QED
    BY <2>1, <2>2
<1>2. new \in Area /\ PagesOf(new) = PagesOf(desc) /\ EndOf(desc) \in Nat
  BY DEF Area, PagesOf, EndOf
<1>3. k = 0 \/ k \in touching
  <2>1. CASE touching = {}
    BY <2>1 DEF Neighbour
  <2>2. CASE touching # {}
    <3>1. \E n \in touching : \A j \in touching : n <= j
      <4>1. touching \subseteq Nat
        BY <1>1
      <4> HIDE DEF touching
      <4> QED
        BY <2>2, <4>1, Least
    <3>2. k = CHOOSE n \in touching : \A j \in touching : n <= j
      BY <2>2 DEF Neighbour
    <3> HIDE DEF touching, k
    <3> QED
      BY <3>1, <3>2
  <2> QED
    BY <2>1, <2>2
<1>4. \A n \in DOMAIN areas : PagesOf(areas[n]) \subseteq pages
  BY DEF GoodAreas, PagesIn
<1>5. \A n, j \in DOMAIN areas : n # j => PagesOf(areas[n]) \cap PagesOf(areas[j]) = {}
  BY DEF GoodAreas, AreDisjoint
<1>6. Len(areas) + 1 <= MaxRamAreas
  BY <1>1, RoomForAreas DEF IsFull
<1>7. ASSUME k = 0
      PROVE  GoodAreas(insert_desc(areas, desc), pages \cup PagesOf(desc))
  <2> DEFINE longer == Append(areas, new)
  <2>1. insert_desc(areas, desc) = longer
    BY <1>7 DEF insert_desc
  <2>2. /\ longer \in Seq(Area) /\ Len(longer) = Len(areas) + 1 /\ DOMAIN longer = 1 .. (Len(areas) + 1)
        /\ \A n \in DOMAIN areas : longer[n] = areas[n]
        /\ longer[Len(areas) + 1] = new
    BY <1>1, <1>2
  <2> HIDE DEF longer, new
  <2>3. \A n \in DOMAIN longer : n \in DOMAIN areas \/ n = Len(areas) + 1
    BY <1>1, <2>2
  <2>4. \A n \in DOMAIN longer : PagesOf(longer[n]) \subseteq pages \cup PagesOf(desc)
    BY <1>2, <1>4, <2>2, <2>3
  <2>5. AreDisjoint(longer)
    <3> SUFFICES ASSUME NEW n \in DOMAIN longer, NEW j \in DOMAIN longer, n # j
                 PROVE  PagesOf(longer[n]) \cap PagesOf(longer[j]) = {}
      BY DEF AreDisjoint
    <3>1. CASE n \in DOMAIN areas /\ j \in DOMAIN areas
      BY <1>5, <2>2, <3>1
    <3>2. CASE n \in DOMAIN areas /\ j = Len(areas) + 1
      BY <1>2, <1>4, <2>2, <3>2
    <3>3. CASE n = Len(areas) + 1 /\ j \in DOMAIN areas
      BY <1>2, <1>4, <2>2, <3>3
    <3> QED
      BY <2>3, <3>1, <3>2, <3>3
  <2>6. PagesIn(longer) \subseteq pages \cup PagesOf(desc)
    BY <2>4 DEF PagesIn
  <2> QED
    BY <1>6, <2>1, <2>2, <2>5, <2>6 DEF GoodAreas
<1>8. ASSUME k # 0
      PROVE  GoodAreas(insert_desc(areas, desc), pages \cup PagesOf(desc))
  <2> DEFINE grown == insert_desc(areas, desc)
  <2>1. k \in DOMAIN areas /\ (areas[k].start = EndOf(desc) \/ EndOf(areas[k]) = desc.start)
    BY <1>3, <1>8
  <2>2. /\ grown \in Seq(Area) /\ Len(grown) = Len(areas) /\ DOMAIN grown = DOMAIN areas
        /\ \A n \in DOMAIN areas : n # k => grown[n] = areas[n]
        /\ PagesOf(grown[k]) \subseteq PagesOf(areas[k]) \cup PagesOf(desc)
    <3> HIDE DEF k
    <3>1. areas[k] \in Area /\ areas[k].start \in Nat /\ areas[k].size \in Nat \ {0}
      BY <1>1, <2>1
    <3>2. CASE areas[k].start = EndOf(desc)
      <4>1. grown = [areas EXCEPT ![k].start = desc.start]
        BY <1>8, <3>2 DEF insert_desc, k
      <4>2. /\ grown[k] = [areas[k] EXCEPT !.start = desc.start]
            /\ DOMAIN grown = DOMAIN areas
            /\ \A n \in DOMAIN areas : n # k => grown[n] = areas[n]
        BY <2>1, <4>1
      <4>3. grown[k] \in Area /\ grown[k].start = desc.start /\ grown[k].size = areas[k].size
        BY <3>1, <4>2 DEF Area
      <4>4. PagesOf(grown[k]) \subseteq PagesOf(areas[k]) \cup PagesOf(desc)
        BY <3>1, <3>2, <4>3 DEF PagesOf, EndOf
      <4>5. grown \in Seq(Area) /\ Len(grown) = Len(areas)
        BY <1>1, <2>1, <4>1, <4>3
      <4> QED
        BY <4>2, <4>4, <4>5
    <3>3. CASE areas[k].start # EndOf(desc)
      <4>1. grown = [areas EXCEPT ![k].size = areas[k].size + desc.size] /\ EndOf(areas[k]) = desc.start
        BY <1>8, <2>1, <3>3 DEF insert_desc, k
      <4>2. /\ grown[k] = [areas[k] EXCEPT !.size = areas[k].size + desc.size]
            /\ DOMAIN grown = DOMAIN areas
            /\ \A n \in DOMAIN areas : n # k => grown[n] = areas[n]
        BY <2>1, <4>1
      <4>3. grown[k] \in Area /\ grown[k].start = areas[k].start /\ grown[k].size = areas[k].size + desc.size
        <5>1. areas[k].size + desc.size \in Nat \ {0}
          BY <3>1
        <5> QED
          BY <3>1, <4>2, <5>1 DEF Area
      <4>4. PagesOf(grown[k]) \subseteq PagesOf(areas[k]) \cup PagesOf(desc)
        BY <3>1, <4>1, <4>3 DEF PagesOf, EndOf
      <4>5. grown \in Seq(Area) /\ Len(grown) = Len(areas)
        BY <1>1, <2>1, <4>1, <4>3
      <4> QED
        BY <4>2, <4>4, <4>5
    <3> QED
      BY <3>2, <3>3
  <2> HIDE DEF grown, k
  <2>3. \A n \in DOMAIN areas : PagesOf(grown[n]) \subseteq pages \cup PagesOf(desc)
    BY <1>4, <2>2
  <2>4. AreDisjoint(grown)
    <3> SUFFICES ASSUME NEW n \in DOMAIN areas, NEW j \in DOMAIN areas, n # j
                 PROVE  PagesOf(grown[n]) \cap PagesOf(grown[j]) = {}
      BY <2>2 DEF AreDisjoint
    <3>1. CASE n # k /\ j # k
      BY <1>5, <2>2, <3>1
    <3>2. CASE n = k
      BY <1>4, <1>5, <2>1, <2>2, <3>2
    <3>3. CASE j = k
      BY <1>4, <1>5, <2>1, <2>2, <3>3
    <3> QED
      BY <3>1, <3>2, <3>3
  <2>5. PagesIn(grown) \subseteq pages \cup PagesOf(desc)
    BY <2>2, <2>3 DEF PagesIn
  <2> QED
    BY <2>2, <2>4, <2>5 DEF GoodAreas, grown
<1> QED
  BY <1>7, <1>8

LEMMA MoreRoom ==
  ASSUME NEW areas, NEW pages, NEW more, GoodAreas(areas, pages), pages \subseteq more
  PROVE  GoodAreas(areas, more)
BY DEF GoodAreas

Descriptor == [start : Nat, size : Nat \ {0}, type : Types]

(* The table after a memory map: in the usable descriptors, which do not   *)
(* overlap.                                                                *)
LEMMA Filled ==
  ASSUME NEW map \in Seq(Descriptor),
         \A j, k \in DOMAIN map : j # k => PagesOf(map[j]) \cap PagesOf(map[k]) = {}
  PROVE  GoodAreas(fill_ram_areas(map).areas,
                   UNION {PagesOf(map[k]) : k \in {j \in DOMAIN map : is_memory_desc_usable(map[j])}})
PROOF
<1> DEFINE none == [areas |-> <<>>, full |-> FALSE]
           Body(f, k) == IF k = 0 THEN none ELSE scan_desc(f[k - 1], map[k])
           size == Len(map)
           after == CHOOSE f : f = [k \in 0 .. size |-> Body(f, k)]
           Before(n) == UNION {PagesOf(map[k]) : k \in {j \in 1 .. n : is_memory_desc_usable(map[j])}}
           Table == [areas : Seq(Area), full : BOOLEAN]
<1>1. size \in Nat /\ DOMAIN map = 1 .. size /\ \A k \in 1 .. size : map[k] \in Descriptor
  OBVIOUS
<1>2. fill_ram_areas(map) = after[size]
  BY DEF fill_ram_areas
<1>3. \A n \in Nat : \E f : f = [k \in 0 .. n |-> Body(f, k)]
  <2> DEFINE S == {n \in Nat : \E f : f = [k \in 0 .. n |-> Body(f, k)]}
  <2>1. 0 \in S
    <3> DEFINE f == [k \in 0 .. 0 |-> none]
    <3>1. f = [k \in 0 .. 0 |-> Body(f, k)]
      OBVIOUS
    <3> QED
      BY <3>1
  <2>2. ASSUME NEW n \in Nat, n \in S
        PROVE  n + 1 \in S
    <3>1. PICK f : f = [k \in 0 .. n |-> Body(f, k)]
      BY <2>2
    <3> DEFINE h == [k \in 0 .. (n + 1) |-> IF k = n + 1 THEN scan_desc(f[n], map[n + 1]) ELSE f[k]]
    <3>2. ASSUME NEW k \in 0 .. (n + 1)
          PROVE  h[k] = Body(h, k)
      <4>1. CASE k = n + 1
        <5>1. k # 0 /\ k - 1 = n /\ h[k - 1] = f[n] /\ h[k] = scan_desc(f[n], map[n + 1])
          BY <4>1
        <5> HIDE DEF h
        <5> QED
          BY <4>1, <5>1
      <4>2. CASE k # n + 1
        <5>1. k \in 0 .. n /\ h[k] = f[k] /\ (k # 0 => h[k - 1] = f[k - 1])
          BY <4>2
        <5>2. f[k] = Body(f, k)
          <6> HIDE DEF Body
          <6> QED
            BY <3>1, <5>1
        <5> HIDE DEF h
        <5> QED
          BY <5>1, <5>2
      <4> QED
        BY <4>1, <4>2
    <3>3. h = [k \in 0 .. (n + 1) |-> Body(h, k)]
      <4>1. h = [k \in 0 .. (n + 1) |-> h[k]]
        OBVIOUS
      <4> HIDE DEF h, Body
      <4> QED
        BY <3>2, <4>1
    <3> HIDE DEF h, Body
    <3> QED
      BY <3>3
  <2> HIDE DEF S
  <2>3. Nat \subseteq S
    BY <2>1, <2>2, AllNumbers
  <2> QED
    BY <2>3 DEF S
<1>4. after = [k \in 0 .. size |-> Body(after, k)]
  <2>1. \E f : f = [k \in 0 .. size |-> Body(f, k)]
    BY <1>1, <1>3
  <2> HIDE DEF Body
  <2> QED
    BY <2>1
<1> HIDE DEF after
<1>5. after[0] = none /\ \A k \in 0 .. (size - 1) : after[k + 1] = scan_desc(after[k], map[k + 1])
  <2>1. \A k \in 0 .. size : after[k] = Body(after, k)
    <3> HIDE DEF Body
    <3> QED
      BY <1>4
  <2>2. after[0] = none
    BY <1>1, <2>1
  <2>3. ASSUME NEW k \in 0 .. (size - 1)
        PROVE  after[k + 1] = scan_desc(after[k], map[k + 1])
    <3>1. k + 1 \in 0 .. size /\ k + 1 # 0 /\ (k + 1) - 1 = k
      BY <1>1
    <3> QED
      BY <2>1, <3>1
  <2> QED
    BY <2>2, <2>3
<1>6. \A n \in Nat : n <= size => after[n] \in Table /\ GoodAreas(after[n].areas, Before(n))
  <2> DEFINE S == {n \in Nat : n <= size => after[n] \in Table /\ GoodAreas(after[n].areas, Before(n))}
  <2>1. 0 \in S
    <3>1. none \in Table /\ none.areas = <<>>
      OBVIOUS
    <3>2. GoodAreas(<<>>, Before(0))
      BY RoomForAreas DEF GoodAreas, AreDisjoint, PagesIn
    <3> QED
      BY <1>5, <3>1, <3>2
  <2>2. ASSUME NEW n \in Nat, n \in S
        PROVE  n + 1 \in S
    <3> DEFINE filled == after[n]  desc == map[n + 1]
    <3> SUFFICES ASSUME n + 1 <= size
                 PROVE  after[n + 1] \in Table /\ GoodAreas(after[n + 1].areas, Before(n + 1))
      OBVIOUS
    <3>1. n + 1 \in 1 .. size /\ n \in 0 .. (size - 1) /\ n <= size
      BY <1>1
    <3>2. filled \in Table /\ GoodAreas(filled.areas, Before(n)) /\ desc \in Descriptor
      BY <1>1, <2>2, <3>1
    <3>3. after[n + 1] = scan_desc(filled, desc)
      BY <1>5, <3>1
    <3>4. Before(n) \subseteq Before(n + 1)
      <4>1. 1 .. n \subseteq 1 .. (n + 1)
        OBVIOUS
      <4> QED
        BY <4>1
    <3>5. CASE filled.full \/ ~is_memory_desc_usable(desc)
      <4>1. after[n + 1] = filled
        BY <3>3, <3>5 DEF scan_desc
      <4> HIDE DEF filled, Before
      <4> QED
        BY <3>2, <3>4, <4>1, MoreRoom
    <3>6. CASE ~filled.full /\ is_memory_desc_usable(desc) /\ IsFull(filled.areas)
      <4>1. after[n + 1] = [filled EXCEPT !.full = TRUE]
        BY <3>3, <3>6 DEF scan_desc
      <4>2. after[n + 1] \in Table /\ after[n + 1].areas = filled.areas
        <5> HIDE DEF filled
        <5> QED
          BY <3>2, <4>1
      <4> HIDE DEF filled, Before
      <4> QED
        BY <3>2, <3>4, <4>2, MoreRoom
    <3>7. CASE ~filled.full /\ is_memory_desc_usable(desc) /\ ~IsFull(filled.areas)
      <4>1. after[n + 1] = [filled EXCEPT !.areas = insert_desc(filled.areas, desc)]
        BY <3>3, <3>7 DEF scan_desc
      <4>2. desc.start \in Nat /\ desc.size \in Nat \ {0}
        <5> HIDE DEF desc
        <5> QED
          BY <3>2 DEF Descriptor
      <4>3. PagesOf(desc) \cap Before(n) = {}
        <5>1. \A k \in 1 .. n : k \in DOMAIN map /\ n + 1 \in DOMAIN map /\ k # n + 1
          BY <1>1, <3>1
        <5>2. \A k \in 1 .. n : PagesOf(desc) \cap PagesOf(map[k]) = {}
          BY <5>1
        <5> HIDE DEF desc
        <5> QED
          BY <5>2
      <4>4. filled.areas \in Seq(Area) /\ filled \in Table
        BY <3>2
      <4>5. GoodAreas(insert_desc(filled.areas, desc), Before(n) \cup PagesOf(desc))
        <5> HIDE DEF filled, desc, Before
        <5> QED
          BY <3>2, <3>7, <4>2, <4>3, <4>4, Inserted
      <4>6. Before(n) \cup PagesOf(desc) \subseteq Before(n + 1)
        <5>1. n + 1 \in {j \in 1 .. (n + 1) : is_memory_desc_usable(map[j])}
          BY <3>1, <3>7
        <5>2. PagesOf(desc) \subseteq Before(n + 1)
          BY <5>1
        <5> HIDE DEF Before, desc
        <5> QED
          BY <3>4, <5>2
      <4>7. after[n + 1] \in Table /\ after[n + 1].areas = insert_desc(filled.areas, desc)
        <5>1. insert_desc(filled.areas, desc) \in Seq(Area)
          BY <4>5 DEF GoodAreas
        <5> HIDE DEF filled, desc
        <5> QED
          BY <4>1, <4>4, <5>1
      <4> HIDE DEF filled, desc, Before
      <4> QED
        BY <4>5, <4>6, <4>7, MoreRoom
    <3> QED
      BY <3>5, <3>6, <3>7
  <2> HIDE DEF S
  <2>3. Nat \subseteq S
    BY <2>1, <2>2, AllNumbers
  <2> QED
    BY <2>3 DEF S
<1>7. GoodAreas(after[size].areas, Before(size))
  <2> HIDE DEF Before, Table, size
  <2>1. size \in Nat /\ size <= size
    BY <1>1
  <2> QED
    BY <1>6, <2>1
<1> QED
  BY <1>1, <1>2, <1>7

-------------------------------------------------------------------------------
(* The descriptors of a memory. *)

(* A descriptor is a run of pages of one type, as long as can be. *)
LEMMA DescRuns ==
  ASSUME NEW m \in [Pages -> Types], NEW p \in Starts(m)
  PROVE  LET d == Desc(m, p)
         IN  /\ d \in Descriptor /\ d.start = p /\ d.type = m[p]
             /\ EndOf(d) \in Nat /\ EndOf(d) > p
             /\ PagesOf(d) \subseteq Pages
             /\ \A q \in PagesOf(d) : p <= q /\ q < EndOf(d) /\ m[q] = m[p]
             /\ \A q \in Pages : p <= q /\ q < EndOf(d) => q \in PagesOf(d)
             /\ EndOf(d) = PageCount + 1 \/ (EndOf(d) \in Pages /\ m[EndOf(d)] # m[p])
PROOF
<1> DEFINE beyond == {q \in p + 1 .. PageCount + 1 : q = PageCount + 1 \/ m[q] # m[p]}
           next == CHOOSE q \in beyond : \A r \in beyond : q <= r
           d == Desc(m, p)
<1>1. PageCount \in Nat /\ Pages = 1 .. PageCount /\ p \in Pages
  BY Sizes DEF Pages, Starts
<1>2. d = [start |-> p, size |-> next - p, type |-> m[p]]
  BY DEF Desc
<1>3. next \in beyond /\ \A r \in beyond : next <= r
  <2>1. PageCount + 1 \in beyond /\ beyond \subseteq Nat
    BY <1>1
  <2> HIDE DEF beyond
  <2>2. \E q \in beyond : \A r \in beyond : q <= r
    BY <2>1, Least
  <2> QED
    BY <2>2
<1>4. next \in p + 1 .. PageCount + 1 /\ (next = PageCount + 1 \/ m[next] # m[p])
  BY <1>3
<1>5. \A q \in Pages : p <= q /\ q < next => m[q] = m[p]
  <2> SUFFICES ASSUME NEW q \in Pages, p <= q, q < next, m[q] # m[p]
               PROVE  FALSE
    OBVIOUS
  <2>1. q # p
    OBVIOUS
  <2>2. q \in beyond /\ ~(next <= q)
    BY <1>1, <1>4, <2>1
  <2> QED
    BY <1>3, <2>2
<1> HIDE DEF next, beyond, d
<1>6. p \in Nat /\ next \in Nat /\ next > p /\ next - p \in Nat \ {0} /\ p + (next - p) = next
  BY <1>1, <1>4
<1>7. d \in Descriptor /\ d.start = p /\ d.type = m[p] /\ d.size = next - p
  BY <1>1, <1>2, <1>6 DEF Descriptor
<1>8. EndOf(d) = next
  BY <1>6, <1>7 DEF EndOf
<1>9. PagesOf(d) = p .. (next - 1)
  BY <1>7, <1>8 DEF PagesOf
<1>10. \A q \in PagesOf(d) : q \in Pages /\ p <= q /\ q < next
  BY <1>1, <1>4, <1>6, <1>9
<1>11. \A q \in Pages : p <= q /\ q < next => q \in PagesOf(d)
  BY <1>1, <1>6, <1>9
<1>12. next = PageCount + 1 \/ (next \in Pages /\ m[next] # m[p])
  BY <1>1, <1>4
<1> QED
  BY <1>5, <1>6, <1>7, <1>8, <1>10, <1>11, <1>12 DEF d

(* No page is in two descriptors. *)
LEMMA DescsApart ==
  ASSUME NEW m \in [Pages -> Types], NEW p \in Starts(m), NEW q \in Starts(m), p # q
  PROVE  PagesOf(Desc(m, p)) \cap PagesOf(Desc(m, q)) = {}
PROOF
<1>1. ASSUME NEW a \in Starts(m), NEW b \in Starts(m), a < b
      PROVE  b >= EndOf(Desc(m, a))
  <2> SUFFICES ASSUME b < EndOf(Desc(m, a))
               PROVE  FALSE
    <3>1. EndOf(Desc(m, a)) \in Nat /\ b \in Nat
      <4>1. EndOf(Desc(m, a)) \in Nat
        BY DescRuns
      <4>2. b \in Nat
        BY DEF Starts, Pages
      <4> QED
        BY <4>1, <4>2
    <3> QED
      BY <3>1
  <2>1. a \in Pages /\ b \in Pages /\ a \in Nat /\ b \in Nat /\ b - 1 \in Pages /\ b # 1 /\ a <= b - 1
    BY <1>1, Sizes DEF Starts, Pages
  <2>2. EndOf(Desc(m, a)) \in Nat
    BY DescRuns
  <2>3. b \in PagesOf(Desc(m, a)) /\ b - 1 \in PagesOf(Desc(m, a))
    <3>1. a <= b /\ b - 1 < EndOf(Desc(m, a))
      BY <2>1, <2>2
    <3> QED
      BY <2>1, <3>1, DescRuns
  <2>4. m[b] = m[a] /\ m[b - 1] = m[a]
    BY <2>3, DescRuns
  <2> QED
    BY <2>1, <2>4 DEF Starts
<1>2. p \in Nat /\ q \in Nat
  BY DEF Starts, Pages
<1>3. EndOf(Desc(m, p)) \in Nat /\ EndOf(Desc(m, q)) \in Nat
  BY DescRuns
<1>4. /\ \A r \in PagesOf(Desc(m, p)) : r \in Pages /\ p <= r /\ r < EndOf(Desc(m, p))
      /\ \A r \in PagesOf(Desc(m, q)) : r \in Pages /\ q <= r /\ r < EndOf(Desc(m, q))
  BY DescRuns
<1>5. Pages \subseteq Nat
  BY DEF Pages
<1>6. p < q \/ q < p
  BY <1>2
<1>7. ASSUME NEW r \in PagesOf(Desc(m, p)), r \in PagesOf(Desc(m, q))
      PROVE  FALSE
  <2>1. /\ r \in Nat /\ p <= r /\ r < EndOf(Desc(m, p))
        /\ q <= r /\ r < EndOf(Desc(m, q))
    BY <1>4, <1>5, <1>7
  <2>2. CASE p < q
    BY <1>1, <1>2, <1>3, <2>1, <2>2
  <2>3. CASE q < p
    BY <1>1, <1>2, <1>3, <2>1, <2>3
  <2> QED
    BY <1>6, <2>2, <2>3
<1> QED
  BY <1>7

(* Every page is in a descriptor, of its own type. *)
LEMMA DescsCover ==
  ASSUME NEW m \in [Pages -> Types], NEW q \in Pages
  PROVE  \E p \in Starts(m) : q \in PagesOf(Desc(m, p)) /\ Desc(m, p).type = m[q]
PROOF
<1> DEFINE back == {n \in 0 .. (q - 1) : q - n \in Starts(m)}
<1>1. PageCount \in Nat /\ Pages = 1 .. PageCount /\ q \in 1 .. PageCount
  BY Sizes DEF Pages
<1>2. q - 1 \in back
  <2>1. 1 \in Starts(m)
    BY <1>1 DEF Starts
  <2> QED
    BY <1>1, <2>1
<1>3. PICK n \in back : \A k \in back : n <= k
  <2>1. back \subseteq Nat
    BY <1>1
  <2> HIDE DEF back
  <2> QED
    BY <1>2, <2>1, Least
<1>4. q - n \in Starts(m) /\ n \in 0 .. (q - 1) /\ q - n \in Pages
  BY <1>1, <1>3 DEF Starts
<1> DEFINE d == Desc(m, q - n)
<1>5. /\ EndOf(d) > q - n /\ EndOf(d) \in Nat
      /\ EndOf(d) = PageCount + 1 \/ (EndOf(d) \in Pages /\ m[EndOf(d)] # m[q - n])
      /\ \A r \in Pages : q - n <= r /\ r < EndOf(d) => r \in PagesOf(d) /\ m[r] = m[q - n]
      /\ d.type = m[q - n]
  BY <1>4, DescRuns
<1> HIDE DEF d
<1>6. q < EndOf(d)
  <2> SUFFICES ASSUME EndOf(d) <= q
               PROVE  FALSE
    BY <1>1, <1>5
  <2> DEFINE e == EndOf(d)
  <2>1. e \in Pages /\ m[e] # m[q - n] /\ e - 1 \in Pages /\ q - n <= e - 1 /\ e - 1 < e
    BY <1>1, <1>4, <1>5
  <2>2. m[e - 1] = m[q - n]
    BY <1>5, <2>1
  <2>3. e \in Starts(m)
    BY <2>1, <2>2 DEF Starts
  <2>4. q - e \in 0 .. (q - 1) /\ q - (q - e) = e /\ q - e < n
    BY <1>1, <1>4, <1>5, <2>1
  <2>5. q - e \in back
    BY <2>3, <2>4
  <2> QED
    BY <1>3, <1>4, <2>4, <2>5
<1>7. q - n <= q
  BY <1>1, <1>4
<1>8. q \in PagesOf(d) /\ m[q] = m[q - n]
  BY <1>5, <1>6, <1>7
<1> QED
  BY <1>4, <1>5, <1>8 DEF d

(* The k-th member of a set of pages. *)
LEMMA Ranked ==
  ASSUME NEW S, S \subseteq Pages, NEW k \in 1 .. Cardinality(S)
  PROVE  \E p \in S : Cardinality({q \in S : q <= p}) = k
PROOF
<1> DEFINE n == Cardinality(S)
           Below(p) == {q \in S : q <= p}
           rank == [p \in S |-> Cardinality(Below(p))]
<1>1. IsFiniteSet(S) /\ n \in Nat /\ S \subseteq Nat
  <2>1. IsFiniteSet(Pages) /\ Pages \subseteq Nat
    <3>1. 1 \in Int /\ PageCount \in Int
      BY Sizes
    <3>2. IsFiniteSet(1 .. PageCount)
      BY <3>1, FS_Interval
    <3> QED
      BY <3>2 DEF Pages
  <2> QED
    BY <2>1, FS_Subset, FS_CardinalityType
<1>2. \A p \in S : IsFiniteSet(Below(p)) /\ rank[p] \in 1 .. n
  <2> SUFFICES ASSUME NEW p \in S
               PROVE  IsFiniteSet(Below(p)) /\ rank[p] \in 1 .. n
    OBVIOUS
  <2>1. Below(p) \in SUBSET S /\ p \in Below(p)
    BY <1>1
  <2>2. IsFiniteSet(Below(p)) /\ Cardinality(Below(p)) <= n
    BY <1>1, <2>1, FS_Subset
  <2>3. Cardinality(Below(p)) \in Nat /\ Cardinality(Below(p)) # 0
    <3> HIDE DEF Below
    <3> QED
      BY <2>1, <2>2, FS_CardinalityType, FS_EmptySet
  <2> HIDE DEF Below, n
  <2> QED
    BY <1>1, <2>2, <2>3
<1>3. \A p, q \in S : p < q => rank[p] < rank[q]
  <2> SUFFICES ASSUME NEW p \in S, NEW q \in S, p < q
               PROVE  rank[p] < rank[q]
    OBVIOUS
  <2>1. Below(p) \in SUBSET Below(q) /\ q \in Below(q) /\ q \notin Below(p)
    <3>1. p \in Nat /\ q \in Nat /\ \A r \in S : r \in Nat
      BY <1>1
    <3>2. \A r \in S : r <= p => r <= q
      BY <3>1
    <3>3. q <= q /\ ~(q <= p)
      BY <3>1
    <3> QED
      BY <3>2, <3>3
  <2>2. Cardinality(Below(p)) <= Cardinality(Below(q)) /\ Cardinality(Below(p)) # Cardinality(Below(q))
    <3>1. IsFiniteSet(Below(q))
      BY <1>2
    <3> HIDE DEF Below
    <3> QED
      BY <2>1, <3>1, FS_Subset
  <2>3. rank[p] = Cardinality(Below(p)) /\ rank[q] = Cardinality(Below(q)) /\ rank[p] \in Nat /\ rank[q] \in Nat
    <3>1. rank[p] \in 1 .. n /\ rank[q] \in 1 .. n
      BY <1>2
    <3> QED
      BY <1>1, <3>1
  <2> HIDE DEF Below, rank
  <2> QED
    BY <2>2, <2>3
<1>4. rank \in Injection(S, 1 .. n)
  <2>1. rank \in [S -> 1 .. n]
    BY <1>2
  <2>2. \A p, q \in S : rank[p] = rank[q] => p = q
    <3> SUFFICES ASSUME NEW p \in S, NEW q \in S, rank[p] = rank[q], p # q
                 PROVE  FALSE
      OBVIOUS
    <3>1. p < q \/ q < p
      BY <1>1
    <3>2. rank[p] \in Nat /\ rank[q] \in Nat
      BY <1>1, <1>2
    <3> HIDE DEF rank
    <3> QED
      BY <1>3, <3>1, <3>2
  <2> HIDE DEF rank
  <2> QED
    BY <2>1, <2>2 DEF Injection, IsInjective
<1>5. rank \in Surjection(S, 1 .. n)
  <2>1. IsFiniteSet(1 .. n) /\ Cardinality(1 .. n) = n
    BY <1>1, FS_Interval
  <2> HIDE DEF rank
  <2> QED
    BY <1>4, <2>1, FS_Injection
<1>6. \E p \in S : rank[p] = k
  <2> HIDE DEF rank
  <2> QED
    BY <1>5 DEF Surjection
<1> QED
  BY <1>6

(* A memory map lists every descriptor once. *)
LEMMA MapsListDescs ==
  ASSUME NEW m \in [Pages -> Types], NEW map \in MemoryMaps(m)
  PROVE  /\ map \in Seq(Descriptor)
         /\ \A k \in DOMAIN map : \E p \in Starts(m) : map[k] = Desc(m, p)
         /\ \A j, k \in DOMAIN map : j # k => PagesOf(map[j]) \cap PagesOf(map[k]) = {}
PROOF
<1> DEFINE S == Starts(m)
           n == Cardinality(S)
           rank(p) == Cardinality({q \in S : q <= p})
           nth == [k \in 1 .. n |-> CHOOSE p \in S : rank(p) = k]
<1>1. n \in 1 .. PageCount
  <2>1. S \in SUBSET Pages /\ 1 \in S
    BY Sizes DEF Starts, Pages
  <2>2. IsFiniteSet(Pages) /\ Cardinality(Pages) = PageCount
    BY Sizes, FS_Interval DEF Pages
  <2> HIDE DEF S
  <2>3. IsFiniteSet(S) /\ n <= PageCount /\ n \in Nat /\ n # 0
    BY <2>1, <2>2, FS_Subset, FS_CardinalityType, FS_EmptySet
  <2> QED
    BY <2>3, Sizes
<1>2. PICK o \in Orders[n] : map = [k \in 1 .. n |-> Desc(m, nth[o[k]])]
  BY DEF MemoryMaps
<1>3. o \in [1 .. n -> 1 .. n] /\ \A j, k \in 1 .. n : o[j] = o[k] => j = k
  BY <1>1, <1>2, OrdersAreOrders
<1>4. \A k \in 1 .. n : nth[k] \in S /\ rank(nth[k]) = k
  <2> SUFFICES ASSUME NEW k \in 1 .. n
               PROVE  nth[k] \in S /\ rank(nth[k]) = k
    OBVIOUS
  <2>1. S \subseteq Pages
    BY DEF Starts
  <2>2. \E p \in S : rank(p) = k
    <3> HIDE DEF S
    <3> QED
      BY <2>1, Ranked
  <2>3. nth[k] = CHOOSE p \in S : rank(p) = k
    OBVIOUS
  <2> HIDE DEF S, rank, nth
  <2> QED
    BY <2>2, <2>3
<1> HIDE DEF nth, rank
<1>5. \A j, k \in 1 .. n : j # k => nth[o[j]] # nth[o[k]]
  BY <1>3, <1>4
<1>6. \A k \in 1 .. n : nth[o[k]] \in Starts(m)
  BY <1>3, <1>4
<1>7. /\ DOMAIN map = 1 .. n
      /\ \A k \in 1 .. n : map[k] = Desc(m, nth[o[k]]) /\ map[k] \in Descriptor
  BY <1>2, <1>6, DescRuns
<1>8. map \in Seq(Descriptor)
  <2> HIDE DEF n
  <2>1. map = [k \in 1 .. n |-> map[k]] /\ n \in Nat
    BY <1>1, <1>2, <1>7
  <2>2. map \in [1 .. n -> Descriptor]
    BY <1>7, <2>1
  <2> QED
    BY <2>1, <2>2
<1> HIDE DEF n, S
<1> QED
  BY <1>5, <1>6, <1>7, <1>8, DescsApart

-------------------------------------------------------------------------------
(* The header, and what the kernel keeps mapped. *)

LEMMA HeaderInit == EntryInit => HeaderInv /\ RuntimeInv
PROOF
<1> SUFFICES ASSUME EntryInit
             PROVE  HeaderInv /\ RuntimeInv
  OBVIOUS
<1>1. header = [rsdp |-> 0, facs |-> 0, ram_areas |-> <<>>] /\ pc = "load_core"
  BY DEF EntryInit, Init
<1>2. GoodAreas(<<>>, Pages)
  BY RoomForAreas DEF GoodAreas, AreDisjoint, PagesIn
<1>3. pc \notin AfterDisk /\ pc \notin AfterAreas /\ pc \notin {"kernel", "virtual"}
  BY <1>1, StepSets
<1> QED
  BY <1>1, <1>2, <1>3 DEF HeaderInv, RuntimeInv

(* Where the steps of efi_main that succeed lead. *)
LEMMA EfiSteps ==
  ASSUME MemoryInv, EfiMain, ~err'
  PROVE  /\ pc' \notin {"kernel", "virtual"}
         /\ ~fill_disk_pci /\ ~fill_core_header => pc' \notin AfterDisk /\ UNCHANGED header
PROOF
<1>1. CASE unhook_services
  <2>1. pc \in Unhooking /\ err' = err
    BY <1>1 DEF unhook_services, remove_virtual_address_map_event, unhook_get_memory_map, unhook_set_variable,
                Unhook, Goto, Unhooking
  <2> QED
    BY <2>1 DEF MemoryInv, ErrInv
<1>2. CASE fill_disk_pci \/ fill_core_header
  BY <1>2 DEF fill_disk_pci, fill_core_header, Fail, Goto
<1>3. CASE \/ load_core \/ find_acpi_tables \/ hook_set_variable \/ hook_get_memory_map
           \/ create_virtual_address_map_event \/ create_or_hook_pts \/ append_method
  <2>1. pc' \in {"load_rm", "load_pm", "find_acpi_tables", "set_variable", "get_memory_map",
                 "virtual_address_map_event", "find_pts", "append_head", "append_body", "fill_disk_pci"}
    BY <1>3 DEF load_core, LoadPart, find_acpi_tables, hook_set_variable, hook_get_memory_map, hook_service,
                create_virtual_address_map_event, create_or_hook_pts, append_method, append_dsdt, Fail, Goto
  <2>2. pc' \notin AfterDisk
    BY <2>1 DEF AfterDisk, AfterAreas, Kernel, InCore, Mapped, Paged
  <2>3. UNCHANGED header
    BY <1>3 DEF load_core, LoadPart, find_acpi_tables, hook_set_variable, hook_get_memory_map, hook_service,
                create_virtual_address_map_event, create_or_hook_pts, append_method, append_dsdt
  <2> QED
    BY <2>1, <2>2, <2>3
<1> QED
  BY <1>1, <1>2, <1>3 DEF EfiMain

(* The memory map is taken, and its usable memory listed. *)
LEMMA HeaderFilled ==
  ASSUME MemoryInv, HeaderInv, fill_core_header
  PROVE  HeaderInv'
PROOF
<1>1. pc = "fill_ram_areas" /\ UNCHANGED <<machine, type, g>>
  BY DEF fill_core_header, acpi
<1>2. ~err /\ pc \in AfterDisk
  BY <1>1 DEF MemoryInv, ErrInv, Unhooking, Kernel, AfterDisk
<1>3. CASE Fail /\ UNCHANGED header
  BY <1>3 DEF HeaderInv, Fail
<1>4. ASSUME NEW p \in FreePages, NEW map \in MemoryMaps([type EXCEPT ![p] = "loader"]),
             header' = [header EXCEPT !.ram_areas = fill_ram_areas(map).areas],
             IF fill_ram_areas(map).full THEN Fail ELSE Goto("boot")
      PROVE  HeaderInv'
  <2> DEFINE m == [type EXCEPT ![p] = "loader"]
             usable == {q \in Pages : m[q] \in UsableTypes}
             areas == fill_ram_areas(map).areas
  <2>1. m \in [Pages -> Types] /\ \A q \in Pages : m[q] \in UsableTypes => type[q] \in UsableTypes
    BY DEF MemoryInv, TypeInv, FreePages, Types, UsableTypes
  <2>2. /\ map \in Seq(Descriptor)
        /\ \A k \in DOMAIN map : \E s \in Starts(m) : map[k] = Desc(m, s)
        /\ \A j, k \in DOMAIN map : j # k => PagesOf(map[j]) \cap PagesOf(map[k]) = {}
    <3> HIDE DEF m
    <3>1. map \in MemoryMaps(m)
      BY <1>4 DEF m
    <3> QED
      BY <2>1, <3>1, MapsListDescs
  <2> HIDE DEF m
  <2>3. \A k \in DOMAIN map : is_memory_desc_usable(map[k]) => PagesOf(map[k]) \subseteq usable
    <3> SUFFICES ASSUME NEW k \in DOMAIN map, is_memory_desc_usable(map[k])
                 PROVE  PagesOf(map[k]) \subseteq usable
      OBVIOUS
    <3>1. PICK s \in Starts(m) : map[k] = Desc(m, s)
      BY <2>2
    <3>2. map[k].type = m[s] /\ PagesOf(map[k]) \subseteq Pages /\ \A q \in PagesOf(map[k]) : m[q] = m[s]
      BY <2>1, <3>1, DescRuns
    <3> QED
      BY <3>2 DEF is_memory_desc_usable
  <2>4. GoodAreas(areas, usable)
    <3> DEFINE listed == UNION {PagesOf(map[k]) : k \in {j \in DOMAIN map : is_memory_desc_usable(map[j])}}
    <3>1. GoodAreas(areas, listed)
      BY <2>2, Filled
    <3>2. listed \subseteq usable
      BY <2>3
    <3> HIDE DEF listed, areas, usable
    <3> QED
      BY <3>1, <3>2, MoreRoom
  <2>5. GoodAreas(areas, Pages)
    <3>1. usable \subseteq Pages
      OBVIOUS
    <3> HIDE DEF usable, areas
    <3> QED
      BY <2>4, <3>1, MoreRoom
  <2>6. \A q \in PagesIn(areas) : type[q] \in UsableTypes
    <3>1. PagesIn(areas) \subseteq usable
      BY <2>4 DEF GoodAreas
    <3> HIDE DEF areas
    <3> QED
      BY <2>1, <3>1
  <2> HIDE DEF areas
  <2>7. /\ header'.ram_areas = areas /\ DOMAIN header' = DOMAIN header
        /\ header'.rsdp = header.rsdp /\ header'.facs = header.facs
    BY <1>4 DEF HeaderInv, areas
  <2>8. err' = TRUE \/ err' = err
    BY <1>4 DEF Fail, Goto
  <2> QED
    BY <1>1, <1>2, <2>5, <2>6, <2>7, <2>8 DEF HeaderInv
<1> QED
  BY <1>3, <1>4 DEF fill_core_header

LEMMA HeaderNext == MemoryInv /\ HeaderInv /\ [EntryNext]_allVars => HeaderInv'
PROOF
<1> SUFFICES ASSUME MemoryInv, HeaderInv, [EntryNext]_allVars
             PROVE  HeaderInv'
  OBVIOUS
<1>1. CASE fill_core_header
  BY <1>1, HeaderFilled
<1>2. CASE fill_disk_pci
  <2>1. /\ header' = [header EXCEPT !.rsdp = g.rsdp, !.facs = g.facs] /\ g' = g
        /\ pc' \in {"unhook", "fill_ram_areas"}
    BY <1>2 DEF fill_disk_pci, Fail, Goto, acpi
  <2>2. /\ DOMAIN header' = DOMAIN header /\ header'.rsdp = g.rsdp /\ header'.facs = g.facs
        /\ header'.ram_areas = header.ram_areas
    BY <2>1 DEF HeaderInv
  <2>3. pc' \notin AfterAreas
    BY <2>1 DEF AfterAreas, Kernel, InCore, Mapped, Paged
  <2> QED
    BY <2>1, <2>2, <2>3 DEF HeaderInv
<1>3. CASE EfiMain /\ ~fill_core_header /\ ~fill_disk_pci
  <2>1. UNCHANGED header
    BY <1>3 DEF EfiMain, load_core, LoadPart, find_acpi_tables, hook_set_variable, hook_get_memory_map,
                hook_service, create_virtual_address_map_event, create_or_hook_pts, append_method, append_dsdt,
                unhook_services, remove_virtual_address_map_event, unhook_get_memory_map, unhook_set_variable,
                Unhook
  <2>2. ~err' => pc' \notin AfterDisk /\ pc' \notin AfterAreas
    BY <1>3, EfiSteps, StepSets
  <2> QED
    BY <2>1, <2>2 DEF HeaderInv
<1>4. CASE GetMemoryMap \/ virtual_address_map_event \/ EnterCore
  <2>1. UNCHANGED <<err, type, g, header>>
    BY <1>4, LaterStep DEF acpi
  <2>2. pc \in AfterAreas
    BY <1>4, CoreSteps DEF GetMemoryMap, virtual_address_map_event, AfterAreas, Kernel
  <2> QED
    BY <2>1, <2>2, StepSets DEF HeaderInv
<1>5. CASE UNCHANGED allVars
  BY <1>5 DEF allVars, vars, acpi, HeaderInv
<1> QED
  BY <1>1, <1>2, <1>3, <1>4, <1>5 DEF EntryNext, Next

LEMMA HeaderInvariant == EntrySpec => []HeaderInv
BY HeaderInit, HeaderNext, MemoryInvariant, PTL DEF EntrySpec

(* The FACS is where the firmware put it, in memory of its own. *)
LEMMA FacsKept ==
  ASSUME MemoryInv, FoundInv, g # NoTables
  PROVE  g.facs \in Pages /\ type[g.facs] = "nvs" /\ g.facs # 0 /\ g.rsdp # 0
PROOF
<1>1. g.facs \in Pages /\ machine.memory[g.facs] = "nvs" /\ g.rsdp # 0
  BY FoundFacts DEF MemoryInv, TypeInv, FoundInv
<1> QED
  BY <1>1, NoPage DEF MemoryInv, ReservedInv

(* The areas the core is given do not overlap, in whatever order the       *)
(* firmware lists its memory, and hold nothing but memory a kernel may     *)
(* use: not the core, not the patched DSDT, not the FACS                   *)
(* (uefi/core_header_utils.c).                                             *)
THEOREM AreasStaySound == EntrySpec => []AreasAreSound
PROOF
<1>1. MemoryInv /\ FoundInv /\ HeaderInv => AreasAreSound
  <2> SUFFICES ASSUME MemoryInv, FoundInv, HeaderInv
               PROVE  AreasAreSound
    OBVIOUS
  <2>1. AreDisjoint(header.ram_areas)
    BY DEF HeaderInv, GoodAreas
  <2>2. ASSUME Booted, ~err
        PROVE  /\ \A p \in PagesIn(header.ram_areas) : type[p] \in UsableTypes
               /\ PagesIn(header.ram_areas) \cap (PartPages \cup {g.facs} \cup Run(g.dsdt, DsdtPages)) = {}
    <3>1. pc \in Kernel
      BY <2>2 DEF Booted, Kernel
    <3>2. \A p \in PagesIn(header.ram_areas) : p \in Pages /\ type[p] \in UsableTypes
      BY <2>2, <3>1, StepSets DEF HeaderInv, GoodAreas
    <3>3. g # NoTables /\ Copy = Run(g.dsdt, DsdtPages) /\ LoadedParts = PartPages
      BY <2>2, <3>1, StepSets DEF FoundInv, MemoryInv, ReservedInv, Copy, LoadedParts, Kernel
    <3>4. \A p \in PartPages \cup Copy : type[p] = "reserved"
      BY <2>2, <3>3, Sizes DEF MemoryInv, ReservedInv
    <3>5. type[g.facs] = "nvs"
      BY <3>3, FacsKept
    <3>6. "reserved" \notin UsableTypes /\ "nvs" \notin UsableTypes
      BY DEF UsableTypes
    <3> QED
      BY <3>2, <3>3, <3>4, <3>5, <3>6
  <2> QED
    BY <2>1, <2>2 DEF AreasAreSound
<1> QED
  BY <1>1, MemoryInvariant, TablesInvariant, HeaderInvariant, PTL

LEMMA CoreStart == Core.start \in PartPages /\ Core.start \in Pages
PROOF
<1>1. Core.start \in PagesOf(Core)
  BY Sizes, PartsFit DEF PagesOf, EndOf
<1> QED
  BY <1>1, Sizes DEF PartPages

(* The memory map that a kernel is given covers the firmware, the hooks,   *)
(* and the runtime areas.                                                  *)
LEMMA MapCovers ==
  ASSUME MemoryInv, FoundInv, GetMemoryMap, ~err
  PROVE  {g.facs, Core.start, FirmwarePage, hook["set_variable"]} \subseteq runtime'
PROOF
<1>1. pc = "boot"
  BY DEF GetMemoryMap
<1>2. pc \in AfterSetVariable /\ pc \in AfterGetMemoryMap /\ pc \in AfterTables
  BY <1>1, StepSets DEF Kernel
<1>3. hook["set_variable"] # 0 /\ hook["get_memory_map"] # 0
  BY <1>2 DEF MemoryInv, LoadedInv
<1>4. service["GetMemoryMap"] # FirmwarePage
  <2>1. "GetMemoryMap" \in Services /\ HookOf["GetMemoryMap"] = "get_memory_map" /\ "get_memory_map" \in Hooks
    BY DEF Services, HookOf, Hooks
  <2> QED
    BY <1>3, <2>1 DEF MemoryInv, HookInv
<1>5. /\ hook["set_variable"] \in Pages /\ type[hook["set_variable"]] = "runtime_services"
      /\ FirmwarePage \in Pages /\ type[FirmwarePage] = "runtime_services"
      /\ g.facs \in Pages /\ Core.start \in Pages
  <2>1. "set_variable" \in Hooks
    BY DEF Hooks
  <2>2. g # NoTables
    BY <1>2 DEF FoundInv
  <2> QED
    BY <1>3, <2>1, <2>2, FacsKept, CoreStart, Sizes DEF MemoryInv, HookInv, TypeInv
<1> DEFINE firmwares == {d \in Descs(type) : d.type = "runtime_services"}
           marked == {d \in Descs(type) : RuntimeAreas \cap PagesOf(d) # {}}
<1>6. runtime' = UNION {PagesOf(d) : d \in firmwares \cup marked}
  BY <1>4 DEF GetMemoryMap
<1>7. \A p \in Pages : \E d \in Descs(type) : p \in PagesOf(d) /\ d.type = type[p]
  <2>1. type \in [Pages -> Types]
    BY DEF MemoryInv, TypeInv
  <2> QED
    BY <2>1, DescsCover DEF Descs
<1>8. ASSUME NEW p \in {FirmwarePage, hook["set_variable"]}
      PROVE  p \in runtime'
  <2>1. PICK d \in Descs(type) : p \in PagesOf(d) /\ d.type = "runtime_services"
    BY <1>5, <1>7
  <2>2. d \in firmwares
    BY <2>1
  <2> HIDE DEF firmwares, marked
  <2> QED
    BY <1>6, <2>1, <2>2
<1>9. ASSUME NEW p \in {g.facs, Core.start}
      PROVE  p \in runtime'
  <2>1. PICK d \in Descs(type) : p \in PagesOf(d)
    BY <1>5, <1>7
  <2>2. d \in marked
    BY <2>1 DEF RuntimeAreas
  <2> HIDE DEF firmwares, marked
  <2> QED
    BY <1>6, <2>1, <2>2
<1> QED
  BY <1>8, <1>9

LEMMA Moved ==
  ASSUME MemoryInv, RuntimeInv, virtual_address_map_event, ~err
  PROVE  moved' = ToSet(Pointers)
PROOF
<1>1. pc = "kernel"
  BY DEF virtual_address_map_event
<1>2. hook["virtual_address_map_event"] \in events
  <2>1. pc \in AfterEvent
    BY <1>1, StepSets DEF Kernel
  <2> QED
    BY <2>1 DEF MemoryInv, LoadedInv
<1>3. {g.facs, Core.start, FirmwarePage, hook["set_variable"]} \subseteq runtime
  BY <1>1 DEF RuntimeInv
<1>4. DOMAIN Pointers = 1 .. 4 /\ DOMAIN Target = 1 .. 4
  BY DEF Pointers, Target
<1>5. \A k \in 1 .. 4 : Target[k] \in {FirmwarePage, g.facs, Core.start}
  BY DEF Target
<1>6. \A k \in 1 .. 4 : Converts(k)
  BY <1>3, <1>5 DEF Converts
<1>7. {n \in DOMAIN Pointers : \A j \in 1 .. n : Converts(j)} = DOMAIN Pointers
  BY <1>4, <1>6
<1> DEFINE whole == {n \in DOMAIN Pointers : \A j \in 1 .. n : Converts(j)}
<1>8. moved' = {Pointers[k] : k \in whole}
  BY <1>2 DEF virtual_address_map_event
<1> HIDE DEF whole
<1>9. moved' = {Pointers[k] : k \in DOMAIN Pointers}
  BY <1>7, <1>8 DEF whole
<1> QED
  BY <1>9 DEF ToSet

LEMMA RuntimeNext == MemoryInv /\ FoundInv /\ RuntimeInv /\ [EntryNext]_allVars => RuntimeInv'
PROOF
<1> SUFFICES ASSUME MemoryInv, FoundInv, RuntimeInv, [EntryNext]_allVars
             PROVE  RuntimeInv'
  OBVIOUS
<1>1. CASE EfiMain
  BY <1>1, EfiSteps DEF RuntimeInv
<1>2. CASE GetMemoryMap
  <2>1. /\ UNCHANGED <<g, hook, err>>
        /\ pc' = "kernel"
    BY <1>2 DEF GetMemoryMap, acpi
  <2> QED
    BY <1>2, <2>1, MapCovers DEF RuntimeInv
<1>3. CASE virtual_address_map_event
  <2>1. UNCHANGED <<g, hook, err, runtime>> /\ pc = "kernel"
    BY <1>3 DEF virtual_address_map_event, acpi
  <2>2. ToSet(Pointers)' = ToSet(Pointers)
    BY DEF ToSet, Pointers
  <2> QED
    BY <1>3, <2>1, <2>2, Moved DEF RuntimeInv
<1>4. CASE EnterCore
  <2>1. pc' \notin {"kernel", "virtual"}
    BY <1>4, CoreSteps, StepSets DEF Kernel
  <2> QED
    BY <2>1 DEF RuntimeInv
<1>5. CASE UNCHANGED allVars
  <2>1. ToSet(Pointers)' = ToSet(Pointers)
    BY DEF ToSet, Pointers
  <2> QED
    BY <1>5, <2>1 DEF allVars, vars, acpi, RuntimeInv
<1> QED
  BY <1>1, <1>2, <1>3, <1>4, <1>5 DEF EntryNext, Next

LEMMA RuntimeInvariant == EntrySpec => []RuntimeInv
BY HeaderInit, RuntimeNext, MemoryInvariant, TablesInvariant, PTL DEF EntrySpec

(* When the firmware has moved to virtual addresses, a SetVariable hook    *)
(* that is still entered has converted every pointer of its own            *)
(* (uefi/services/hooks/get_memory_map, virtual_address_map_event).        *)
THEOREM HookMoves == EntrySpec => []HookFollowsMove
PROOF
<1>1. ServicesAreLive /\ RuntimeInv => HookFollowsMove
  <2> SUFFICES ASSUME ServicesAreLive, RuntimeInv, pc = "virtual", service["SetVariable"] # FirmwarePage
               PROVE  moved = ToSet(Pointers)
    BY DEF HookFollowsMove
  <2>1. ~err
    BY DEF ServicesAreLive, Booted, Services
  <2> QED
    BY <2>1 DEF RuntimeInv
<1> QED
  BY <1>1, ServicesStayLive, RuntimeInvariant, PTL

-------------------------------------------------------------------------------
(* The entry of the core. *)

LEMMA EntryLayout ==
  /\ PT_ENTRIES_NUM \in Nat \ {0}
  /\ RmText \in Nat /\ PmText \in Nat /\ PML4 \in Nat /\ CORE_MAIN_PHYS_ADDR \in Nat
  /\ PmText < PML4 /\ PmStack = PML4 + PT_ENTRIES_NUM + 1 /\ PmText # RmText
  /\ RmText \in PagesOf(Rm)
  /\ PmText .. PmStack = PagesOf(Pm)
  /\ CORE_MAIN_PHYS_ADDR \in PagesOf(Core)
  /\ PagesOf(Rm) \cup PagesOf(Pm) \cup PagesOf(Core) \subseteq Pages
  /\ 0 \notin {RmText, PmText, PML4, PmStack, CORE_MAIN_PHYS_ADDR}
PROOF
<1>1. PT_ENTRIES_NUM \in Nat \ {0} /\ Rm.size = 1 /\ Pm.size = PT_ENTRIES_NUM + 3 /\ Core.size >= 2
  BY PartsFit
<1>2. Rm.start \in Nat /\ Pm.start \in Nat /\ Core.start \in Nat /\ Core.size \in Nat
  BY Sizes
<1>3. RmText \in PagesOf(Rm) /\ PmText \in PagesOf(Pm) /\ PML4 \in PagesOf(Pm) /\ PmStack \in PagesOf(Pm)
      /\ CORE_MAIN_PHYS_ADDR \in PagesOf(Core)
  BY <1>1, <1>2 DEF RmText, PmText, PML4, PmStack, CORE_MAIN_PHYS_ADDR, PagesOf, EndOf
<1>4. PmText .. PmStack = PagesOf(Pm)
  BY <1>1, <1>2 DEF PmText, PmStack, PagesOf, EndOf
<1>5. PagesOf(Rm) \cup PagesOf(Pm) \cup PagesOf(Core) \subseteq Pages
  BY Sizes DEF PartPages
<1>6. 0 \notin {RmText, PmText, PML4, PmStack, CORE_MAIN_PHYS_ADDR}
  BY <1>3, <1>5, NoPage
<1>7. PmText # RmText
  BY <1>3, Apart
<1>8. /\ RmText \in Nat /\ PmText \in Nat /\ PML4 \in Nat /\ CORE_MAIN_PHYS_ADDR \in Nat
      /\ PmText < PML4 /\ PmStack = PML4 + PT_ENTRIES_NUM + 1
  BY <1>1, <1>2 DEF RmText, PmText, PML4, PmStack, CORE_MAIN_PHYS_ADDR
<1> QED
  BY <1>1, <1>3, <1>4, <1>5, <1>6, <1>7, <1>8

(* Descriptor 1 is 32-bit code in real mode's GDT, 64-bit code in the other. *)
LEMMA Descriptors == CodeDescriptor[RmText] = "code32" /\ CodeDescriptor[PmText] = "code64"
BY EntryLayout DEF CodeDescriptor

LEMMA EntryStart == EntryInit => EntryInv
PROOF
<1> SUFFICES ASSUME EntryInit
             PROVE  EntryInv
  OBVIOUS
<1>1. /\ pc = "load_core" /\ cpu = Cpu /\ pt = <<>> /\ written = {}
      /\ idx = [pdpt_idx |-> 0, i |-> 0]
  BY DEF EntryInit, Init
<1>2. pc \notin InCore /\ pc \notin Mapped
  BY <1>1 DEF InCore, Mapped, Paged
<1>3. CpuInv
  BY <1>1 DEF CpuInv, InCore, Mapped, Paged
<1>4. WrittenInv
  BY <1>1 DEF WrittenInv
<1>5. PagingInv
  BY <1>1, <1>2, EntryLayout DEF PagingInv, Indexes
<1> QED
  BY <1>3, <1>4, <1>5 DEF EntryInv

(* Before the core is entered. *)
LEMMA Outside == Next => pc \notin InCore /\ pc' \notin InCore
PROOF
<1> SUFFICES ASSUME Next
             PROVE  pc \notin InCore /\ pc' \notin InCore
  OBVIOUS
<1>1. CASE load_core \/ find_acpi_tables \/ hook_set_variable \/ hook_get_memory_map
  <2>1. /\ pc \in {"load_core", "load_rm", "load_pm", "find_acpi_tables", "set_variable", "get_memory_map"}
        /\ pc' \in {"load_rm", "load_pm", "find_acpi_tables", "set_variable", "get_memory_map",
                    "virtual_address_map_event", "unhook"}
    BY <1>1 DEF load_core, LoadPart, find_acpi_tables, hook_set_variable, hook_get_memory_map, hook_service,
                Fail, Goto, HookOf
  <2> QED
    BY <2>1 DEF InCore, Mapped, Paged
<1>2. CASE create_virtual_address_map_event \/ create_or_hook_pts \/ append_method
  <2>1. /\ pc \in {"virtual_address_map_event", "find_pts", "append_head", "append_body"}
        /\ pc' \in {"find_pts", "append_head", "append_body", "fill_disk_pci", "unhook"}
    BY <1>2 DEF create_virtual_address_map_event, create_or_hook_pts, append_method, append_dsdt, Fail, Goto
  <2> QED
    BY <2>1 DEF InCore, Mapped, Paged
<1>3. CASE \/ fill_disk_pci \/ fill_core_header \/ unhook_services
           \/ GetMemoryMap \/ virtual_address_map_event
  <2>1. /\ pc \in {"fill_disk_pci", "fill_ram_areas", "boot", "kernel"} \cup Unhooking
        /\ pc' \in {"fill_ram_areas", "unhook"} \cup Kernel \cup Unhooking
    BY <1>3 DEF fill_disk_pci, fill_core_header, unhook_services, remove_virtual_address_map_event,
                unhook_get_memory_map, unhook_set_variable, Unhook, GetMemoryMap, virtual_address_map_event,
                Fail, Goto, Kernel, Unhooking
  <2> QED
    BY <2>1 DEF InCore, Mapped, Paged, Kernel, Unhooking
<1> QED
  BY <1>1, <1>2, <1>3 DEF Next, EfiMain

LEMMA CpuNext == CpuInv /\ EnterCore => CpuInv'
PROOF
<1> SUFFICES ASSUME CpuInv, EnterCore
             PROVE  CpuInv'
  OBVIOUS
<1> USE DEF CpuInv, At, InCore, Mapped, Paged
<1>1. CASE Suspend
  BY <1>1 DEF Suspend, Woken
<1>2. CASE core_wakeup
  BY <1>2, Descriptors DEF core_wakeup, Protected
<1>3. CASE begin_pm
  BY <1>3 DEF begin_pm, InPm
<1>4. CASE pm_stub
  BY <1>4 DEF pm_stub, OnStack
<1>5. CASE setup_pdpt \/ setup_pml4
  BY <1>5 DEF setup_pdpt, setup_pml4
<1>6. CASE load_cr3
  BY <1>6 DEF load_cr3, WithCr3
<1>7. CASE enable_pae
  BY <1>7 DEF enable_pae, WithPae
<1>8. CASE enable_lm
  BY <1>8 DEF enable_lm, WithLme
<1>9. CASE enable_paging
  BY <1>9 DEF enable_paging, WithPg
<1>10. CASE load_lm_gdt
  BY <1>10, Descriptors DEF load_lm_gdt, InMain
<1> QED
  BY <1>1, <1>2, <1>3, <1>4, <1>5, <1>6, <1>7, <1>8, <1>9, <1>10 DEF EnterCore

LEMMA WrittenNext == WrittenInv /\ PagingInv /\ EnterCore => WrittenInv'
PROOF
<1> SUFFICES ASSUME WrittenInv, PagingInv, EnterCore
             PROVE  WrittenInv'
  OBVIOUS
<1>1. CASE core_wakeup
  BY <1>1 DEF core_wakeup, WrittenInv
<1>2. CASE pm_stub
  BY <1>2 DEF pm_stub, WrittenInv
<1>3. CASE setup_pdpt
  <2>1. pdpt_addr \in PML4 .. PML4 + PT_ENTRIES_NUM
    BY <1>3, EntryLayout DEF setup_pdpt, pdpt_addr, PagingInv
  <2> QED
    BY <1>3, <2>1 DEF setup_pdpt, WriteEntry, WrittenInv
<1>4. CASE setup_pml4
  <2>1. PML4 \in PML4 .. PML4 + PT_ENTRIES_NUM
    BY EntryLayout
  <2> QED
    BY <1>4, <2>1 DEF setup_pml4, WriteEntry, WrittenInv
<1>5. CASE Suspend \/ begin_pm \/ load_cr3 \/ enable_pae \/ enable_lm \/ enable_paging \/ load_lm_gdt
  BY <1>5 DEF Suspend, begin_pm, load_cr3, enable_pae, enable_lm, enable_paging, load_lm_gdt, WrittenInv
<1> QED
  BY <1>1, <1>2, <1>3, <1>4, <1>5 DEF EnterCore

LEMMA PagingNext == PagingInv /\ EnterCore => PagingInv'
PROOF
<1> SUFFICES ASSUME PagingInv, EnterCore
             PROVE  PagingInv'
  OBVIOUS
<1> DEFINE N == PT_ENTRIES_NUM
           Leaf(k, j) == [addr |-> k * N + j, huge |-> TRUE]
           Top(k) == [addr |-> PML4 + k + 1, huge |-> FALSE]
<1>1. N \in Nat \ {0} /\ PML4 \in Nat
  BY EntryLayout
<1>2. idx \in [pdpt_idx : 0 .. N, i : 0 .. N] /\ idx.pdpt_idx \in 0 .. N /\ idx.i \in 0 .. N
  BY DEF PagingInv
<1>3. /\ \A k \in Indexes : k < idx.pdpt_idx => <<PML4, k>> \in DOMAIN pt /\ pt[<<PML4, k>>] = Top(k)
      /\ \A k, j \in Indexes : k < idx.pdpt_idx \/ (k = idx.pdpt_idx /\ j < idx.i) =>
           <<PML4 + k + 1, j>> \in DOMAIN pt /\ pt[<<PML4 + k + 1, j>>] = Leaf(k, j)
  BY DEF PagingInv
<1>4. Indexes = 0 .. (N - 1)
  BY DEF Indexes
<1>5. CASE setup_pdpt
  <2> DEFINE key == <<pdpt_addr, idx.i>>
             new == [addr |-> idx.pdpt_idx * N + idx.i, huge |-> TRUE]
  <2>1. /\ idx.pdpt_idx < N /\ idx.i < N /\ pc' = "setup_pml4" /\ idx' = [idx EXCEPT !.i = @ + 1]
        /\ pt' = [e \in DOMAIN pt \cup {key} |-> IF e = key THEN new ELSE pt[e]]
    BY <1>5 DEF setup_pdpt, At, WriteEntry
  <2>2. idx'.pdpt_idx = idx.pdpt_idx /\ idx'.i = idx.i + 1 /\ idx' \in [pdpt_idx : 0 .. N, i : 0 .. N]
    BY <1>1, <1>2, <2>1
  <2>3. key = <<PML4 + idx.pdpt_idx + 1, idx.i>>
    BY DEF pdpt_addr
  <2> HIDE DEF key, new
  <2>4. /\ key \in DOMAIN pt' /\ pt'[key] = new
        /\ \A e \in DOMAIN pt : e \in DOMAIN pt' /\ (e # key => pt'[e] = pt[e])
    BY <2>1
  <2>5. \A k \in Indexes : <<PML4, k>> # key
    BY <1>1, <1>2, <2>3
  <2>6. \A k \in Indexes : k < idx'.pdpt_idx => <<PML4, k>> \in DOMAIN pt' /\ pt'[<<PML4, k>>] = Top(k)
    BY <1>3, <2>2, <2>4, <2>5
  <2>7. ASSUME NEW k \in Indexes, NEW j \in Indexes,
               k < idx'.pdpt_idx \/ (k = idx'.pdpt_idx /\ j < idx'.i)
        PROVE  <<PML4 + k + 1, j>> \in DOMAIN pt' /\ pt'[<<PML4 + k + 1, j>>] = Leaf(k, j)
    <3>1. CASE k = idx.pdpt_idx /\ j = idx.i
      BY <2>3, <2>4, <3>1 DEF new
    <3>2. CASE ~(k = idx.pdpt_idx /\ j = idx.i)
      <4>1. k \in Nat /\ j \in Nat
        BY <1>1, <1>4
      <4>2. k < idx.pdpt_idx \/ (k = idx.pdpt_idx /\ j < idx.i)
        BY <1>2, <2>2, <2>7, <3>2, <4>1
      <4>3. <<PML4 + k + 1, j>> # key
        BY <1>1, <1>2, <2>3, <3>2, <4>1
      <4> HIDE DEF Leaf
      <4> QED
        BY <1>3, <2>4, <4>2, <4>3
    <3> QED
      BY <3>1, <3>2
  <2>8. pc' \notin Mapped
    BY <2>1 DEF Mapped, Paged
  <2> QED
    BY <2>2, <2>6, <2>7, <2>8 DEF PagingInv
<1>6. CASE setup_pml4
  <2> DEFINE key == <<PML4, idx.pdpt_idx>>
             new == [addr |-> pdpt_addr, huge |-> FALSE]
  <2>1. /\ idx.pdpt_idx < N /\ idx.i = N /\ pc' = "setup_pml4"
        /\ idx' = [pdpt_idx |-> idx.pdpt_idx + 1, i |-> 0]
        /\ pt' = [e \in DOMAIN pt \cup {key} |-> IF e = key THEN new ELSE pt[e]]
    BY <1>6 DEF setup_pml4, At, WriteEntry
  <2>2. idx'.pdpt_idx = idx.pdpt_idx + 1 /\ idx'.i = 0 /\ idx' \in [pdpt_idx : 0 .. N, i : 0 .. N]
    BY <1>1, <1>2, <2>1
  <2>3. new = Top(idx.pdpt_idx)
    BY DEF pdpt_addr
  <2>4. key = <<PML4, idx.pdpt_idx>>
    OBVIOUS
  <2> HIDE DEF key, new
  <2>5. /\ key \in DOMAIN pt' /\ pt'[key] = new
        /\ \A e \in DOMAIN pt : e \in DOMAIN pt' /\ (e # key => pt'[e] = pt[e])
    BY <2>1
  <2>6. ASSUME NEW k \in Indexes, k < idx'.pdpt_idx
        PROVE  <<PML4, k>> \in DOMAIN pt' /\ pt'[<<PML4, k>>] = Top(k)
    <3>1. CASE k = idx.pdpt_idx
      BY <2>3, <2>4, <2>5, <3>1
    <3>2. CASE k # idx.pdpt_idx
      <4>1. k < idx.pdpt_idx /\ <<PML4, k>> # key
        BY <1>1, <1>2, <1>4, <2>2, <2>4, <2>6, <3>2
      <4> HIDE DEF Top
      <4> QED
        BY <1>3, <2>5, <4>1
    <3> QED
      BY <3>1, <3>2
  <2>7. ASSUME NEW k \in Indexes, NEW j \in Indexes,
               k < idx'.pdpt_idx \/ (k = idx'.pdpt_idx /\ j < idx'.i)
        PROVE  <<PML4 + k + 1, j>> \in DOMAIN pt' /\ pt'[<<PML4 + k + 1, j>>] = Leaf(k, j)
    <3>1. k \in Nat /\ j \in Nat /\ j < N
      BY <1>1, <1>4
    <3>2. k < idx.pdpt_idx \/ (k = idx.pdpt_idx /\ j < idx.i)
      BY <1>2, <2>1, <2>2, <2>7, <3>1
    <3>3. <<PML4 + k + 1, j>> # key
      BY <1>1, <2>4, <3>1
    <3> HIDE DEF Leaf
    <3> QED
      BY <1>3, <2>5, <3>2, <3>3
  <2>8. pc' \notin Mapped
    BY <2>1 DEF Mapped, Paged
  <2> QED
    BY <2>2, <2>6, <2>7, <2>8 DEF PagingInv
<1>7. CASE load_cr3
  BY <1>7 DEF load_cr3, PagingInv
<1>8. CASE Suspend \/ core_wakeup \/ begin_pm \/ pm_stub
  <2>1. pc' \notin Mapped /\ UNCHANGED <<pt, idx>>
    BY <1>8 DEF Suspend, core_wakeup, begin_pm, pm_stub, At, Mapped, Paged
  <2> QED
    BY <2>1 DEF PagingInv
<1>9. CASE enable_pae \/ enable_lm \/ enable_paging \/ load_lm_gdt
  <2>1. pc \in Mapped /\ UNCHANGED <<pt, idx>>
    BY <1>9 DEF enable_pae, enable_lm, enable_paging, load_lm_gdt, At, Mapped, Paged
  <2> QED
    BY <2>1 DEF PagingInv
<1> QED
  BY <1>5, <1>6, <1>7, <1>8, <1>9 DEF EnterCore

LEMMA EntryInvNext == EntryInv /\ [EntryNext]_allVars => EntryInv'
PROOF
<1> SUFFICES ASSUME EntryInv, [EntryNext]_allVars
             PROVE  EntryInv'
  OBVIOUS
<1>1. CASE EnterCore
  BY <1>1, CpuNext, WrittenNext, PagingNext DEF EntryInv
<1>2. CASE Next /\ UNCHANGED entryVars
  <2>1. /\ pc \notin InCore /\ pc' \notin InCore
        /\ Mapped \subseteq InCore /\ Paged \subseteq Mapped
        /\ {"core_wakeup", "begin_pm", "pm_stub", "setup_pml4", "enable_pae", "enable_lm", "enable_paging",
            "load_lm_gdt", "core_main"} \subseteq InCore
    BY <1>2, Outside DEF InCore, Mapped, Paged
  <2>2. CpuInv'
    <3>1. cpu' = Cpu
      BY <1>2, <2>1 DEF entryVars, EntryInv, CpuInv
    <3> QED
      BY <2>1, <3>1 DEF CpuInv
  <2>3. WrittenInv' /\ PagingInv'
    BY <1>2, <2>1 DEF entryVars, EntryInv, WrittenInv, PagingInv
  <2> QED
    BY <2>2, <2>3 DEF EntryInv
<1>3. CASE UNCHANGED allVars
  BY <1>3 DEF allVars, vars, entryVars, EntryInv, CpuInv, WrittenInv, PagingInv
<1> QED
  BY <1>1, <1>2, <1>3 DEF EntryNext

LEMMA EntryInvariant == EntrySpec => []EntryInv
BY EntryStart, EntryInvNext, PTL DEF EntrySpec

(* The tables that were written map every gigabyte to itself. *)
LEMMA MapsItself ==
  ASSUME PagingInv, idx.pdpt_idx = PT_ENTRIES_NUM, cpu.cr3 = PML4,
         NEW v \in 0 .. PT_ENTRIES_NUM * PT_ENTRIES_NUM - 1
  PROVE  Translate(v) = v
PROOF
<1> DEFINE N == PT_ENTRIES_NUM
           k == v \div N
           j == v % N
<1>1. N \in Nat /\ N > 0 /\ PML4 \in Nat /\ v \in Nat /\ v < N * N
  <2>1. N \in Nat /\ N > 0 /\ PML4 \in Nat
    BY EntryLayout
  <2>2. N * N \in Nat
    BY <2>1
  <2> HIDE DEF N
  <2>3. v \in Nat /\ v < N * N
    BY <2>2 DEF N
  <2> QED
    BY <2>1, <2>3
<1>2. k \in Nat /\ k < N /\ j \in Nat /\ j < N /\ k * N + j = v
  <2> HIDE DEF N
  <2>1. j \in Nat /\ j < N /\ k \in Nat /\ k * N + j = v
    BY <1>1
  <2>2. k < N
    BY <1>1
  <2> QED
    BY <2>1, <2>2
<1> HIDE DEF N, k, j
<1>3. k \in Indexes /\ j \in Indexes
  BY <1>1, <1>2 DEF Indexes, N
<1> DEFINE top == <<PML4, k>>
           leaf == <<PML4 + k + 1, j>>
<1>4. top \in DOMAIN pt /\ pt[top] = [addr |-> PML4 + k + 1, huge |-> FALSE]
  BY <1>2, <1>3 DEF PagingInv, N
<1>5. leaf \in DOMAIN pt /\ pt[leaf] = [addr |-> k * N + j, huge |-> TRUE]
  BY <1>2, <1>3 DEF PagingInv, N
<1>6. pt[top].addr = PML4 + k + 1 /\ ~pt[top].huge /\ pt[leaf].huge /\ pt[leaf].addr = v
  BY <1>2, <1>4, <1>5
<1> HIDE DEF top, leaf
<1>7. cpu.cr3 = PML4 /\ <<cpu.cr3, v \div PT_ENTRIES_NUM>> = top /\ <<pt[top].addr, v % PT_ENTRIES_NUM>> = leaf
  BY <1>6 DEF top, leaf, k, j, N
<1> QED
  BY <1>4, <1>5, <1>6, <1>7 DEF Translate

(* What the processor uses, from its mode. *)
LEMMA CpuFacts ==
  ASSUME CpuInv
  PROVE  /\ cpu.at # 0 => pc \in InCore
         /\ {cpu.at, cpu.gdt, cpu.stack} \subseteq {0, RmText, PmText, PmStack, CORE_MAIN_PHYS_ADDR}
         /\ cpu.pg => pc \in Paged /\ cpu.pe /\ cpu.pae /\ cpu.lme /\ cpu.cr3 = PML4
         /\ pc = "core_main" => cpu.pg /\ cpu.cs = "code64" /\ cpu.stack = PmStack
PROOF
<1> USE DEF CpuInv, Woken, Protected, InPm, OnStack, WithCr3, WithPae, WithLme, WithPg, InMain, Cpu
<1>1. CASE pc \notin InCore
  <2>1. cpu = Cpu /\ pc # "core_main"
    BY <1>1 DEF InCore, Mapped, Paged
  <2> QED
    BY <2>1
<1>2. CASE pc = "core_wakeup"
  BY <1>2 DEF InCore
<1>3. CASE pc = "begin_pm"
  BY <1>3 DEF InCore
<1>4. CASE pc = "pm_stub"
  BY <1>4 DEF InCore
<1>5. CASE pc = "setup_pml4"
  BY <1>5 DEF InCore
<1>6. CASE pc = "enable_pae"
  BY <1>6 DEF InCore, Mapped
<1>7. CASE pc = "enable_lm"
  BY <1>7 DEF InCore, Mapped
<1>8. CASE pc = "enable_paging"
  BY <1>8 DEF InCore, Mapped
<1>9. CASE pc = "load_lm_gdt"
  BY <1>9 DEF InCore, Mapped, Paged
<1>10. CASE pc = "core_main"
  BY <1>10 DEF InCore, Mapped, Paged
<1> QED
  BY <1>1, <1>2, <1>3, <1>4, <1>5, <1>6, <1>7, <1>8, <1>9, <1>10 DEF InCore, Mapped, Paged

(* The memory of the core stays reserved, and its code is not written to. *)
LEMMA CoreKept ==
  ASSUME MemoryInv, WrittenInv, pc \in InCore
  PROVE  /\ {RmText, PmText, PmStack, CORE_MAIN_PHYS_ADDR} \subseteq PartPages
         /\ written \ {RmText, RmText + 1} \subseteq PartPages \ {PmText, CORE_MAIN_PHYS_ADDR}
         /\ \A p \in PartPages : type[p] = "reserved"
PROOF
<1> DEFINE tables_ == PML4 .. PML4 + PT_ENTRIES_NUM
<1>1. /\ RmText \in PagesOf(Rm) /\ CORE_MAIN_PHYS_ADDR \in PagesOf(Core)
      /\ PmText .. PmStack = PagesOf(Pm)
      /\ PmText \in Nat /\ PML4 \in Nat /\ PT_ENTRIES_NUM \in Nat
      /\ PmText < PML4 /\ PmStack = PML4 + PT_ENTRIES_NUM + 1
  BY EntryLayout
<1>2. PartPages = PagesOf(Rm) \cup PagesOf(Pm) \cup PagesOf(Core)
  BY DEF PartPages
<1>3. {PmStack} \cup tables_ \subseteq PagesOf(Pm) \ {PmText} /\ PmText \in PagesOf(Pm)
  <2>1. {PmStack} \cup tables_ \subseteq (PmText .. PmStack) \ {PmText} /\ PmText \in PmText .. PmStack
    BY <1>1
  <2> QED
    BY <1>1, <2>1
<1>4. CORE_MAIN_PHYS_ADDR \notin PagesOf(Pm)
  BY <1>1, Apart
<1>5. written \ {RmText, RmText + 1} \subseteq {PmStack} \cup tables_
  BY DEF WrittenInv
<1>6. ASSUME NEW p \in PartPages
      PROVE  type[p] = "reserved"
  <2>1. ~err /\ pc \in InCore /\ p \in Pages
    BY Sizes, StepSets DEF MemoryInv, ErrInv, Kernel, Unhooking, InCore, Mapped, Paged
  <2>2. p \in LoadedParts
    BY DEF LoadedParts, InCore, Mapped, Paged
  <2> QED
    BY <2>1, <2>2 DEF MemoryInv, ReservedInv
<1> HIDE DEF tables_
<1> QED
  BY <1>1, <1>2, <1>3, <1>4, <1>5, <1>6

(* The header that the core finds is one that it accepts. *)
LEMMA HeaderValid ==
  ASSUME MemoryInv, FoundInv, HeaderInv, pc = "core_main"
  PROVE  is_core_header_valid
PROOF
<1>1. ~err /\ pc \in AfterDisk /\ pc \in AfterTables
  BY StepSets DEF MemoryInv, ErrInv, Unhooking, Kernel, AfterDisk, AfterAreas, InCore, Mapped, Paged
<1>2. header.rsdp = g.rsdp /\ header.facs = g.facs /\ g # NoTables
  BY <1>1 DEF HeaderInv, FoundInv
<1>3. g.facs # 0 /\ g.rsdp # 0
  BY <1>2, FacsKept
<1>4. Len(header.ram_areas) <= MaxRamAreas
  BY DEF HeaderInv, GoodAreas
<1>5. ASSUME NEW k \in DOMAIN header.ram_areas
      PROVE  header.ram_areas[k].size # 0
  <2>1. header.ram_areas \in Seq(Area)
    BY DEF HeaderInv, GoodAreas
  <2>2. header.ram_areas[k] \in Area
    BY <2>1
  <2> QED
    BY <2>2 DEF Area
<1> QED
  BY <1>2, <1>3, <1>4, <1>5 DEF is_core_header_valid

(* The core runs, writes and keeps its tables in the memory reserved for   *)
(* it, pages through tables that map every address to itself, and finds a  *)
(* header that it accepts (core/rm, core/pm, core/main.c).                 *)
THEOREM EntryStaysSound == EntrySpec => []EntryIsSound
PROOF
<1>1. MemoryInv /\ FoundInv /\ HeaderInv /\ EntryInv => EntryIsSound
  <2> DEFINE own == written \ {RmText + 1}
  <2> SUFFICES ASSUME MemoryInv, FoundInv, HeaderInv, EntryInv, cpu.at # 0, RmText \notin written
               PROVE  /\ \A p \in ({cpu.at, cpu.gdt, cpu.stack} \ {0}) \cup own :
                           p \in PartPages /\ type[p] = "reserved"
                      /\ own \cap {PmText, CORE_MAIN_PHYS_ADDR} = {}
                      /\ cpu.pg => /\ cpu.pe /\ cpu.pae /\ cpu.lme
                                   /\ \A v \in 0 .. PT_ENTRIES_NUM * PT_ENTRIES_NUM - 1 : Translate(v) = v
                      /\ pc = "core_main" => /\ cpu.pg /\ cpu.cs = "code64" /\ cpu.stack \notin {0, PML4}
                                             /\ is_core_header_valid
    BY DEF EntryIsSound
  <2>1. CpuInv /\ WrittenInv /\ PagingInv
    BY DEF EntryInv
  <2>2. pc \in InCore
    BY <2>1, CpuFacts
  <2>3. own = written \ {RmText, RmText + 1}
    OBVIOUS
  <2> HIDE DEF own
  <2>4. \A p \in ({cpu.at, cpu.gdt, cpu.stack} \ {0}) \cup own : p \in PartPages /\ type[p] = "reserved"
    BY <2>1, <2>2, <2>3, CpuFacts, CoreKept
  <2>5. own \cap {PmText, CORE_MAIN_PHYS_ADDR} = {}
    BY <2>1, <2>2, <2>3, CoreKept
  <2>6. ASSUME cpu.pg
        PROVE  /\ cpu.pe /\ cpu.pae /\ cpu.lme
               /\ \A v \in 0 .. PT_ENTRIES_NUM * PT_ENTRIES_NUM - 1 : Translate(v) = v
    <3>1. cpu.pe /\ cpu.pae /\ cpu.lme /\ cpu.cr3 = PML4 /\ pc \in Mapped
      BY <2>1, <2>6, CpuFacts DEF Mapped
    <3>2. idx.pdpt_idx = PT_ENTRIES_NUM
      BY <2>1, <3>1 DEF PagingInv
    <3> QED
      BY <2>1, <3>1, <3>2, MapsItself
  <2>7. ASSUME pc = "core_main"
        PROVE  cpu.pg /\ cpu.cs = "code64" /\ cpu.stack \notin {0, PML4} /\ is_core_header_valid
    <3>1. cpu.pg /\ cpu.cs = "code64" /\ cpu.stack = PmStack
      BY <2>1, <2>7, CpuFacts
    <3>2. PmStack \notin {0, PML4}
      BY EntryLayout
    <3> QED
      BY <2>7, <3>1, <3>2, HeaderValid
  <2> QED
    BY <2>4, <2>5, <2>6, <2>7
<1> QED
  BY <1>1, MemoryInvariant, TablesInvariant, HeaderInvariant, EntryInvariant, PTL

-------------------------------------------------------------------------------
(* The encoding of the declarations, one after the other. *)

Code == Bytes(Names)

(* The encoding of the first k declarations. *)
FirstOf(methods, k) == Encode(SubSeq(methods, 1, k))

LEMMA MethodBytes ==
  ASSUME NEW method \in Methods(Names)
  PROVE  /\ BytesOf(method) \in Seq(Code)
         /\ Len(method.lead) \in Nat \ {0}
         /\ Len(BytesOf(method)) \in Nat /\ Len(BytesOf(method)) >= Len(method.lead) + 2
         /\ BytesOf(method)[1] = "MethodOp"
         /\ BytesOf(method)[2] = method.lead[1]
         /\ BytesOf(method)[Len(method.lead) + 2] = method.name
         /\ method.lead[1] \in DOMAIN LeadSize /\ Len(method.lead) = LeadSize[method.lead[1]]
PROOF
<1> DEFINE op == <<"MethodOp">>  lead == method.lead  name == <<method.name>>  body == method.body
<1>1. lead \in Seq(Code) /\ method.name \in Names /\ body \in Seq(Code)
      /\ Len(lead) > 0 /\ lead[1] \in DOMAIN LeadSize /\ Len(lead) = LeadSize[lead[1]]
  BY DEF Methods, Code
<1>2. "MethodOp" \in Code /\ Names \subseteq Code
  BY DEF Code, Bytes, LeadSize
<1>3. op \in Seq(Code) /\ Len(op) = 1 /\ op[1] = "MethodOp" /\ name \in Seq(Code) /\ Len(name) = 1 /\ name[1] = method.name
  BY <1>1, <1>2
<1>4. BytesOf(method) = ((op \o lead) \o name) \o body
  BY DEF BytesOf
<1> HIDE DEF op, lead, name, body
<1> DEFINE two == op \o lead  three == two \o name
<1>5. /\ two \in Seq(Code) /\ Len(two) = Len(lead) + 1 /\ two[1] = "MethodOp" /\ two[2] = lead[1]
  <2>1. /\ two \in Seq(Code) /\ Len(two) = Len(op) + Len(lead)
        /\ \A i \in 1 .. Len(op) + Len(lead) : two[i] = IF i <= Len(op) THEN op[i] ELSE lead[i - Len(op)]
    BY <1>1, <1>3, ConcatProperties
  <2>2. Len(lead) \in Nat
    BY <1>1
  <2> QED
    BY <1>1, <1>3, <2>1, <2>2
<1> HIDE DEF two
<1>6. /\ three \in Seq(Code) /\ Len(three) = Len(lead) + 2 /\ three[1] = "MethodOp" /\ three[2] = lead[1]
      /\ three[Len(lead) + 2] = method.name
  <2>1. /\ three \in Seq(Code) /\ Len(three) = Len(two) + Len(name)
        /\ \A i \in 1 .. Len(two) + Len(name) : three[i] = IF i <= Len(two) THEN two[i] ELSE name[i - Len(two)]
    BY <1>3, <1>5, ConcatProperties
  <2>2. Len(lead) \in Nat /\ Len(lead) > 0 /\ Len(two) = Len(lead) + 1 /\ Len(name) = 1
    BY <1>1, <1>3, <1>5
  <2>3. three[1] = two[1] /\ three[2] = two[2] /\ Len(three) = Len(lead) + 2
    BY <2>1, <2>2
  <2>4. three[Len(lead) + 2] = name[1]
    <3>1. Len(lead) + 2 \in 1 .. Len(two) + Len(name) /\ ~(Len(lead) + 2 <= Len(two))
          /\ (Len(lead) + 2) - Len(two) = 1
      BY <2>2
    <3> QED
      BY <2>1, <3>1
  <2> QED
    BY <1>3, <1>5, <2>1, <2>3, <2>4
<1> HIDE DEF three
<1>7. /\ three \o body \in Seq(Code) /\ Len(three \o body) = Len(three) + Len(body)
      /\ \A i \in 1 .. Len(three) : (three \o body)[i] = three[i]
  BY <1>1, <1>6
<1>8. BytesOf(method) = three \o body
  BY <1>4 DEF three, two
<1>9. Len(lead) \in Nat \ {0} /\ Len(body) \in Nat /\ Len(method.lead) = Len(lead)
  BY <1>1 DEF lead
<1>10. 1 \in 1 .. Len(three) /\ 2 \in 1 .. Len(three) /\ Len(lead) + 2 \in 1 .. Len(three)
  BY <1>6, <1>9
<1>11. /\ BytesOf(method) \in Seq(Code) /\ Len(BytesOf(method)) = Len(lead) + 2 + Len(body)
       /\ BytesOf(method)[1] = "MethodOp" /\ BytesOf(method)[2] = lead[1]
       /\ BytesOf(method)[Len(lead) + 2] = method.name
  BY <1>6, <1>7, <1>8, <1>10
<1>12. Len(lead) + 2 + Len(body) \in Nat /\ Len(lead) + 2 + Len(body) >= Len(lead) + 2
  BY <1>9
<1> QED
  BY <1>1, <1>9, <1>11, <1>12 DEF lead

LEMMA FirstOfNext ==
  ASSUME NEW methods \in Seq(Methods(Names))
  PROVE  /\ FirstOf(methods, 0) = <<>>
         /\ FirstOf(methods, Len(methods)) = Encode(methods)
         /\ \A k \in 0 .. (Len(methods) - 1) :
              FirstOf(methods, k + 1) = FirstOf(methods, k) \o BytesOf(methods[k + 1])
PROOF
<1> DEFINE b == [i \in 1 .. Len(methods) |-> BytesOf(methods[i])]
<1>1. /\ Len(methods) \in Nat /\ DOMAIN methods = 1 .. Len(methods)
      /\ \A i \in 1 .. Len(methods) : b[i] = BytesOf(methods[i]) /\ b[i] \in Seq(Code)
  BY MethodBytes
<1>2. ASSUME NEW k \in 0 .. Len(methods)
      PROVE  FirstOf(methods, k) = FlattenSeq([i \in 1 .. k |-> b[i]])
  <2> DEFINE first == SubSeq(methods, 1, k)
  <2>1. DOMAIN first = 1 .. k /\ \A i \in 1 .. k : first[i] = methods[i]
    BY <1>1
  <2>2. \A i \in 1 .. k : b[i] = BytesOf(methods[i])
    BY <1>1
  <2> HIDE DEF first, b
  <2>3. [i \in DOMAIN first |-> BytesOf(first[i])] = [i \in 1 .. k |-> b[i]]
    BY <2>1, <2>2
  <2> QED
    BY <2>3 DEF FirstOf, Encode, first
<1>3. FirstOf(methods, Len(methods)) = Encode(methods)
  <2>1. SubSeq(methods, 1, Len(methods)) = methods
    BY <1>1
  <2> QED
    BY <2>1 DEF FirstOf
<1> HIDE DEF b
<1>4. FirstOf(methods, 0) = <<>>
  <2>1. FirstOf(methods, 0) = FlattenSeq([i \in 1 .. 0 |-> b[i]])
    <3>1. 0 \in 0 .. Len(methods)
      BY <1>1
    <3> QED
      BY <1>2, <3>1, Zenon
  <2>2. [i \in 1 .. 0 |-> b[i]] = <<>>
    OBVIOUS
  <2>3. Len(<<>>) = 0
    OBVIOUS
  <2> QED
    BY <2>1, <2>2, <2>3 DEF FlattenSeq
<1>5. ASSUME NEW k \in 0 .. (Len(methods) - 1)
      PROVE  FirstOf(methods, k + 1) = FirstOf(methods, k) \o BytesOf(methods[k + 1])
  <2>1. k \in Nat /\ k \in 0 .. Len(methods) /\ k + 1 \in 0 .. Len(methods) /\ k + 1 \in 1 .. Len(methods)
        /\ \A i \in 1 .. (k + 1) : i \in 1 .. Len(methods)
    BY <1>1
  <2>2. \A i \in 1 .. (k + 1) : b[i] \in Seq(Code)
    BY <1>1, <2>1
  <2>3. FlattenSeq([i \in 1 .. (k + 1) |-> b[i]]) =
          IF k = 0 THEN b[1] ELSE FlattenSeq([i \in 1 .. k |-> b[i]]) \o b[k + 1]
    BY <2>1, <2>2, Flattens
  <2>4. FirstOf(methods, k + 1) = IF k = 0 THEN b[1] ELSE FirstOf(methods, k) \o b[k + 1]
    BY <1>2, <2>1, <2>3
  <2>5. CASE k = 0
    <3>1. b[1] \in Seq(Code) /\ b[1] = BytesOf(methods[1])
      BY <1>1, <2>1, <2>5
    <3>2. <<>> \o b[1] = b[1]
      BY <3>1
    <3> QED
      BY <1>4, <2>4, <2>5, <3>1, <3>2
  <2>6. CASE k # 0
    BY <1>1, <2>1, <2>4, <2>6
  <2> QED
    BY <2>5, <2>6
<1> QED
  BY <1>3, <1>4, <1>5

(* Every prefix is one of the longer prefixes, and the next begins where   *)
(* it ends.                                                                *)
LEMMA FirstOfGrows ==
  ASSUME NEW methods \in Seq(Methods(Names))
  PROVE  /\ \A k \in 0 .. Len(methods) : FirstOf(methods, k) \in Seq(Code)
         /\ \A n \in 0 .. Len(methods) : \A k \in 0 .. n :
              /\ Len(FirstOf(methods, k)) <= Len(FirstOf(methods, n))
              /\ \A i \in 1 .. Len(FirstOf(methods, k)) : FirstOf(methods, n)[i] = FirstOf(methods, k)[i]
PROOF
<1> DEFINE P(n) == FirstOf(methods, n)
           Good(n) == /\ P(n) \in Seq(Code)
                      /\ \A k \in 0 .. n : /\ Len(P(k)) <= Len(P(n))
                                           /\ \A i \in 1 .. Len(P(k)) : P(n)[i] = P(k)[i]
           S == {n \in Nat : n <= Len(methods) => \A m \in 0 .. n : Good(m)}
<1>1. Len(methods) \in Nat
  OBVIOUS
<1>2. 0 \in S
  <2>1. P(0) = <<>>
    BY FirstOfNext
  <2> HIDE DEF P
  <2>2. Good(0)
    <3>1. P(0) \in Seq(Code) /\ Len(P(0)) = 0
      BY <2>1, EmptySeq
    <3>2. \A k \in 0 .. 0 : k = 0
      OBVIOUS
    <3> QED
      BY <3>1, <3>2
  <2> HIDE DEF Good
  <2> QED
    BY <2>2
<1>3. ASSUME NEW n \in Nat, n \in S
      PROVE  n + 1 \in S
  <2> SUFFICES ASSUME n + 1 <= Len(methods)
               PROVE  \A m \in 0 .. (n + 1) : Good(m)
    OBVIOUS
  <2>1. n <= Len(methods) /\ n \in 0 .. (Len(methods) - 1) /\ n + 1 \in 1 .. Len(methods)
    BY <1>1
  <2>2. \A m \in 0 .. n : Good(m)
    BY <1>3, <2>1
  <2>3. P(n + 1) = P(n) \o BytesOf(methods[n + 1])
    BY <2>1, FirstOfNext
  <2>4. BytesOf(methods[n + 1]) \in Seq(Code)
    <3>1. methods[n + 1] \in Methods(Names)
      BY <2>1
    <3> QED
      BY <3>1, MethodBytes
  <2>5. Good(n)
    <3> HIDE DEF Good
    <3> QED
      BY <2>2
  <2> HIDE DEF P
  <2>6. /\ P(n + 1) \in Seq(Code) /\ Len(P(n + 1)) >= Len(P(n)) /\ Len(P(n)) \in Nat /\ Len(P(n + 1)) \in Nat
        /\ \A i \in 1 .. Len(P(n)) : P(n + 1)[i] = P(n)[i]
    <3> DEFINE p == P(n)  q == BytesOf(methods[n + 1])
    <3>1. p \in Seq(Code) /\ q \in Seq(Code)
      BY <2>4, <2>5
    <3> HIDE DEF p, q
    <3>2. /\ p \o q \in Seq(Code) /\ Len(p \o q) = Len(p) + Len(q)
          /\ \A i \in 1 .. Len(p) + Len(q) : (p \o q)[i] = IF i <= Len(p) THEN p[i] ELSE q[i - Len(p)]
      BY <3>1, ConcatProperties
    <3>3. Len(p) \in Nat /\ Len(q) \in Nat
      BY <3>1
    <3>4. P(n + 1) = p \o q
      BY <2>3 DEF p, q
    <3>5. \A i \in 1 .. Len(p) : (p \o q)[i] = p[i]
      BY <3>2, <3>3
    <3>6. Len(p \o q) >= Len(p) /\ Len(p \o q) \in Nat
      BY <3>2, <3>3
    <3> QED
      BY <3>2, <3>3, <3>4, <3>5, <3>6 DEF p
  <2>7. ASSUME NEW k \in 0 .. (n + 1)
        PROVE  /\ Len(P(k)) <= Len(P(n + 1))
               /\ \A i \in 1 .. Len(P(k)) : P(n + 1)[i] = P(k)[i]
    <3>1. CASE k = n + 1
      BY <2>6, <3>1
    <3>2. CASE k # n + 1
      <4>1. k \in 0 .. n
        BY <3>2
      <4>2. /\ P(k) \in Seq(Code) /\ Len(P(k)) <= Len(P(n))
            /\ \A i \in 1 .. Len(P(k)) : P(n)[i] = P(k)[i]
        BY <2>2, <2>5, <4>1
      <4>3. Len(P(k)) \in Nat
        BY <4>2
      <4> QED
        BY <2>6, <4>2, <4>3
    <3> QED
      BY <3>1, <3>2
  <2>8. Good(n + 1)
    BY <2>6, <2>7
  <2> HIDE DEF Good
  <2> QED
    BY <2>2, <2>8
<1> HIDE DEF S
<1>4. Nat \subseteq S
  BY <1>2, <1>3, AllNumbers
<1>5. \A n \in 0 .. Len(methods) : Good(n)
  <2>1. ASSUME NEW n \in 0 .. Len(methods)
        PROVE  Good(n)
    <3>1. n \in S /\ n <= Len(methods) /\ n \in 0 .. n
      BY <1>1, <1>4
    <3> HIDE DEF Good
    <3> QED
      BY <3>1 DEF S
  <2> QED
    BY <2>1
<1> QED
  BY <1>5

(* The search finds what the compiler wrote. *)
LEMMA Declared ==
  ASSUME NEW methods \in Seq(Methods(Names)), NEW k \in DOMAIN methods
  PROVE  LET aml == Encode(methods)
             i   == StartOf(methods, k)
         IN  /\ aml \in Seq(Code)
             /\ i = Len(FirstOf(methods, k - 1)) + 1 /\ i \in Nat /\ i \in Declarations(aml)
             /\ parse_pkg_length(aml, i + 1) = Len(methods[k].lead)
             /\ NameOf(aml, i) = i + 1 + Len(methods[k].lead)
             /\ NameOf(aml, i) \in 1 .. Len(FirstOf(methods, k))
             /\ aml[NameOf(aml, i)] = methods[k].name
PROOF
<1> DEFINE aml == Encode(methods)
           i == StartOf(methods, k)
           first == FirstOf(methods, k - 1)
           through == FirstOf(methods, k)
           bytes == BytesOf(methods[k])
           size == Len(methods[k].lead)
<1>1. /\ Len(methods) \in Nat /\ DOMAIN methods = 1 .. Len(methods) /\ methods[k] \in Methods(Names)
      /\ k \in 1 .. Len(methods) /\ k \in 0 .. Len(methods) /\ k - 1 \in 0 .. (Len(methods) - 1)
      /\ k - 1 \in 0 .. Len(methods) /\ Len(methods) \in 0 .. Len(methods) /\ (k - 1) + 1 = k
  OBVIOUS
<1>2. through = first \o bytes /\ FirstOf(methods, Len(methods)) = aml
  BY <1>1, FirstOfNext
<1>3. aml \in Seq(Code) /\ first \in Seq(Code) /\ through \in Seq(Code)
  BY <1>1, <1>2, FirstOfGrows
<1>4. Len(through) <= Len(aml) /\ \A j \in 1 .. Len(through) : aml[j] = through[j]
  BY <1>1, <1>2, FirstOfGrows
<1>5. /\ bytes \in Seq(Code) /\ size \in Nat \ {0}
      /\ Len(bytes) \in Nat /\ Len(bytes) >= size + 2
      /\ bytes[1] = "MethodOp" /\ bytes[2] = methods[k].lead[1] /\ bytes[size + 2] = methods[k].name
      /\ bytes[2] \in DOMAIN LeadSize /\ size = LeadSize[bytes[2]]
  BY <1>1, MethodBytes
<1>6. i = Len(first) + 1
  BY DEF StartOf, FirstOf
<1> HIDE DEF aml, i, first, through, bytes, size
<1>7. /\ Len(through) = Len(first) + Len(bytes)
      /\ \A j \in 1 .. Len(first) + Len(bytes) :
           through[j] = IF j <= Len(first) THEN first[j] ELSE bytes[j - Len(first)]
  BY <1>2, <1>3, <1>5, ConcatProperties
<1>8. Len(first) \in Nat /\ Len(aml) \in Nat /\ Len(through) \in Nat /\ DOMAIN aml = 1 .. Len(aml)
  BY <1>3
<1>9. ASSUME NEW j \in 1 .. Len(bytes)
      PROVE  Len(first) + j \in 1 .. Len(through) /\ aml[Len(first) + j] = bytes[j]
  <2>1. Len(first) + j \in 1 .. Len(first) + Len(bytes) /\ ~(Len(first) + j <= Len(first))
        /\ (Len(first) + j) - Len(first) = j
    BY <1>5, <1>8
  <2> QED
    BY <1>4, <1>7, <2>1
<1>10. 1 \in 1 .. Len(bytes) /\ 2 \in 1 .. Len(bytes) /\ size + 2 \in 1 .. Len(bytes)
  BY <1>5
<1>11. aml[i] = "MethodOp" /\ i \in 1 .. Len(aml) /\ i \in Nat
  BY <1>4, <1>5, <1>6, <1>8, <1>9, <1>10
<1>12. aml[i + 1] = bytes[2] /\ i + 1 <= Len(aml) /\ size - 1 <= Len(aml) - (i + 1) + 1
  <2>1. i + 1 = Len(first) + 2 /\ size \in Nat
    BY <1>5, <1>6, <1>8
  <2>2. aml[Len(first) + 2] = bytes[2] /\ Len(first) + 2 \in 1 .. Len(through)
        /\ Len(first) + (size + 2) \in 1 .. Len(through)
    BY <1>9, <1>10
  <2>3. Len(first) + 2 <= Len(aml) /\ size - 1 <= Len(aml) - (Len(first) + 2) + 1
    BY <1>4, <1>8, <2>1, <2>2
  <2> QED
    BY <2>1, <2>2, <2>3
<1>13. parse_pkg_length(aml, i + 1) = size
  BY <1>5, <1>12 DEF parse_pkg_length
<1>14. i \in Declarations(aml)
  BY <1>5, <1>8, <1>11, <1>13 DEF Declarations
<1>15. NameOf(aml, i) = i + 1 + size
  BY <1>13 DEF NameOf
<1>16. i + 1 + size = Len(first) + (size + 2)
  <2>1. size \in Nat /\ Len(first) \in Nat
    BY <1>5, <1>8
  <2> QED
    BY <1>6, <2>1
<1>17. NameOf(aml, i) \in 1 .. Len(through) /\ aml[NameOf(aml, i)] = methods[k].name
  BY <1>5, <1>9, <1>10, <1>15, <1>16
<1> QED
  BY <1>3, <1>6, <1>11, <1>13, <1>14, <1>15, <1>17 DEF aml, i, first, through, size

LEMMA StartsApart ==
  ASSUME NEW methods \in Seq(Methods(Names)), NEW j \in DOMAIN methods, NEW k \in DOMAIN methods, j # k
  PROVE  StartOf(methods, j) # StartOf(methods, k)
PROOF
<1>1. ASSUME NEW a \in DOMAIN methods, NEW b \in DOMAIN methods, a < b
      PROVE  StartOf(methods, a) < StartOf(methods, b)
  <2>1. /\ Len(methods) \in Nat /\ a \in 0 .. Len(methods) /\ b - 1 \in 0 .. Len(methods) /\ a \in 0 .. (b - 1)
    BY <1>1
  <2>2. Len(FirstOf(methods, a)) <= Len(FirstOf(methods, b - 1))
    BY <2>1, FirstOfGrows
  <2>3. /\ StartOf(methods, b) = Len(FirstOf(methods, b - 1)) + 1
        /\ StartOf(methods, b) \in Nat /\ StartOf(methods, a) \in Nat
    BY Declared
  <2>4. /\ NameOf(Encode(methods), StartOf(methods, a)) = StartOf(methods, a) + 1 + Len(methods[a].lead)
        /\ NameOf(Encode(methods), StartOf(methods, a)) \in 1 .. Len(FirstOf(methods, a))
    BY Declared
  <2>5. Len(methods[a].lead) \in Nat
    <3>1. methods[a] \in Methods(Names)
      OBVIOUS
    <3> QED
      BY <3>1, MethodBytes
  <2>6. FirstOf(methods, a) \in Seq(Code) /\ FirstOf(methods, b - 1) \in Seq(Code)
    BY <2>1, FirstOfGrows
  <2>7. Len(FirstOf(methods, a)) \in Nat /\ Len(FirstOf(methods, b - 1)) \in Nat
    BY <2>6, LenProperties
  <2> QED
    BY <2>2, <2>3, <2>4, <2>5, <2>7
<1>2. \A a \in DOMAIN methods : StartOf(methods, a) \in Nat
  BY Declared
<1>3. j < k \/ k < j
  <2>1. j \in 1 .. Len(methods) /\ k \in 1 .. Len(methods)
    OBVIOUS
  <2> QED
    BY <2>1
<1> QED
  BY <1>1, <1>2, <1>3

(* A declaration with another name is encoded as another name. *)
LEMMA RenamedBytes ==
  ASSUME NEW method \in Methods(Names), NEW name \in Names
  PROVE  /\ [method EXCEPT !.name = name] \in Methods(Names)
         /\ BytesOf([method EXCEPT !.name = name]) =
              [BytesOf(method) EXCEPT ![Len(method.lead) + 2] = name]
PROOF
<1> DEFINE op == <<"MethodOp">>  lead == method.lead  old == <<method.name>>  new == <<name>>
           body == method.body  renamed == [method EXCEPT !.name = name]
<1>1. lead \in Seq(Code) /\ method.name \in Names /\ body \in Seq(Code)
      /\ method \in [lead : Seq(Code), name : Names, body : Seq(Code)]
  BY DEF Methods, Code
<1>2. "MethodOp" \in Code /\ Names \subseteq Code
  BY DEF Code, Bytes, LeadSize
<1>3. renamed.lead = lead /\ renamed.name = name /\ renamed.body = body
      /\ renamed \in [lead : Seq(Code), name : Names, body : Seq(Code)]
  BY <1>1
<1>4. renamed \in Methods(Names)
  BY <1>3 DEF Methods, Code
<1>5. /\ op \in Seq(Code) /\ Len(op) = 1 /\ old \in Seq(Code) /\ Len(old) = 1 /\ new = [old EXCEPT ![1] = name]
      /\ 1 \in 1 .. Len(old) /\ name \in Code
  BY <1>1, <1>2
<1>6. BytesOf(method) = ((op \o lead) \o old) \o body /\ BytesOf(renamed) = ((op \o lead) \o new) \o body
  BY <1>3 DEF BytesOf
<1> HIDE DEF op, lead, old, new, body, renamed
<1> DEFINE two == op \o lead
<1>7. two \in Seq(Code) /\ Len(two) = Len(lead) + 1 /\ Len(lead) \in Nat /\ Len(two) \in Nat
  <2>1. two \in Seq(Code) /\ Len(two) = Len(op) + Len(lead)
    BY <1>1, <1>5, ConcatProperties
  <2>2. Len(lead) \in Nat
    BY <1>1, LenProperties
  <2> QED
    BY <1>5, <2>1, <2>2
<1> HIDE DEF two
<1>8. two \o new = [two \o old EXCEPT ![Len(two) + 1] = name]
  <2> DEFINE i == 1
  <2>1. two \in Seq(Code) /\ old \in Seq(Code) /\ name \in Code /\ i \in 1 .. Len(old)
    BY <1>5, <1>7
  <2> HIDE DEF i
  <2>2. two \o Put(old, i, name) = Put(two \o old, Len(two) + i, name)
    BY <2>1, ExceptAfter
  <2> QED
    BY <1>5, <2>2 DEF Put, i
<1>9. two \o old \in Seq(Code) /\ Len(two \o old) = Len(two) + 1
  BY <1>5, <1>7, ConcatProperties
<1>10. Len(two) + 1 \in 1 .. Len(two \o old) /\ Len(two) + 1 = Len(lead) + 2
  BY <1>7, <1>9
<1>11. (two \o new) \o body = [(two \o old) \o body EXCEPT ![Len(lead) + 2] = name]
  <2> DEFINE three == two \o old  at == Len(two) + 1
  <2>1. three \in Seq(Code) /\ at \in 1 .. Len(three) /\ body \in Seq(Code) /\ name \in Code
        /\ two \o new = [three EXCEPT ![at] = name] /\ at = Len(lead) + 2
    BY <1>1, <1>5, <1>8, <1>9, <1>10
  <2> HIDE DEF three, at
  <2>2. three \in Seq(Code) /\ at \in 1 .. Len(three) /\ body \in Seq(Code) /\ name \in Code
    BY <2>1
  <2>3. Put(three, at, name) \o body = Put(three \o body, at, name)
    BY <2>2, ExceptBefore
  <2> QED
    BY <2>1, <2>3 DEF three, Put
<1> QED
  BY <1>4, <1>6, <1>11 DEF two, lead, renamed

(* With one declaration of _PTS, renaming it is writing its name. *)
LEMMA RenamedOne ==
  ASSUME NEW methods \in Seq(Methods(Names)), NEW k \in DOMAIN methods,
         \A j \in DOMAIN methods : methods[j].name = "_PTS" <=> j = k
  PROVE  Renamed(methods) =
           [Encode(methods) EXCEPT ![StartOf(methods, k) + 1 + Len(methods[k].lead)] = "SPTS"]
PROOF
<1> DEFINE new == [j \in DOMAIN methods |->
                     IF methods[j].name = "_PTS" THEN [methods[j] EXCEPT !.name = "SPTS"] ELSE methods[j]]
           P(n) == FirstOf(methods, n)
           Q(n) == FirstOf(new, n)
           size == Len(methods[k].lead)
           at == Len(P(k - 1)) + (size + 2)
           S == {n \in Nat : n <= Len(methods) =>
                   /\ n < k => Q(n) = P(n)
                   /\ k <= n => at \in 1 .. Len(P(n)) /\ Q(n) = [P(n) EXCEPT ![at] = "SPTS"]}
<1>1. /\ Len(methods) \in Nat /\ DOMAIN methods = 1 .. Len(methods) /\ k \in 1 .. Len(methods)
      /\ k - 1 \in 0 .. (Len(methods) - 1) /\ k - 1 \in 0 .. Len(methods)
      /\ \A j \in 1 .. Len(methods) : methods[j] \in Methods(Names)
  OBVIOUS
<1>2. "SPTS" \in Names /\ "SPTS" \in Code
  BY DEF Names, Code, Bytes
<1>3. /\ new \in Seq(Methods(Names)) /\ Len(new) = Len(methods)
      /\ new[k] = [methods[k] EXCEPT !.name = "SPTS"]
      /\ \A j \in 1 .. Len(methods) : j # k => new[j] = methods[j]
  <2>1. \A j \in 1 .. Len(methods) : [methods[j] EXCEPT !.name = "SPTS"] \in Methods(Names)
    BY <1>1, <1>2, RenamedBytes
  <2>2. \A j \in 1 .. Len(methods) : new[j] \in Methods(Names)
    BY <1>1, <2>1
  <2>3. new \in Seq(Methods(Names)) /\ Len(new) = Len(methods)
    BY <1>1, <2>2
  <2> QED
    BY <1>1, <2>3
<1>4. Renamed(methods) = Q(Len(methods)) /\ Encode(methods) = P(Len(methods))
  <2>1. Renamed(methods) = Encode(new)
    BY DEF Renamed
  <2> HIDE DEF new
  <2> QED
    BY <1>3, <2>1, FirstOfNext
<1>5. /\ P(0) = <<>> /\ Q(0) = <<>>
      /\ \A n \in 0 .. (Len(methods) - 1) : P(n + 1) = P(n) \o BytesOf(methods[n + 1])
                                         /\ Q(n + 1) = Q(n) \o BytesOf(new[n + 1])
  <2> HIDE DEF new
  <2> QED
    BY <1>3, FirstOfNext
<1>6. \A n \in 0 .. Len(methods) : P(n) \in Seq(Code) /\ Len(P(n)) \in Nat
  BY FirstOfGrows, LenProperties
<1>7. size \in Nat /\ size + 2 \in 1 .. Len(BytesOf(methods[k]))
      /\ BytesOf(new[k]) = [BytesOf(methods[k]) EXCEPT ![size + 2] = "SPTS"]
      /\ BytesOf(methods[k]) \in Seq(Code)
  <2>1. /\ Len(methods[k].lead) \in Nat /\ Len(BytesOf(methods[k])) \in Nat
        /\ Len(BytesOf(methods[k])) >= Len(methods[k].lead) + 2
        /\ BytesOf(methods[k]) \in Seq(Code)
    BY <1>1, MethodBytes
  <2>2. BytesOf(new[k]) = [BytesOf(methods[k]) EXCEPT ![Len(methods[k].lead) + 2] = "SPTS"]
    <3> HIDE DEF new
    <3> QED
      BY <1>1, <1>2, <1>3, RenamedBytes
  <2> HIDE DEF new
  <2> QED
    BY <2>1, <2>2
<1> HIDE DEF new, P, Q, size
<1>8. 0 \in S
  BY <1>1, <1>5
<1>9. ASSUME NEW n \in Nat, n \in S
      PROVE  n + 1 \in S
  <2> SUFFICES ASSUME n + 1 <= Len(methods)
               PROVE  /\ n + 1 < k => Q(n + 1) = P(n + 1)
                      /\ k <= n + 1 => at \in 1 .. Len(P(n + 1)) /\ Q(n + 1) = [P(n + 1) EXCEPT ![at] = "SPTS"]
    OBVIOUS
  <2>1. /\ n \in 0 .. (Len(methods) - 1) /\ n \in 0 .. Len(methods) /\ n <= Len(methods)
        /\ n + 1 \in 1 .. Len(methods) /\ n + 1 \in 0 .. Len(methods) /\ k \in Nat
    BY <1>1
  <2>2. P(n + 1) = P(n) \o BytesOf(methods[n + 1]) /\ Q(n + 1) = Q(n) \o BytesOf(new[n + 1])
    BY <1>5, <2>1
  <2>3. /\ P(n) \in Seq(Code) /\ Len(P(n)) \in Nat /\ Len(P(n + 1)) \in Nat
        /\ BytesOf(methods[n + 1]) \in Seq(Code)
    BY <1>1, <1>6, <2>1, MethodBytes
  <2>4. Len(P(n + 1)) = Len(P(n)) + Len(BytesOf(methods[n + 1]))
    BY <2>2, <2>3, ConcatProperties
  <2>5. CASE n + 1 < k
    <3>1. Q(n) = P(n) /\ n + 1 # k
      BY <1>9, <2>1, <2>5
    <3>2. ~(k <= n + 1)
      BY <2>1, <2>5
    <3> QED
      BY <1>3, <2>1, <2>2, <3>1, <3>2
  <2>6. CASE n + 1 = k
    <3>1. Q(n) = P(n) /\ k - 1 = n
      BY <1>9, <2>1, <2>6
    <3>2. Q(n + 1) = P(n) \o [BytesOf(methods[k]) EXCEPT ![size + 2] = "SPTS"]
      BY <1>7, <2>2, <2>6, <3>1
    <3>3. Q(n + 1) = [P(n + 1) EXCEPT ![Len(P(n)) + (size + 2)] = "SPTS"]
      <4> DEFINE p == P(n)  t == BytesOf(methods[k])  i == size + 2
      <4>1. p \in Seq(Code) /\ t \in Seq(Code) /\ i \in 1 .. Len(t) /\ "SPTS" \in Code
            /\ Q(n + 1) = p \o [t EXCEPT ![i] = "SPTS"] /\ P(n + 1) = p \o t
        BY <1>2, <1>7, <2>2, <2>3, <2>6, <3>2
      <4> HIDE DEF p, t, i
      <4>2. p \in Seq(Code) /\ t \in Seq(Code) /\ i \in 1 .. Len(t) /\ "SPTS" \in Code
        BY <4>1
      <4>3. p \o Put(t, i, "SPTS") = Put(p \o t, Len(p) + i, "SPTS")
        BY <4>2, ExceptAfter
      <4> QED
        BY <4>1, <4>3 DEF p, i, Put
    <3>4. at = Len(P(n)) + (size + 2)
      BY <3>1
    <3>5. at \in 1 .. Len(P(n + 1))
      BY <1>7, <2>3, <2>4, <2>6, <3>4
    <3>6. ~(n + 1 < k)
      BY <2>1, <2>6
    <3> HIDE DEF at
    <3> QED
      BY <3>3, <3>4, <3>5, <3>6
  <2>7. CASE k < n + 1
    <3> DEFINE t == BytesOf(methods[n + 1])
    <3>1. /\ at \in 1 .. Len(P(n)) /\ Q(n) = [P(n) EXCEPT ![at] = "SPTS"]
          /\ n + 1 # k /\ ~(n + 1 < k)
      BY <1>9, <2>1, <2>7
    <3> HIDE DEF at
    <3>2. Q(n + 1) = [P(n) EXCEPT ![at] = "SPTS"] \o BytesOf(methods[n + 1])
      BY <1>3, <2>1, <2>2, <3>1
    <3>3. Q(n + 1) = [P(n + 1) EXCEPT ![at] = "SPTS"]
      <4> DEFINE p == P(n)
      <4>1. p \in Seq(Code) /\ t \in Seq(Code) /\ at \in 1 .. Len(p) /\ "SPTS" \in Code
            /\ Q(n + 1) = [p EXCEPT ![at] = "SPTS"] \o t /\ P(n + 1) = p \o t
        BY <1>2, <2>2, <2>3, <3>1, <3>2
      <4> HIDE DEF p, t
      <4>2. p \in Seq(Code) /\ t \in Seq(Code) /\ at \in 1 .. Len(p) /\ "SPTS" \in Code
        BY <4>1
      <4>3. Put(p, at, "SPTS") \o t = Put(p \o t, at, "SPTS")
        BY <4>2, ExceptBefore
      <4> QED
        BY <4>1, <4>3 DEF Put
    <3>4. Len(t) \in Nat /\ t \in Seq(Code)
      BY <2>3, LenProperties
    <3>5. at \in 1 .. Len(P(n + 1))
      BY <2>3, <2>4, <3>1, <3>4
    <3> QED
      BY <3>1, <3>3, <3>5
  <2> HIDE DEF at
  <2> QED
    BY <2>1, <2>5, <2>6, <2>7
<1> HIDE DEF S
<1>10. Nat \subseteq S
  BY <1>8, <1>9, AllNumbers
<1>11. Q(Len(methods)) = [P(Len(methods)) EXCEPT ![at] = "SPTS"]
  <2>1. Len(methods) \in S /\ k <= Len(methods) /\ Len(methods) <= Len(methods)
    BY <1>1, <1>10
  <2> HIDE DEF at
  <2> QED
    BY <2>1 DEF S
<1>12. at = StartOf(methods, k) + 1 + Len(methods[k].lead)
  <2>1. StartOf(methods, k) = Len(P(k - 1)) + 1
    BY DEF StartOf, FirstOf, P
  <2>2. Len(P(k - 1)) \in Nat /\ size \in Nat
    BY <1>1, <1>6, <1>7
  <2>3. at = StartOf(methods, k) + 1 + size
    BY <2>1, <2>2
  <2> QED
    BY <2>3 DEF size
<1> QED
  BY <1>4, <1>11, <1>12

(* When the search can cope with the declarations, it renames _PTS.        *)
LEMMA PatchedRight ==
  ASSUME NEW methods \in Seq(Methods(Names)), Searchable(methods)
  PROVE  /\ Patched(methods) = Renamed(methods)
         /\ find_method(Encode(methods), "_PTS") <=> Calls(methods)
PROOF
<1> DEFINE aml == Encode(methods)
           found == Named(aml, "_PTS")
<1>1. /\ ~Overruns(aml) /\ Cardinality(found) <= 1
      /\ \A i \in found : \E k \in DOMAIN methods : i = StartOf(methods, k)
      /\ \A i \in found : parse_pkg_length(aml, i + 1) = pkg_length_out(aml)
  BY DEF Searchable
<1>2. ASSUME NEW k \in DOMAIN methods
      PROVE  methods[k].name = "_PTS" <=> StartOf(methods, k) \in found
  BY Declared DEF Named
<1>3. IsFiniteSet(found)
  <2>1. found \subseteq DOMAIN aml
    BY DEF Named, Declarations
  <2>2. DOMAIN aml = 1 .. Len(aml) /\ Len(aml) \in Nat
    <3>1. Encode(methods) = FirstOf(methods, Len(methods)) /\ Len(methods) \in 0 .. Len(methods)
      BY FirstOfNext
    <3>2. aml \in Seq(Code)
      BY <3>1, FirstOfGrows
    <3> HIDE DEF aml
    <3> QED
      BY <3>2
  <2> HIDE DEF found, aml
  <2>3. IsFiniteSet(1 .. Len(aml))
    BY <2>2, FS_Interval
  <2> QED
    BY <2>1, <2>2, <2>3, FS_Subset
<1> HIDE DEF found
<1>4. Cardinality(found) = 1 <=> found # {}
  BY <1>1, <1>3, FS_CardinalityType, FS_EmptySet
<1>5. find_method(aml, "_PTS") <=> found # {}
  BY <1>1, <1>4 DEF find_method, found
<1>6. found # {} <=> Calls(methods)
  BY <1>1, <1>2 DEF Calls
<1>7. CASE found = {}
  <2>1. \A k \in DOMAIN methods : methods[k].name # "_PTS"
    BY <1>2, <1>7
  <2>2. [k \in DOMAIN methods |->
           IF methods[k].name = "_PTS" THEN [methods[k] EXCEPT !.name = "SPTS"] ELSE methods[k]] = methods
    BY <2>1
  <2>3. Renamed(methods) = aml
    BY <2>2 DEF Renamed
  <2> QED
    BY <1>5, <1>6, <1>7, <2>3 DEF Patched
<1>8. CASE found # {}
  <2>1. PICK i : found = {i}
    BY <1>3, <1>4, <1>8, FS_Singleton
  <2>2. PICK k \in DOMAIN methods : i = StartOf(methods, k)
    BY <1>1, <2>1
  <2>3. \A j \in DOMAIN methods : methods[j].name = "_PTS" <=> j = k
    BY <1>2, <2>1, <2>2, StartsApart
  <2>4. pkg_length_out(aml) = Len(methods[k].lead)
    BY <1>1, <2>1, <2>2, Declared
  <2>5. (CHOOSE n \in found : TRUE) = i
    BY <2>1
  <2>6. method_name_offset(aml, "_PTS") = StartOf(methods, k) + 1 + Len(methods[k].lead)
    BY <2>2, <2>4, <2>5 DEF method_name_offset, found
  <2>7. rename_method(aml, "_PTS", "SPTS") = Renamed(methods)
    BY <2>3, <2>6, RenamedOne DEF rename_method
  <2> QED
    BY <1>5, <1>6, <1>8, <2>7 DEF Patched
<1> QED
  BY <1>5, <1>6, <1>7, <1>8

-------------------------------------------------------------------------------
(* The AML of the DSDT. *)

LEMMA AmlInit == EntryInit => AmlInv
PROOF
<1> SUFFICES ASSUME EntryInit
             PROVE  AmlInv
  OBVIOUS
<1>1. pc = "load_core"
  BY DEF EntryInit, Init
<1> QED
  BY <1>1, StepSets DEF AmlInv

(* Of the steps after which the AML is known, each is one of these. *)
LEMMA AmlSteps ==
  /\ "set_variable" \in AfterTables \ AfterPts /\ "find_pts" \in AfterTables \ AfterPts
  /\ "append_head" \in AfterPts \ AfterBody /\ "append_body" \in AfterPts \ AfterBody
  /\ "fill_disk_pci" \in AfterBody /\ Kernel \subseteq AfterBody
  /\ AfterBody \subseteq AfterPts /\ AfterPts \subseteq AfterTables
BY StepSets DEF AfterTables, AfterSetVariable, AfterGetMemoryMap, AfterEvent, AfterPts, AfterHead, AfterBody,
                AfterDisk, AfterAreas, Kernel, InCore, Mapped, Paged

LEMMA AmlFound ==
  ASSUME MemoryInv, FoundInv, find_acpi_tables, ~err'
  PROVE  AmlInv'
PROOF
<1>1. pc = "find_acpi_tables" /\ UNCHANGED <<machine, tables>>
  BY DEF find_acpi_tables
<1>2. ~err
  BY <1>1 DEF MemoryInv, ErrInv, Unhooking, Kernel
<1>3. tables = machine.tables
  BY <1>1, <1>2, StepSets DEF FoundInv
<1>4. g' = Found /\ Found # NoTables /\ pc' = "set_variable"
  BY <1>3 DEF find_acpi_tables, Found, Fail, Goto
<1>5. machine.tables[Found.dsdt].aml = Encode(machine.methods)
  BY <1>4, AFind DEF MemoryInv, TypeInv, Found
<1>6. Block' = Encode(machine.methods)
  BY <1>1, <1>3, <1>4, <1>5 DEF Block
<1> QED
  BY <1>1, <1>4, <1>6, AmlSteps DEF AmlInv

LEMMA AmlHooked ==
  ASSUME MemoryInv, FoundInv, TablesInv, AmlInv, create_or_hook_pts, ~err'
  PROVE  AmlInv'
PROOF
<1> DEFINE aml == Encode(machine.methods)
<1>1. pc = "find_pts" /\ UNCHANGED <<machine, g>>
  BY DEF create_or_hook_pts
<1>2. ~err
  BY <1>1 DEF MemoryInv, ErrInv, Unhooking, Kernel
<1>3. Block = aml /\ pc' = "append_head"
  BY <1>1, <1>2, AmlSteps DEF AmlInv, create_or_hook_pts, Fail, Goto
<1>4. g.dsdt \in DOMAIN tables /\ {"aml", "checksum"} \subseteq DOMAIN tables[g.dsdt]
  <2>1. g # NoTables
    BY <1>1, <1>2, AmlSteps DEF FoundInv
  <2> QED
    BY <2>1 DEF TablesInv, WholeDsdt
<1> HIDE DEF aml
<1>5. CASE ~find_method(aml, "_PTS")
  <2>1. tables' = tables /\ pts' = [facs |-> g.facs, calls_spts |-> FALSE]
    BY <1>3, <1>5 DEF create_or_hook_pts
  <2>2. Block' = aml
    BY <1>1, <1>3, <2>1 DEF Block
  <2>3. Patched(machine.methods) = aml
    BY <1>5 DEF Patched, aml
  <2>4. ~pts'.calls_spts
    BY <2>1
  <2> QED
    BY <1>1, <1>3, <1>5, <2>2, <2>3, <2>4, AmlSteps DEF AmlInv, aml
<1>6. CASE find_method(aml, "_PTS")
  <2> DEFINE renamed == [tables[g.dsdt] EXCEPT !.aml = rename_method(aml, "_PTS", "SPTS")]
  <2>1. tables' = [tables EXCEPT ![g.dsdt] = fix_table_checksum(renamed)]
        /\ pts' = [facs |-> g.facs, calls_spts |-> TRUE]
    BY <1>3, <1>6 DEF create_or_hook_pts, Fail
  <2>2. "aml" \in DOMAIN renamed /\ renamed.aml = rename_method(aml, "_PTS", "SPTS")
    BY <1>4
  <2> HIDE DEF renamed
  <2>3. fix_table_checksum(renamed).aml = rename_method(aml, "_PTS", "SPTS")
    BY <2>2 DEF fix_table_checksum
  <2>4. tables'[g.dsdt] = fix_table_checksum(renamed)
    BY <1>4, <2>1
  <2>5. Block' = rename_method(aml, "_PTS", "SPTS")
    BY <1>1, <2>3, <2>4 DEF Block
  <2>6. Patched(machine.methods) = rename_method(aml, "_PTS", "SPTS")
    BY <1>6 DEF Patched, aml
  <2>7. pts'.calls_spts
    BY <2>1
  <2> QED
    BY <1>1, <1>3, <1>6, <2>5, <2>6, <2>7, AmlSteps DEF AmlInv, aml
<1> QED
  BY <1>5, <1>6

LEMMA AmlAppended ==
  ASSUME NEW part, NEW step \in {"append_head", "append_body"}, NEW next \in {"append_body", "fill_disk_pci"},
         append_dsdt(step, part, next), ~err', DOMAIN g = DOMAIN NoTables, g.fadt \notin 1 .. LowPages
  PROVE  /\ pc = step /\ pc' = next /\ Block' = Block \o part
         /\ UNCHANGED <<machine, pts, err>>
PROOF
<1>1. PICK p \in 1 .. LowPages :
        /\ g' = [g EXCEPT !.dsdt = p] /\ Goto(next)
        /\ LET longer == Block \o part
               copied == [signature |-> "DSDT", aml |-> longer, checksum |-> longer]
               redirected == [tables[g.fadt] EXCEPT !.dsdt = p, !.x_dsdt = p, !.checksum = <<p, p>>]
           IN  tables' = [a \in DOMAIN tables \cup {p} |->
                            CASE a = p -> copied [] a = g.fadt -> redirected [] OTHER -> tables[a]]
  BY DEF append_dsdt, Fail
<1> DEFINE longer == Block \o part
           copied == [signature |-> "DSDT", aml |-> longer, checksum |-> longer]
           redirected == [tables[g.fadt] EXCEPT !.dsdt = p, !.x_dsdt = p, !.checksum = <<p, p>>]
<1>2. tables' = [a \in DOMAIN tables \cup {p} |->
                   CASE a = p -> copied [] a = g.fadt -> redirected [] OTHER -> tables[a]]
  BY <1>1
<1>3. copied.aml = Block \o part
  OBVIOUS
<1> HIDE DEF copied, redirected
<1>4. tables'[p] = copied
  <2>1. p # g.fadt /\ p \in DOMAIN tables \cup {p}
    OBVIOUS
  <2> QED
    BY <1>2, <2>1
<1>5. g'.dsdt = p
  BY <1>1 DEF NoTables
<1>6. Block' = Block \o part
  BY <1>3, <1>4, <1>5 DEF Block
<1>7. pc = step /\ pc' = next /\ UNCHANGED <<machine, pts, err>>
  BY <1>1 DEF append_dsdt, Goto
<1> QED
  BY <1>6, <1>7

LEMMA AmlNext == MemoryInv /\ FoundInv /\ TablesInv /\ AmlInv /\ [EntryNext]_allVars => AmlInv'
PROOF
<1> SUFFICES ASSUME MemoryInv, FoundInv, TablesInv, AmlInv, [EntryNext]_allVars, ~err'
             PROVE  AmlInv'
  BY DEF AmlInv
<1>1. CASE find_acpi_tables
  BY <1>1, AmlFound
<1>2. CASE create_or_hook_pts
  BY <1>2, AmlHooked
<1>3. CASE append_method
  <2>1. DOMAIN g = DOMAIN NoTables /\ g.fadt \notin 1 .. LowPages
    <3>1. pc \in {"append_head", "append_body"}
      BY <1>3 DEF append_method, append_dsdt
    <3>2. ~err /\ pc \in AfterTables
      BY <3>1, AmlSteps DEF MemoryInv, ErrInv, Unhooking, Kernel
    <3>3. g.fadt = Found.fadt /\ Found # NoTables /\ machine \in Machines
      BY <3>2 DEF FoundInv, MemoryInv, TypeInv
    <3> QED
      BY <3>3, FoundFacts, Sizes DEF MemoryInv, TypeInv
  <2>2. CASE append_dsdt("append_head", HookHead, "append_body")
    <3>1. /\ pc = "append_head" /\ pc' = "append_body" /\ Block' = Block \o HookHead
          /\ UNCHANGED <<machine, pts, err>>
      BY <2>1, <2>2, AmlAppended
    <3> QED
      BY <3>1, AmlSteps DEF AmlInv
  <2>3. CASE append_dsdt("append_body", HookBody, "fill_disk_pci")
    <3>1. /\ pc = "append_body" /\ pc' = "fill_disk_pci" /\ Block' = Block \o HookBody
          /\ UNCHANGED <<machine, pts, err>>
      BY <2>1, <2>3, AmlAppended
    <3>2. /\ Block = Patched(machine.methods) \o HookHead
          /\ pts.calls_spts <=> find_method(Encode(machine.methods), "_PTS")
      BY <3>1, AmlSteps DEF AmlInv
    <3>3. Block' = Patched(machine.methods) \o HookHead \o HookBody
          /\ HookBody' = HookBody
      BY <3>1, <3>2 DEF HookBody
    <3> QED
      BY <3>1, <3>2, <3>3, AmlSteps DEF AmlInv
  <2> QED
    BY <1>3, <2>2, <2>3 DEF append_method
<1>4. CASE QuietNext
  <2>1. /\ UNCHANGED machine /\ Block' = Block /\ pts' = pts /\ HookBody' = HookBody
    BY <1>4, QuietTables DEF acpi, Block, HookBody
  <2>2. /\ ~err
        /\ pc' \in AfterTables <=> pc \in AfterTables
        /\ pc' \in AfterPts <=> pc \in AfterPts
        /\ pc' \in AfterBody <=> pc \in AfterBody
        /\ pc' \in {"append_head", "append_body"} => pc' = pc
    BY <1>4, QuietPhases
  <2>3. \/ UNCHANGED pc
        \/ pc' \in AfterTables \ AfterPts /\ pc \in AfterTables \ AfterPts
        \/ pc' \in AfterBody /\ pc \in AfterBody
        \/ pc' \notin AfterTables
    <3>1. AfterPts = {"append_head", "append_body"} \cup AfterBody
      BY DEF AfterPts, AfterHead
    <3> QED
      BY <2>2, <3>1
  <2>4. CASE UNCHANGED pc
    BY <2>1, <2>2, <2>4 DEF AmlInv
  <2>5. CASE pc' \in AfterTables \ AfterPts /\ pc \in AfterTables \ AfterPts
    BY <2>1, <2>2, <2>5, AmlSteps DEF AmlInv
  <2>6. CASE pc' \in AfterBody /\ pc \in AfterBody
    BY <2>1, <2>2, <2>6, AmlSteps DEF AmlInv
  <2>7. CASE pc' \notin AfterTables
    BY <2>7, AmlSteps DEF AmlInv
  <2> QED
    BY <2>3, <2>4, <2>5, <2>6, <2>7
<1> QED
  BY <1>1, <1>2, <1>3, <1>4 DEF QuietNext, EntryNext, Next, EfiMain

LEMMA AmlInvariant == EntrySpec => []AmlInv
BY AmlInit, AmlNext, MemoryInvariant, TablesInvariant, PTL DEF EntrySpec

(* The hook is appended whole to the declarations that the machine came    *)
(* with, of which _PTS and nothing else is renamed, and every table that a *)
(* kernel follows is whole (uefi/acpi/patch).                              *)
THEOREM DsdtStaysWhole == EntrySpec => []DsdtIsWhole
PROOF
<1>1. MemoryInv /\ FoundInv /\ TablesInv /\ AmlInv => HookIsWhole
  <2> SUFFICES ASSUME MemoryInv, FoundInv, TablesInv, AmlInv, Booted, ~err, Searchable(machine.methods)
               PROVE  /\ tables[KernelDsdt].aml = Renamed(machine.methods) \o HookHead \o HookBody
                      /\ pts.calls_spts <=> Calls(machine.methods)
    BY DEF HookIsWhole
  <2>1. pc \in AfterBody /\ pc \in AfterPts /\ pc \in AfterTables
    BY AmlSteps DEF Booted, Kernel
  <2>2. /\ Block = Patched(machine.methods) \o HookHead \o HookBody
        /\ pts.calls_spts <=> find_method(Encode(machine.methods), "_PTS")
    BY <2>1 DEF AmlInv
  <2>3. machine.methods \in Seq(Methods(Names))
    BY MachinesAreMachines DEF MemoryInv, TypeInv
  <2>4. g.dsdt = KernelDsdt
    BY <2>1 DEF FoundInv, TablesInv
  <2> QED
    BY <2>2, <2>3, <2>4, PatchedRight DEF Block
<1> QED
  BY <1>1, TablesStayWhole, MemoryInvariant, TablesInvariant, AmlInvariant, PTL DEF DsdtIsWhole
===============================================================================
