-------------------------------- MODULE CoreEntry --------------------------------
(***************************************************************************)
(* How the core is entered (core/rm, core/pm): a kernel booted by BootApp  *)
(* suspends through the hooked _PTS, and the firmware wakes the machine in *)
(* real mode at the waking vector.  The core switches to protected mode,   *)
(* maps every address to itself, turns paging and long mode on and jumps   *)
(* to core_main.  The parts it runs in are those BootApp reserved, laid    *)
(* out by their linker scripts.                                            *)
(*                                                                         *)
(* Page tables have PT_ENTRIES_NUM entries and map whole gigabytes.  The   *)
(* firmware is taken to wake the machine with DS at 0.                     *)
(***************************************************************************)
EXTENDS BootApp

CONSTANT PT_ENTRIES_NUM   \* bound: 512 in the code

(* The linker scripts: the layouts of the three parts, in pages.  The      *)
(* protected mode part is code and data, the PML4, the PDPTs, the stack;   *)
(* core_main has a page of header before it.                               *)
RmText  == Rm.start
PmText  == Pm.start
PML4    == Pm.start + 1
PmStack == Pm.start + 2 + PT_ENTRIES_NUM
CORE_MAIN_PHYS_ADDR == Core.start + 1

ASSUME PartsFit == /\ PT_ENTRIES_NUM \in Nat \ {0}
                   /\ Rm.size = 1 /\ Pm.size = PT_ENTRIES_NUM + 3 /\ Core.size >= 2
                   /\ PartPages \subseteq 1 .. LowPages

VARIABLES
  cpu,    \* where it runs, its mode, segments and control registers
  pt,     \* <<page, index>> -> entry, of the page tables written so far
  idx,    \* pdpt_idx and i of the loops that write the page tables
  written \* pages the core wrote to before core_main

entryVars == <<cpu, pt, idx, written>>
allVars   == <<vars, entryVars>>

Cpu == [at |-> 0, cs |-> "real", gdt |-> 0, stack |-> 0,
        pe |-> FALSE, pae |-> FALSE, lme |-> FALSE, pg |-> FALSE, cr3 |-> 0]

EntryInit ==
  /\ Init
  /\ cpu = Cpu
  /\ pt = <<>>
  /\ idx = [pdpt_idx |-> 0, i |-> 0]
  /\ written = {}

(* Descriptor 1 of the GDT in each part: 32-bit code, then 64-bit code.    *)
CodeDescriptor == [p \in {RmText, PmText} |-> IF p = RmText THEN "code32" ELSE "code64"]

At(step, next) == pc = step /\ pc' = next /\ UNCHANGED <<machine, err, type, acpi, hook, service,
                                                         events, header, runtime, moved>>

(* The kernel runs the hooked _PTS before it suspends, and the firmware    *)
(* jumps to the waking vector: CORE_RM_PHYS_ADDR in pts_hook.asl.          *)
Suspend ==
  /\ ~err /\ Searchable(machine.methods)
  /\ At("virtual", "core_wakeup")
  /\ cpu' = [Cpu EXCEPT !.at = RmText]
  /\ UNCHANGED <<pt, idx, written>>

(* CS is based at the part and the symbol is an address too, so esp comes  *)
(* from the page one part beyond, and the flags are pushed to wherever it  *)
(* points.  Bound: into the core's own code or next to it.                 *)
core_wakeup ==
  /\ At("core_wakeup", "begin_pm")
  /\ \E p \in {RmText, RmText + 1} : written' = {p}
  /\ cpu' = [cpu EXCEPT !.gdt = RmText, !.pe = TRUE, !.cs = CodeDescriptor[RmText]]
  /\ UNCHANGED <<pt, idx>>

begin_pm ==
  /\ At("begin_pm", "pm_stub")
  /\ cpu' = [cpu EXCEPT !.at = PmText]
  /\ UNCHANGED <<pt, idx, written>>

pm_stub ==
  /\ At("pm_stub", "setup_pml4")
  /\ cpu' = [cpu EXCEPT !.stack = PmStack]
  /\ written' = written \cup {PmStack}
  /\ UNCHANGED <<pt, idx>>

(* Mutant: the PDPTs begin where the PML4 does. *)
pdpt_addr_same == PML4 + idx.pdpt_idx

(* The PDPTs follow the PML4. *)
pdpt_addr == PML4 + idx.pdpt_idx + 1

(* One entry of a table: a PDPT maps a gigabyte, the PML4 names a PDPT.    *)
WriteEntry(table, i, addr, huge) ==
  /\ pt' = [e \in DOMAIN pt \cup {<<table, i>>} |->
              IF e = <<table, i>> THEN [addr |-> addr, huge |-> huge] ELSE pt[e]]
  /\ written' = written \cup {table}

setup_pdpt ==
  /\ idx.pdpt_idx < PT_ENTRIES_NUM /\ idx.i < PT_ENTRIES_NUM
  /\ At("setup_pml4", "setup_pml4")
  /\ WriteEntry(pdpt_addr, idx.i, idx.pdpt_idx * PT_ENTRIES_NUM + idx.i, TRUE)
  /\ idx' = [idx EXCEPT !.i = @ + 1]
  /\ UNCHANGED cpu

setup_pml4 ==
  /\ idx.pdpt_idx < PT_ENTRIES_NUM /\ idx.i = PT_ENTRIES_NUM
  /\ At("setup_pml4", "setup_pml4")
  /\ WriteEntry(PML4, idx.pdpt_idx, pdpt_addr, FALSE)
  /\ idx' = [pdpt_idx |-> idx.pdpt_idx + 1, i |-> 0]
  /\ UNCHANGED cpu

load_cr3 ==
  /\ idx.pdpt_idx = PT_ENTRIES_NUM
  /\ At("setup_pml4", "enable_pae")
  /\ cpu' = [cpu EXCEPT !.cr3 = PML4]
  /\ UNCHANGED <<pt, idx, written>>

enable_pae ==
  /\ At("enable_pae", "enable_lm")
  /\ cpu' = [cpu EXCEPT !.pae = TRUE]
  /\ UNCHANGED <<pt, idx, written>>

enable_lm ==
  /\ At("enable_lm", "enable_paging")
  /\ cpu' = [cpu EXCEPT !.lme = TRUE]
  /\ UNCHANGED <<pt, idx, written>>

enable_paging ==
  /\ At("enable_paging", "load_lm_gdt")
  /\ cpu' = [cpu EXCEPT !.pg = TRUE]
  /\ UNCHANGED <<pt, idx, written>>

(* The far jump loads the code descriptor of the GDT in the part's data.   *)
load_lm_gdt ==
  /\ At("load_lm_gdt", "core_main")
  /\ cpu' = [cpu EXCEPT !.gdt = PmText, !.cs = CodeDescriptor[PmText], !.at = CORE_MAIN_PHYS_ADDR]
  /\ UNCHANGED <<pt, idx, written>>

EnterCore ==
  \/ Suspend \/ core_wakeup \/ begin_pm \/ pm_stub \/ setup_pdpt \/ setup_pml4 \/ load_cr3
  \/ enable_pae \/ enable_lm \/ enable_paging \/ load_lm_gdt

EntryNext == (Next /\ UNCHANGED entryVars) \/ EnterCore
EntrySpec == EntryInit /\ [][EntryNext]_allVars

-------------------------------------------------------------------------------
(* Where the tables under cr3 take gigabyte v, or -1 without a mapping.    *)
Translate(v) ==
  LET top == <<cpu.cr3, v \div PT_ENTRIES_NUM>>
      leaf == <<pt[top].addr, v % PT_ENTRIES_NUM>>
  IN  IF top \in DOMAIN pt /\ ~pt[top].huge /\ leaf \in DOMAIN pt /\ pt[leaf].huge
      THEN pt[leaf].addr ELSE -1

(* What core_main checks before it touches anything; magic and action are  *)
(* the core's own.                                                         *)
is_core_header_valid ==
  /\ header.facs # 0 /\ header.rsdp # 0
  /\ Len(header.ram_areas) <= MaxRamAreas
  /\ \A k \in DOMAIN header.ram_areas : header.ram_areas[k].size # 0

(* The core runs, keeps its stack and its GDT, and writes, only in memory  *)
(* that the EFI application reserved for its parts, and never writes to    *)
(* code; paging is turned on only with PAE, long mode and tables that map  *)
(* every gigabyte to itself, for the code that turns it on is fetched      *)
(* through them; and core_main is 64-bit code, which finds a header it     *)
(* accepts.  Where the very first push goes is not known, so a wake up on  *)
(* which it hits the core is left out.                                     *)
EntryIsSound ==
  LET own == written \ {RmText + 1}
  IN  cpu.at # 0 /\ RmText \notin written =>
        /\ \A p \in ({cpu.at, cpu.gdt, cpu.stack} \ {0}) \cup own :
             p \in PartPages /\ type[p] = "reserved"
        /\ own \cap {PmText, CORE_MAIN_PHYS_ADDR} = {}
        /\ cpu.pg => /\ cpu.pe /\ cpu.pae /\ cpu.lme
                     /\ \A v \in 0 .. PT_ENTRIES_NUM * PT_ENTRIES_NUM - 1 : Translate(v) = v
        /\ pc = "core_main" => cpu.pg /\ cpu.cs = "code64" /\ cpu.stack \notin {0, PML4} /\ is_core_header_valid
===============================================================================
