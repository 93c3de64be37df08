--------------------------------- MODULE BootApp ---------------------------------
(***************************************************************************)
(* The EFI application (uefi/): it loads the core into reserved memory,    *)
(* finds the ACPI tables, hooks two services and an event of the firmware, *)
(* hooks the _PTS method in a copy of the DSDT, and tells the core where   *)
(* the tables and the RAM are.  Any step may fail, and then the services   *)
(* are unhooked again.  Afterwards a kernel boots: it asks for the memory  *)
(* map, through the hook if there is one, leaves the boot services and     *)
(* moves the firmware to virtual addresses.                                *)
(*                                                                         *)
(* Memory is counted in pages from 1 on, and the firmware hands out any    *)
(* conventional ones; a hook takes one.  The ACPI tables that the firmware *)
(* keeps lie outside of the pages.                                         *)
(***************************************************************************)
EXTENDS RamAreas, AcpiTables, Aml, Integers

CONSTANTS PageCount,              \* bound: pages of memory
          LowPages,               \* the pages below 4 GB are those up to this one
          Machines,               \* [memory, config, tables, methods] each, see below
          Rm, Pm, Core,           \* [start, size] of the three parts of the core
          DsdtPages,              \* pages that a patched DSDT takes
          FirmwarePage,           \* the firmware's runtime code
          Orders                  \* bound: n -> orders in which n descriptors may be listed

VARIABLES
  machine,  \* the machine that boots: types of its pages, its ACPI tables and methods
  pc,       \* the step of efi_main, then of the kernel, that comes next
  err,      \* whether efi_main failed
  type,     \* page -> type of its memory
  tables,   \* address -> the ACPI table there
  g,        \* g_rsdp, g_fadt, g_facs and g_dsdt
  is_dsdt_patched,
  pts,      \* SSDT___PTS_FACS: the FACS it was relocated to, and whether it calls SPTS
  hook,     \* loaded_hook of each hook: its page, or 0 when not loaded
  service,  \* page of the entry of each hooked service
  events,   \* entries of the events registered for the virtual address change
  header,   \* g_core_header: rsdp, facs, ram_areas
  runtime,  \* pages the kernel was told to keep mapped for the firmware
  moved     \* pointers of the SetVariable hook that are virtual addresses

acpi == <<tables, g, is_dsdt_patched, pts>>
vars == <<machine, pc, err, type, acpi, hook, service, events, header, runtime, moved>>

Pages    == 1 .. PageCount
Types    == UsableTypes \cup {"reserved", "nvs"}
Services == {"SetVariable", "GetMemoryMap"}
HookOf   == [SetVariable |-> "set_variable", GetMemoryMap |-> "get_memory_map"]
Hooks    == {"set_variable", "get_memory_map", "virtual_address_map_event"}

(* The pages of the core's three parts. *)
PartPages == PagesOf(Rm) \cup PagesOf(Pm) \cup PagesOf(Core)

(* The names that the model tells apart. *)
Names == {"_PTS", "SPTS", "_WAK"}

(* The parts of the core fit, next to one another, where they are loaded.  *)
(* A machine has its FACS below 4 GB in memory that kernels leave alone,   *)
(* and a whole DSDT that a compiler wrote.                                 *)
ASSUME MachinesAreMachines ==
  /\ PageCount \in Nat /\ LowPages \in 0 .. PageCount /\ DsdtPages \in Nat \ {0}
  /\ \A part \in {Rm, Pm, Core} : part \in [start : Nat, size : Nat]
  /\ PartPages \cup {FirmwarePage} \subseteq Pages
  /\ AreDisjoint(<<Rm, Pm, Core>>)
  /\ FirmwarePage \notin PartPages
  /\ \A m \in Machines :
       /\ m.memory \in [Pages -> Types] /\ m.memory[FirmwarePage] = "runtime_services"
       /\ \A a \in DOMAIN m.tables :
            /\ a \in Nat /\ a > PageCount
            /\ IsTable(m.tables[a], Nat, Bytes(Names))
       /\ m.methods \in Seq(Methods(Names))
       /\ LET found == find_acpi_tables_in(m.config, m.tables)
          IN  found # NoTables =>
                /\ found.facs \in 1 .. LowPages /\ m.memory[found.facs] = "nvs"
                /\ {found.fadt, found.dsdt} \subseteq DOMAIN m.tables
                /\ m.tables[found.fadt] \in acpi_fadt(Nat)
                /\ m.tables[found.dsdt] \in acpi_dsdt(Bytes(Names))
                /\ m.tables[found.dsdt].aml = Encode(m.methods)
                /\ m.tables[found.dsdt].checksum = m.tables[found.dsdt].aml

(* An order lists each of the n descriptors once. *)
ASSUME OrdersAreOrders ==
  \A n \in 1 .. PageCount : \A o \in Orders[n] :
    /\ o \in [1 .. n -> 1 .. n]
    /\ \A j, k \in 1 .. n : o[j] = o[k] => j = k

FreePages == {p \in Pages : type[p] = "conventional"}

(* AllocatePages of `count` pages from p on. *)
Run(p, count) == p .. (p + count - 1)
Allocate(p, count, t) ==
  /\ Run(p, count) \subseteq FreePages
  /\ type' = [q \in Pages |-> IF q \in Run(p, count) THEN t ELSE type[q]]

(* The descriptors of memory m: its runs of pages of one type. *)
Starts(m) == {p \in Pages : p = 1 \/ m[p - 1] # m[p]}
Desc(m, p) ==
  LET beyond == {q \in p + 1 .. PageCount + 1 : q = PageCount + 1 \/ m[q] # m[p]}
      next   == CHOOSE q \in beyond : \A r \in beyond : q <= r
  IN  [start |-> p, size |-> next - p, type |-> m[p]]
Descs(m) == {Desc(m, p) : p \in Starts(m)}

(* The firmware may list its descriptors in any order. *)
MemoryMaps(m) ==
  LET n == Cardinality(Starts(m))
      nth == [k \in 1 .. n |->
                CHOOSE p \in Starts(m) : Cardinality({q \in Starts(m) : q <= p}) = k]
  IN  {[k \in 1 .. n |-> Desc(m, nth[o[k]])] : o \in Orders[n]}

Init ==
  /\ machine \in Machines
  /\ pc = "load_core"
  /\ err = FALSE
  /\ type = machine.memory
  /\ tables = machine.tables
  /\ g = NoTables
  /\ is_dsdt_patched = FALSE
  /\ pts = [facs |-> 0, calls_spts |-> TRUE]
  /\ hook = [h \in Hooks |-> 0]
  /\ service = [s \in Services |-> FirmwarePage]
  /\ events = {}
  /\ header = [rsdp |-> 0, facs |-> 0, ram_areas |-> <<>>]
  /\ runtime = {}
  /\ moved = {}

-------------------------------------------------------------------------------
(* efi_main *)

Fail == err' = TRUE /\ pc' = "unhook"
Goto(step) == pc' = step /\ UNCHANGED err

(* load_core, part by part: the memory is reserved where the part belongs. *)
LoadPart(step, part, next) ==
  /\ pc = step
  /\ \/ Allocate(part.start, part.size, "reserved") /\ Goto(next)
     \/ Fail /\ UNCHANGED type
  /\ UNCHANGED <<machine, acpi, hook, service, events, header, runtime, moved>>

load_core ==
  \/ LoadPart("load_core", Core, "load_rm")
  \/ LoadPart("load_rm", Rm, "load_pm")
  \/ LoadPart("load_pm", Pm, "find_acpi_tables")

(* What is found before an error is left in the globals, and never read.   *)
find_acpi_tables ==
  /\ pc = "find_acpi_tables"
  /\ g' = find_acpi_tables_in(machine.config, tables)
  /\ IF g' = NoTables THEN Fail ELSE Goto("set_variable")
  /\ UNCHANGED <<machine, type, tables, is_dsdt_patched, pts, hook, service, events, header,
                 runtime, moved>>

(* load_hook, and the service's entry replaced by the hook's. *)
hook_service(s, next) ==
  /\ pc = HookOf[s]
  /\ \/ \E p \in Pages :
          /\ Allocate(p, 1, "runtime_services")
          /\ hook' = [hook EXCEPT ![HookOf[s]] = p]
          /\ service' = [service EXCEPT ![s] = p]
          /\ Goto(next)
     \/ Fail /\ UNCHANGED <<type, hook, service>>
  /\ UNCHANGED <<machine, acpi, events, header, runtime, moved>>

hook_set_variable   == hook_service("SetVariable", "get_memory_map")
hook_get_memory_map == hook_service("GetMemoryMap", "virtual_address_map_event")

(* The event's hook is loaded before the event is created, which may fail. *)
create_virtual_address_map_event ==
  /\ pc = "virtual_address_map_event"
  /\ \/ \E p \in Pages :
          /\ Allocate(p, 1, "runtime_services")
          /\ hook' = [hook EXCEPT !["virtual_address_map_event"] = p]
          /\ \/ events' = events \cup {p} /\ Goto("find_pts")
             \/ UNCHANGED events /\ Fail
     \/ Fail /\ UNCHANGED <<type, hook, events>>
  /\ UNCHANGED <<machine, acpi, service, header, runtime, moved>>

-------------------------------------------------------------------------------
(* create_or_hook_pts *)

Block == tables[g.dsdt].aml     \* g_dsdt->definition_block

(* A table is changed, and its checksum computed over what it holds then.  *)
fix_table_checksum(dsdt) == [dsdt EXCEPT !.checksum = dsdt.aml]

(* The part with the FACS is relocated; a _PTS that is found is renamed in *)
(* place, and otherwise the call of SPTS is cut from the hook.             *)
create_or_hook_pts ==
  /\ pc = "find_pts"
  /\ IF ~find_method(Block, "_PTS")
     THEN /\ pts' = [facs |-> g.facs, calls_spts |-> FALSE]
          /\ Goto("append_head")
          /\ UNCHANGED tables
     ELSE /\ pts' = [facs |-> g.facs, calls_spts |-> TRUE]
          /\ IF CanRename(Block, "_PTS")
             THEN LET renamed == [tables[g.dsdt] EXCEPT !.aml = rename_method(Block, "_PTS", "SPTS")]
                  IN  /\ tables' = [tables EXCEPT ![g.dsdt] = fix_table_checksum(renamed)]
                      /\ Goto("append_head")
             ELSE Fail /\ UNCHANGED tables
  /\ UNCHANGED <<machine, type, g, is_dsdt_patched, hook, service, events, header, runtime, moved>>

(* The two parts of the hook: its declaration, which pts_hook.asl encodes  *)
(* with a PkgLength of two bytes, and its body, in which ZeroOps stand for *)
(* the call that was cut.                                                  *)
HookHead == <<"MethodOp", "lead1", "small", "_PTS">>
HookBody == <<"FACS", "FWAK">> \o IF pts.calls_spts THEN <<"SPTS", "Arg0">> ELSE <<"ZeroOp", "ZeroOp">>

(* What append_dsdt gives back: the DSDT that was patched before. *)
Outgrown_new(p) == Run(p, DsdtPages)            \* mutant: the new one
Outgrown(p)     == IF is_dsdt_patched THEN Run(g.dsdt, DsdtPages) ELSE {}

(* append_dsdt: a larger copy below 4 GB in reserved memory, to which both *)
(* fields of the FADT are redirected before the former copy is freed; when *)
(* that fails g_dsdt still is the former copy, and the boot ends.          *)
append_dsdt(step, part, next) ==
  /\ pc = step
  /\ \/ \E p \in 1 .. LowPages :
          LET longer == Block \o part
              copied == [signature |-> "DSDT", aml |-> longer, checksum |-> longer]
              redirected == [tables[g.fadt] EXCEPT !.dsdt = p, !.x_dsdt = p, !.checksum = <<p, p>>]
          IN  /\ \/ /\ Allocate(p, DsdtPages, "reserved")
                    /\ is_dsdt_patched
                    /\ Fail
                    /\ UNCHANGED <<g, is_dsdt_patched>>
                 \/ /\ Run(p, DsdtPages) \subseteq FreePages
                    /\ type' = [q \in Pages |-> IF q \in Outgrown(p) THEN "conventional"
                                                ELSE IF q \in Run(p, DsdtPages) THEN "reserved"
                                                ELSE type[q]]
                    /\ g' = [g EXCEPT !.dsdt = p]
                    /\ is_dsdt_patched' = TRUE
                    /\ Goto(next)
              /\ tables' = [a \in DOMAIN tables \cup {p} |->
                              CASE a = p -> copied [] a = g.fadt -> redirected [] OTHER -> tables[a]]
     \/ Fail /\ UNCHANGED <<type, tables, g, is_dsdt_patched>>
  /\ UNCHANGED <<machine, pts, hook, service, events, header, runtime, moved>>

append_method ==
  \/ append_dsdt("append_head", HookHead, "append_body")
  \/ append_dsdt("append_body", HookBody, "fill_disk_pci")

-------------------------------------------------------------------------------
(* fill_core_header: the addresses of the tables, the disk, the RAM.  The  *)
(* disk may not be found.                                                  *)
fill_disk_pci ==
  /\ pc = "fill_disk_pci"
  /\ header' = [header EXCEPT !.rsdp = g.rsdp, !.facs = g.facs]
  /\ Fail \/ Goto("fill_ram_areas")
  /\ UNCHANGED <<machine, type, acpi, hook, service, events, runtime, moved>>

(* The memory map is taken while the buffer it is written to is allocated. *)
fill_core_header ==
  /\ pc = "fill_ram_areas"
  /\ \/ \E p \in FreePages : \E map \in MemoryMaps([type EXCEPT ![p] = "loader"]) :
          LET filled == fill_ram_areas(map)
          IN  /\ header' = [header EXCEPT !.ram_areas = filled.areas]
              /\ IF filled.full THEN Fail ELSE Goto("boot")
     \/ Fail /\ UNCHANGED header
  /\ UNCHANGED <<machine, type, acpi, hook, service, events, runtime, moved>>

(* free_hook.  The page goes back to the firmware. *)
free_hook(h) ==
  /\ type' = [p \in Pages |-> IF p = hook[h] THEN "conventional" ELSE type[p]]
  /\ hook' = [hook EXCEPT ![h] = 0]

Unhook(step, h, next) ==
  /\ pc = step
  /\ free_hook(h)
  /\ Goto(next)
  /\ UNCHANGED <<machine, acpi, events, header, runtime, moved>>

(* Mutant: the entries are left to the hooks. *)
Restored_no(s) == service[s]

(* A service has the firmware's entry again, if it was hooked. *)
Restored(s) == IF hook[HookOf[s]] # 0 THEN FirmwarePage ELSE service[s]

(* CloseEvent is given the address of the event's handle for the handle    *)
(* and closes nothing.                                                     *)
remove_virtual_address_map_event ==
  /\ Unhook("unhook", "virtual_address_map_event", "unhook get_memory_map")
  /\ UNCHANGED service

unhook_get_memory_map ==
  /\ Unhook("unhook get_memory_map", "get_memory_map", "unhook set_variable")
  /\ service' = [service EXCEPT !["GetMemoryMap"] = Restored("GetMemoryMap")]

unhook_set_variable ==
  /\ Unhook("unhook set_variable", "set_variable", "boot")
  /\ service' = [service EXCEPT !["SetVariable"] = Restored("SetVariable")]

unhook_services ==
  remove_virtual_address_map_event \/ unhook_get_memory_map \/ unhook_set_variable

-------------------------------------------------------------------------------
(* The kernel that boots. *)

(* Mutant: only the FACS is a runtime area. *)
RuntimeAreas_facs == {g.facs}

(* runtime_areas of the GetMemoryMap hook. *)
RuntimeAreas == {g.facs, Core.start}

(* The hook marks every descriptor that contains a runtime area. *)
GetMemoryMap ==
  /\ pc = "boot"
  /\ LET firmwares == {d \in Descs(type) : d.type = "runtime_services"}
         marked == IF service["GetMemoryMap"] = FirmwarePage THEN {}
                   ELSE {d \in Descs(type) : RuntimeAreas \cap PagesOf(d) # {}}
     IN  runtime' = UNION {PagesOf(d) : d \in firmwares \cup marked}
  /\ pc' = "kernel"
  /\ UNCHANGED <<machine, err, type, acpi, hook, service, events, header, moved>>

(* ptrs_to_fix, and the page each points at. *)
Pointers == <<"original_set_variable", "waking_vector_addr",
              "original_waking_vector_addr", "core_header">>
Target   == <<FirmwarePage, g.facs, g.facs, Core.start>>

(* ConvertPointer fails for memory that is not mapped for the firmware. *)
Converts(k) == Target[k] \in runtime /\ hook["set_variable"] \in runtime

(* SetVirtualAddressMap fires the event: pointers are converted one after  *)
(* the other until one fails.                                              *)
virtual_address_map_event ==
  /\ pc = "kernel"
  /\ moved' = IF hook["virtual_address_map_event"] \in events
              THEN {Pointers[k] : k \in {n \in DOMAIN Pointers : \A j \in 1 .. n : Converts(j)}}
              ELSE {}
  /\ pc' = "virtual"
  /\ UNCHANGED <<machine, err, type, acpi, hook, service, events, header, runtime>>

EfiMain ==
  \/ load_core \/ find_acpi_tables \/ hook_set_variable \/ hook_get_memory_map
  \/ create_virtual_address_map_event \/ create_or_hook_pts \/ append_method
  \/ fill_disk_pci \/ fill_core_header \/ unhook_services

Next == EfiMain \/ GetMemoryMap \/ virtual_address_map_event

Spec == Init /\ [][Next]_vars

-------------------------------------------------------------------------------
(* Properties. *)

Booted == pc \in {"boot", "kernel", "virtual"}

(* A service never enters memory that is not a loaded hook of its own, at  *)
(* any step of hooking or unhooking, and a failed boot leaves none hooked. *)
(* A boot that succeeds leaves an event whose hook is loaded.              *)
ServicesAreLive ==
  /\ \A s \in Services : service[s] # FirmwarePage =>
       /\ hook[HookOf[s]] = service[s]
       /\ type[service[s]] = "runtime_services"
       /\ Booted => ~err
  /\ \A p \in events : ~err =>
       p = hook["virtual_address_map_event"] /\ type[p] = "runtime_services"

(* The RAM areas given to the core are disjoint, as Dump assumes, and hold *)
(* only memory a kernel may use: not the core itself, which would write    *)
(* over its own code in a switch, and not the DSDT or the FACS.            *)
AreasAreSound ==
  /\ AreDisjoint(header.ram_areas)
  /\ Booted /\ ~err =>
       /\ \A p \in PagesIn(header.ram_areas) : type[p] \in UsableTypes
       /\ PagesIn(header.ram_areas) \cap (PartPages \cup {g.facs} \cup Run(g.dsdt, DsdtPages)) = {}

(* The DSDT a kernel takes: the 64-bit field of the FADT, then the other.  *)
KernelDsdt == find_dsdt(tables[g.fadt])

(* The declarations with every _PTS renamed, as method.h promises. *)
Renamed(methods) ==
  Encode([k \in DOMAIN methods |->
            IF methods[k].name = "_PTS" THEN [methods[k] EXCEPT !.name = "SPTS"] ELSE methods[k]])

Calls(methods) == \E k \in DOMAIN methods : methods[k].name = "_PTS"

(* What the search can cope with: nothing that looks like a method runs    *)
(* over the end, one declaration of _PTS at most, no body that reads like  *)
(* one, and what looks like a method last has a PkgLength as long as that  *)
(* of _PTS.                                                                *)
Searchable(methods) ==
  LET aml == Encode(methods)
  IN  /\ ~Overruns(aml)
      /\ Cardinality(Named(aml, "_PTS")) <= 1
      /\ Named(aml, "_PTS") \subseteq {StartOf(methods, k) : k \in DOMAIN methods}
      /\ \A i \in Named(aml, "_PTS") : parse_pkg_length(aml, i + 1) = pkg_length_out(aml)

(* The tables a kernel follows are whole: both fields of the FADT name one *)
(* DSDT, in reserved memory when it was patched, and the checksums hold    *)
(* after every step.  After a boot that succeeds every other copy was      *)
(* given back, and the hook writes to the FACS that the kernel reads.      *)
TablesAreWhole ==
  g.dsdt # 0 =>
    LET fadt == tables[g.fadt] dsdt == tables[KernelDsdt]
    IN  /\ dsdt.checksum = dsdt.aml
        /\ is_dsdt_patched =>
             /\ fadt.checksum = <<fadt.dsdt, fadt.x_dsdt>>
             /\ fadt.dsdt = fadt.x_dsdt
             /\ \A p \in Run(KernelDsdt, DsdtPages) : type[p] = "reserved"
        /\ Booted /\ ~err =>
             /\ is_dsdt_patched
             /\ {p \in Pages : type[p] = "reserved" /\ machine.memory[p] # "reserved"} =
                  PartPages \cup Run(KernelDsdt, DsdtPages)
             /\ pts.facs = find_facs(machine.tables[g.fadt])

(* A boot that succeeds leaves the original methods with _PTS renamed, and *)
(* a whole hook behind them, which calls SPTS just when there is one.      *)
HookIsWhole ==
  Booted /\ ~err /\ Searchable(machine.methods) =>
    /\ tables[KernelDsdt].aml = Renamed(machine.methods) \o HookHead \o HookBody
    /\ pts.calls_spts <=> Calls(machine.methods)

DsdtIsWhole == TablesAreWhole /\ HookIsWhole

(* Once the firmware runs at virtual addresses, the SetVariable hook holds *)
(* no physical pointer: the GetMemoryMap hook made the kernel map all that *)
(* the pointers point at, and the event converted every one of them.       *)
HookFollowsMove ==
  pc = "virtual" /\ service["SetVariable"] # FirmwarePage => moved = ToSet(Pointers)

(* "All the memory areas listed as RAM which can be used by the OS": an    *)
(* area that grows at its start keeps its size and loses its end.          *)
RamIsCovered ==
  Booted /\ ~err => {p \in Pages : type[p] \in UsableTypes} \subseteq PagesIn(header.ram_areas)

(* "The hook is performed by renaming the AML method to `modified_name`":  *)
(* the name is written where the PkgLength of the last method-like bytes   *)
(* says, and goes into the wrong place when theirs is longer.              *)
PtsIsRenamed ==
  Booted /\ ~err /\ find_method(Encode(machine.methods), "_PTS") /\ Calls(machine.methods) =>
    tables[KernelDsdt].aml = Renamed(machine.methods) \o HookHead \o HookBody
===============================================================================
