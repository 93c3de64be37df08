------------------------------- MODULE MCBootApp -------------------------------
(* Machines: one with room for everything, one whose memory is cut up by    *)
(* boot services, and a cramped one for every set of tables and methods.    *)
EXTENDS CoreEntry

MCRm   == [start |-> 1, size |-> 1]
MCPm   == [start |-> 7, size |-> 5]
MCCore == [start |-> 12, size |-> 2]

(* Upwards, upwards from somewhere in the middle, and downwards. *)
MCOrders ==
  [n \in 1 .. PageCount |->
     {[k \in 1 .. n |-> ((k + shift) % n) + 1] : shift \in 1 .. n} \cup {[k \in 1 .. n |-> n + 1 - k]}]

Roomy == [p \in Pages |-> CASE p = 6 -> "nvs" [] p = 4 -> "runtime_services"
                            [] OTHER -> "conventional"]
CutUp == [Roomy EXCEPT ![3] = "boot_services"]
Cramped == [p \in Pages |-> IF p \in PartPages \cup {2, 3, 5, 14, 15, 16, 17} THEN Roomy[p]
                            ELSE IF p \in {4, 6} THEN Roomy[p] ELSE "reserved"]

(* Addresses of the tables, outside of the pages. *)
Rsdp == 101   Rsdt == 102   Xsdt == 103   Fadt == 104   Fadt2 == 105
Madt == 106   Dsdt == 107   Facs == 6

(* The tables of a machine, with the parts that differ. *)
TablesOf(rsdp, rsdt, xsdt, fadt, methods) ==
  (Rsdp :> rsdp) @@ (Rsdt :> [signature |-> "RSDT", entries |-> rsdt]) @@
  (Xsdt :> [signature |-> "XSDT", entries |-> xsdt]) @@
  (Fadt :> fadt) @@ (Fadt2 :> fadt) @@ (Madt :> [signature |-> "APIC"]) @@
  (Dsdt :> [signature |-> "DSDT", aml |-> Encode(methods), checksum |-> Encode(methods)])

FadtWith(dsdt, x_dsdt, facs, x_facs) ==
  [signature |-> "FACP", dsdt |-> dsdt, x_dsdt |-> x_dsdt, firmware_ctrl |-> facs,
   x_firmware_ctrl |-> x_facs, checksum |-> <<dsdt, x_dsdt>>]

RsdpWith(revision, rsdt, xsdt) ==
  [signature |-> "RSD PTR", revision |-> revision, rsdt_addr |-> rsdt, xsdt_addr |-> xsdt]

PlainRsdp == RsdpWith(2, Rsdt, Xsdt)
PlainFadt == FadtWith(Dsdt, Dsdt, 0, Facs)
Entry(guid, table) == [guid |-> guid, table |-> table]
PlainConfig == <<Entry("SMBIOS", 200), Entry("ACPI 2.0", Rsdp)>>

Plain(methods) == TablesOf(PlainRsdp, <<Madt, Fadt>>, <<Madt, Fadt>>, PlainFadt, methods)

Method(lead, name, body) == [lead |-> lead, name |-> name, body |-> body]
Long  == <<"lead1", "small">>
Short == <<"small">>

Pts      == <<Method(Short, "_WAK", <<"code">>), Method(Short, "_PTS", <<"code">>)>>
NoPts    == <<Method(Long, "_WAK", <<"code">>)>>
(* The data of a method, read as a declaration of _PTS. *)
Decoy    == <<Method(Long, "_WAK", <<"code", "MethodOp", "small", "_PTS", "code">>)>>
PtsFirst == <<Method(Short, "_PTS", <<"code">>), Method(Long, "_WAK", <<"code", "code">>)>>
(* 0x14 in the data of a method, read as a declaration with another name. *)
Lookalike == <<Method(Long, "_PTS", <<"MethodOp", "code">>),
               Method(Short, "_WAK", <<"MethodOp", "lead1", "small", "code">>)>>
AtTheEnd == <<Method(Short, "_PTS", <<"code", "MethodOp", "ZeroOp">>)>>
Twice    == <<Method(Short, "_PTS", <<"code">>), Method(Short, "_PTS", <<"code">>)>>
OverTheEnd == <<Method(Short, "_WAK", <<"MethodOp", "lead3", "small", "code">>),
                Method(Short, "_PTS", <<"MethodOp", "lead1", "small">>)>>

Machine(memory, config, ts, methods) ==
  [memory |-> memory, config |-> config, tables |-> ts, methods |-> methods]

MCMachines ==
  {Machine(Roomy, PlainConfig, Plain(NoPts), NoPts), Machine(CutUp, PlainConfig, Plain(Pts), Pts)} \cup
  {Machine(Cramped, PlainConfig, Plain(m), m) :
     m \in {PtsFirst, Decoy, Lookalike, AtTheEnd, Twice, OverTheEnd}} \cup
  {Machine(Cramped, PlainConfig, ts, Pts) : ts \in
     {TablesOf(RsdpWith(1, Rsdt, Xsdt), <<Fadt>>, <<Madt>>, FadtWith(Dsdt, 0, Facs, 0), Pts),
      TablesOf(RsdpWith(2, Rsdt, 0), <<Madt>>, <<Fadt>>, PlainFadt, Pts),
      TablesOf(RsdpWith(2, 0, Xsdt), <<>>, <<Fadt, Madt>>, FadtWith(0, Dsdt, 0, Facs), Pts),
      TablesOf(PlainRsdp, <<>>, <<Fadt, Fadt2>>, PlainFadt, Pts),
      TablesOf(PlainRsdp, <<>>, <<Fadt, 0>>, PlainFadt, Pts)}} \cup
  {Machine(Cramped, config, Plain(Pts), Pts) : config \in
     {<<>>, <<Entry("ACPI 2.0", Rsdp), Entry("ACPI 2.0", Rsdp)>>,
      <<Entry("ACPI 2.0", 0), Entry("ACPI 2.0", Rsdp)>>}}
===============================================================================
