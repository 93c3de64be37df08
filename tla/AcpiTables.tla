------------------------------- MODULE AcpiTables -------------------------------
(***************************************************************************)
(* How the EFI application finds the ACPI tables (uefi/acpi/tables.c):     *)
(* from the RSDP in the system table over the RSDT or XSDT to the FADT,    *)
(* which names the FACS and the DSDT.                                      *)
(*                                                                         *)
(* memory maps an address to the table there; 0 is NULL.                   *)
(***************************************************************************)
EXTENDS Naturals, Sequences, FiniteSets

(* What the application reads of the tables, A being the addresses.  A     *)
(* checksum is what the table held when it was computed.                   *)
acpi_table_header == {"RSDT", "XSDT", "FACP", "APIC", "DSDT"}
acpi_rsdp(A)  == [signature : {"RSD PTR"}, revision : Nat, rsdt_addr : A, xsdt_addr : A]
acpi_rxsdt(A) == [signature : {"RSDT", "XSDT"}, entries : Seq(A)]
acpi_fadt(A)  == [signature : {"FACP"}, firmware_ctrl : A, x_firmware_ctrl : A,
                  dsdt : A, x_dsdt : A, checksum : A \X A]
acpi_dsdt(Byte) == [signature : {"DSDT"}, aml : Seq(Byte), checksum : Seq(Byte)]

(* What lies at an address: a table that the application follows, or not.  *)
IsTable(t, A, Byte) ==
  \/ t \in acpi_rsdp(A) \cup acpi_rxsdt(A) \cup acpi_fadt(A) \cup acpi_dsdt(Byte)
  \/ DOMAIN t = {"signature"} /\ t.signature \in acpi_table_header \ {"FACP"}

(* find_rsdp: the last entry with the GUID of ACPI 2.0, or 0.  A second    *)
(* one is an error, unless those before it were NULL.                      *)
find_rsdp(config) ==
  LET found == {k \in DOMAIN config : config[k].guid = "ACPI 2.0"}
  IN  IF Cardinality({k \in found : config[k].table # 0}) # 1 THEN 0
      ELSE LET last == CHOOSE k \in found : \A j \in found : j <= k
           IN  config[last].table

find_rxsdt(rsdp) ==
  IF rsdp.revision > 1 /\ rsdp.xsdt_addr # 0 THEN rsdp.xsdt_addr ELSE rsdp.rsdt_addr

(* scan_rxsdt: the FADT among the entries, or 0; a NULL entry and a second *)
(* FADT are errors.                                                        *)
scan_rxsdt(rxsdt, memory) ==
  LET fadts == {k \in DOMAIN rxsdt.entries :
                  rxsdt.entries[k] # 0 /\ memory[rxsdt.entries[k]].signature = "FACP"}
  IN  IF (\E k \in DOMAIN rxsdt.entries : rxsdt.entries[k] = 0) \/ Cardinality(fadts) # 1
      THEN 0 ELSE rxsdt.entries[CHOOSE k \in fadts : TRUE]

(* The 64-bit field of the FADT is preferred to the 32-bit one. *)
find_facs(fadt) == IF fadt.x_firmware_ctrl # 0 THEN fadt.x_firmware_ctrl ELSE fadt.firmware_ctrl
find_dsdt(fadt) == IF fadt.x_dsdt # 0 THEN fadt.x_dsdt ELSE fadt.dsdt

NoTables == [rsdp |-> 0, fadt |-> 0, facs |-> 0, dsdt |-> 0]

(* find_acpi_tables: the tables found, or NoTables after an error.         *)
find_acpi_tables_in(config, memory) ==
  LET rsdp  == find_rsdp(config)
      rxsdt == IF rsdp = 0 THEN 0 ELSE find_rxsdt(memory[rsdp])
      fadt  == IF rxsdt = 0 THEN 0 ELSE scan_rxsdt(memory[rxsdt], memory)
  IN  IF fadt = 0 THEN NoTables
      ELSE [rsdp |-> rsdp, fadt |-> fadt,
            facs |-> find_facs(memory[fadt]), dsdt |-> find_dsdt(memory[fadt])]
===============================================================================
