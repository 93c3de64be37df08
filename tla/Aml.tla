---------------------------------- MODULE Aml ----------------------------------
(***************************************************************************)
(* How the EFI application finds a method in the DSDT and renames it       *)
(* (uefi/acpi/patch/method.c, pkg_length.c): it does not parse the AML but *)
(* takes every byte 0x14 that a PkgLength follows for the start of a       *)
(* method.                                                                 *)
(*                                                                         *)
(* A definition block is a sequence of bytes, of which the model tells     *)
(* apart those that can start a method or a PkgLength.  The four           *)
(* characters of a name are one byte here, and start neither.              *)
(***************************************************************************)
EXTENDS Naturals, Sequences, SequencesExt, FiniteSets, FiniteSetsExt

(* Bytes in a PkgLength by its lead byte; no other byte leads one.  Every  *)
(* byte up to 63 is a lead byte, 0x14 and ZeroOp among them.               *)
LeadSize == [MethodOp |-> 1, ZeroOp |-> 1, small |-> 1, lead1 |-> 2, lead2 |-> 3, lead3 |-> 4]

Bytes(names) == DOMAIN LeadSize \cup {"code", "FACS", "FWAK", "Arg0"} \cup names

(* encoded_size of the PkgLength at `at`, or 0 when there is none.  The    *)
(* bytes that follow the lead byte are held against what is left with the  *)
(* lead byte, which is one too many.                                       *)
parse_pkg_length(aml, at) ==
  IF /\ at <= Len(aml)
     /\ aml[at] \in DOMAIN LeadSize
     /\ LeadSize[aml[at]] - 1 <= Len(aml) - at + 1
  THEN LeadSize[aml[at]] ELSE 0

(* What looks like a method declaration, and where its name would be.      *)
Declarations(aml) == {i \in DOMAIN aml : aml[i] = "MethodOp" /\ parse_pkg_length(aml, i + 1) > 0}
NameOf(aml, i)    == i + 1 + parse_pkg_length(aml, i + 1)
Overruns(aml)     == \E i \in Declarations(aml) : NameOf(aml, i) > Len(aml)
Named(aml, name)  == {i \in Declarations(aml) : aml[NameOf(aml, i)] = name}

(* find_method: the search fails when anything that looks like a method    *)
(* runs over the end, or when not exactly one has the name.                *)
find_method(aml, name) == ~Overruns(aml) /\ Cardinality(Named(aml, name)) = 1

(* pkg_length_out is overwritten by every declaration after the one found. *)
pkg_length_out(aml) == parse_pkg_length(aml, Max(Declarations(aml)) + 1)

(* Where rename_method writes the new name of a method it found.           *)
method_name_offset(aml, name) ==
  (CHOOSE i \in Named(aml, name) : TRUE) + 1 + pkg_length_out(aml)

CanRename(aml, name) == method_name_offset(aml, name) <= Len(aml)

rename_method(aml, name, modified_name) ==
  [aml EXCEPT ![method_name_offset(aml, name)] = modified_name]

-------------------------------------------------------------------------------
(* The declarations a compiler wrote: each is a PkgLength of as many bytes *)
(* as its lead byte says, a name, and a body that may hold anything.       *)
Methods(names) ==
  {method \in [lead : Seq(Bytes(names)), name : names, body : Seq(Bytes(names))] :
     /\ Len(method.lead) > 0 /\ method.lead[1] \in DOMAIN LeadSize
     /\ Len(method.lead) = LeadSize[method.lead[1]]}

BytesOf(method) == <<"MethodOp">> \o method.lead \o <<method.name>> \o method.body
Encode(methods) == FlattenSeq([k \in DOMAIN methods |-> BytesOf(methods[k])])

(* Where the k-th of them begins. *)
StartOf(methods, k) == Len(Encode(SubSeq(methods, 1, k - 1))) + 1
===============================================================================
