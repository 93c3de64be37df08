---------------------------------- MODULE Pci ----------------------------------
(***************************************************************************)
(* How the disk is looked for on the PCI buses (shared/src/pci).           *)
(* functions maps the <<bus, device, function>> of every function that     *)
(* answers to what it is.                                                  *)
(***************************************************************************)
EXTENDS Naturals, FiniteSets

CONSTANTS PCI_MAX_BUS, PCI_MAX_DEVICE, PCI_MAX_FUNCTION   \* bounds: 256, 32, 8 in the code

Addresses == (0 .. PCI_MAX_BUS - 1) \X (0 .. PCI_MAX_DEVICE - 1) \X (0 .. PCI_MAX_FUNCTION - 1)

(* The order of the enumeration. *)
Before(a, b) ==
  \/ a[1] < b[1]
  \/ a[1] = b[1] /\ a[2] < b[2]
  \/ a[1] = b[1] /\ a[2] = b[2] /\ a[3] < b[3]

(* Mutant: what does not answer ends the whole bus. *)
Visited_bus(functions, a) ==
  \A b \in Addresses : (b = a \/ Before(b, a)) /\ b[1] = a[1] => b \in DOMAIN functions

(* A function that does not answer ends the enumeration of its device.     *)
Visited(functions, a) ==
  \A f \in 0 .. a[3] : <<a[1], a[2], f>> \in DOMAIN functions

NotFound == <<>>

(* lookup_pci_dev: the first function with the ids of the disk.            *)
lookup_pci_dev(functions) ==
  LET found == {a \in DOMAIN functions : Visited(functions, a) /\ functions[a] = "disk"}
  IN  IF found = {} THEN NotFound
      ELSE CHOOSE a \in found : \A b \in found \ {a} : Before(a, b)
===============================================================================
