------------------------------- MODULE Snapshot -------------------------------
(***************************************************************************)
(* What SwitchOS promises its user: "taking snapshots of the currently     *)
(* running OS, and then switch between these snapshots".                   *)
(*                                                                         *)
(* The machine runs one operating system image and the designated disk     *)
(* holds at most one dump.  An image is identified by the waking vector of *)
(* its kernel and by the moment it was last frozen, so two images are      *)
(* equal exactly when no byte of state was lost between them.              *)
(***************************************************************************)
EXTENDS Naturals

CONSTANTS Vectors,   \* waking vectors of the kernels that may be running
          NoImage    \* "the disk contains no dump"

VARIABLES running,   \* the image the machine executes
          dump,      \* the image the disk holds, or NoImage
          clock      \* moments handed out so far

svars == <<running, dump, clock>>

SInit == /\ running \in [vec : Vectors, at : {0}]
         /\ dump = NoImage
         /\ clock = 0

(* The running system does some work: same kernel, a state never seen before. *)
Work == /\ clock' = clock + 1
        /\ running' = [running EXCEPT !.at = clock + 1]
        /\ UNCHANGED dump

(* The machine is rebooted into any of the installed systems. *)
Boot == /\ clock' = clock + 1
        /\ running' \in [vec : Vectors, at : {clock + 1}]
        /\ UNCHANGED dump

(* A snapshot is taken: the dump becomes the running image, which goes on. *)
Store == /\ dump' = running
         /\ UNCHANGED <<running, clock>>

(* The running image and the dump trade places. *)
Switch == /\ dump # NoImage
          /\ running' = dump
          /\ dump' = running
          /\ UNCHANGED clock

SNext == Work \/ Boot \/ Store \/ Switch

SSpec == SInit /\ [][SNext]_svars
===============================================================================
