-------------------------------- MODULE Suspend --------------------------------
(***************************************************************************)
(* How the core gets hold of a suspended machine and gives it back: the    *)
(* firmware waking vector in the FACS, the _PTS hook                       *)
(* (uefi/acpi/asl/pts_hook.asl), the SetVariable hook                      *)
(* (uefi/services/hooks/set_variable), core_main and acpi_return_kernel    *)
(* (core/core.c, core/acpi.c), and the commands of the CLI.                *)
(*                                                                         *)
(* Kernels are external.  Those in PtsFirst (Windows) run _PTS before they *)
(* write their vector in the FACS, the others after; those in Checkpoints  *)
(* write the variable SystemSleepCheckpoint at moments of their choosing.  *)
(* A kernel stands for its waking vector, and an image for its kernel:     *)
(* what happens to the memory itself is the subject of module Dump.        *)
(***************************************************************************)
EXTENDS Naturals

CONSTANTS Kernels,      \* kernels, and their waking vectors
          PtsFirst,     \* those that set their vector after _PTS
          Checkpoints,  \* those that write SystemSleepCheckpoint
          Core,         \* CORE_WAKEUP_PHYS_ADDR
          Zero,         \* the null vector
          None          \* nothing on the disk

ASSUME KernelKinds == PtsFirst \subseteq Kernels /\ Checkpoints \subseteq Kernels
(* Between the vector of a kernel and a later _PTS no checkpoint may fall:  *)
(* both hooks would save the vector, the second one core's own.            *)
ASSUME CheckpointsFollowPts == Checkpoints \subseteq PtsFirst
ASSUME VectorsDiffer == Core \notin Kernels /\ Zero \notin Kernels /\ Core # Zero
ASSUME NoneIsNoKernel == None \notin Kernels

VARIABLES
  pc,         \* "run", "suspend" (a kernel is going to sleep), "s3", "core",
              \* "return" or "dead"
  done,       \* what a suspending kernel has done: subset of {"vec", "pts"}
  ram,        \* the kernel whose image is in memory
  at,         \* the vector the running kernel was resumed at
  disk,       \* the dump: [image, vec], or None
  fwak,       \* FACS firmware_waking_vector
  rsvd1,      \* FACS rsvd1
  action,     \* g_core_header.action
  kernel_waking_vector,
  sleeper,    \* history: who entered S3 last, "kernel" or "core"
  caught,     \* history: a checkpoint was written since the vector was
  commanded   \* history: a command was given since the core last acted

vars == <<pc, done, ram, at, disk, fwak, rsvd1, action, kernel_waking_vector,
          sleeper, caught, commanded>>

Vector == Kernels \cup {Core, Zero}
Action == {"NOOP", "STORE", "SWITCH"}

-------------------------------------------------------------------------------
(* A boot: the firmware clears the FACS, the core is loaded with no action. *)
Boot(k) ==
  /\ pc' = "run" /\ done' = {}
  /\ ram' = k /\ at' = k
  /\ fwak' = Zero /\ rsvd1' = Zero
  /\ action' = "NOOP"
  /\ kernel_waking_vector' = Zero
  /\ sleeper' = "kernel" /\ caught' = FALSE /\ commanded' = FALSE
  /\ UNCHANGED disk

Init ==
  /\ pc = "run" /\ done = {}
  /\ ram \in Kernels /\ at = ram
  /\ disk = None
  /\ fwak = Zero /\ rsvd1 = Zero
  /\ action = "NOOP"
  /\ kernel_waking_vector = Zero
  /\ sleeper = "kernel" /\ caught = FALSE /\ commanded = FALSE

Reboot == pc \in {"run", "dead"} /\ \E k \in Kernels : Boot(k)

-------------------------------------------------------------------------------
(* The hooks. *)

(* Mutant: the vector is saved but not replaced. *)
_PTS_saves == rsvd1' = fwak /\ UNCHANGED fwak

(* Mutant: the vector is cleared instead of replaced. *)
_PTS_clears == rsvd1' = fwak /\ fwak' = Zero

(* The hooked _PTS: RSV1 = FWAK, then FWAK = core's entry. *)
_PTS == rsvd1' = fwak /\ fwak' = Core

(* Mutant: a checkpoint written after the redirection redirects again. *)
Redirect_twice == rsvd1' = fwak /\ fwak' = Core

(* What the SetVariable hook does on a SystemSleepCheckpoint.  Before a    *)
(* kernel sets its vector the field still holds core's entry.              *)
Redirect ==
  IF fwak # Core THEN rsvd1' = fwak /\ fwak' = Core
  ELSE UNCHANGED <<fwak, rsvd1>>

(* A write of a variable by the kernel reaches the hook's _start.          *)
(* A commands GUID with data: SET_CORE_ACTION stores a valid action.       *)
IsCommand(v) == v.guid = "commands" /\ v.data # "empty"

set_core_action(v) ==
  IF IsCommand(v) /\ v.name = "SET_CORE_ACTION" /\ v.data \in Action
  THEN action' = v.data /\ commanded' = TRUE
  ELSE UNCHANGED <<action, commanded>>

SetVariable(v) ==
  /\ set_core_action(v)
  /\ IF v.guid # "commands" /\ v.name = "SystemSleepCheckpoint"
     THEN Redirect /\ caught' = TRUE
     ELSE UNCHANGED <<fwak, rsvd1, caught>>
  /\ UNCHANGED <<pc, done, ram, at, disk, kernel_waking_vector, sleeper>>

(* store and switch of the CLI; Linux deletes the variable first, with an  *)
(* empty write.  The CLI then suspends the machine, or leaves it (--lazy). *)
Command ==
  /\ pc = "run"
  /\ \E d \in {"STORE", "SWITCH", "empty"} :
       SetVariable([guid |-> "commands", name |-> "SET_CORE_ACTION", data |-> d])

(* Writes that are no command, whatever their kernel is doing.             *)
Checkpoint ==
  /\ pc \in {"run", "suspend"}
  /\ ram \in Checkpoints
  /\ SetVariable([guid |-> "vendor", name |-> "SystemSleepCheckpoint", data |-> "some"])

-------------------------------------------------------------------------------
(* A kernel going to S3, and coming back. *)

KernelUnchanged == UNCHANGED <<ram, at, disk, action, kernel_waking_vector, commanded>>

StartSuspend ==
  /\ pc = "run"
  /\ pc' = "suspend"
  /\ done' = {}
  /\ UNCHANGED <<fwak, rsvd1, sleeper, caught>>
  /\ KernelUnchanged

SetVector ==
  /\ pc = "suspend"
  /\ done = IF ram \in PtsFirst THEN {"pts"} ELSE {}
  /\ fwak' = ram
  /\ done' = done \cup {"vec"}
  /\ caught' = FALSE
  /\ UNCHANGED <<pc, rsvd1, sleeper>>
  /\ KernelUnchanged

RunPts ==
  /\ pc = "suspend"
  /\ done = IF ram \in PtsFirst THEN {} ELSE {"vec"}
  /\ _PTS
  /\ done' = done \cup {"pts"}
  /\ UNCHANGED <<pc, sleeper, caught>>
  /\ KernelUnchanged

(* A driver refuses to suspend, or a wakeup is pending: the kernel runs on *)
(* with the FACS as it is.                                                 *)
AbortSuspend ==
  /\ pc = "suspend"
  /\ pc' = "run"
  /\ UNCHANGED <<done, fwak, rsvd1, sleeper, caught>>
  /\ KernelUnchanged

EnterS3 ==
  /\ pc = "suspend"
  /\ done = {"vec", "pts"}
  /\ pc' = "s3"
  /\ sleeper' = "kernel"
  /\ UNCHANGED <<done, fwak, rsvd1, caught>>
  /\ KernelUnchanged

(* The firmware jumps to the vector in the FACS.                           *)
Wake ==
  /\ pc = "s3"
  /\ IF fwak = Core
     THEN pc' = "core" /\ UNCHANGED at
     ELSE pc' = "run" /\ at' = fwak
  /\ UNCHANGED <<done, ram, disk, fwak, rsvd1, action, kernel_waking_vector,
                 sleeper, caught, commanded>>

(* A resumed kernel may clear its vector.                                  *)
ClearVector ==
  /\ pc = "run"
  /\ fwak # Zero
  /\ fwak' = Zero
  /\ UNCHANGED <<pc, done, rsvd1, sleeper, caught>>
  /\ KernelUnchanged

-------------------------------------------------------------------------------
(* The core. *)

(* Mutant: the vector of the dump is kept when its memory is switched. *)
Dumped_kept == [image |-> ram, vec |-> IF disk = None THEN rsvd1 ELSE disk.vec]

(* The dump the core leaves: the memory, and the vector found in the FACS. *)
Dumped == [image |-> ram, vec |-> rsvd1]

(* The FACS field the _PTS hook saves the vector in must not be empty.      *)
find_original_waking_vector == rsvd1 # Zero

(* core_main and the action it dispatches.  The disk may fail, and then    *)
(* neither memory nor disk is replaced (module Dump has the other cases).  *)
core_main ==
  /\ pc = "core"
  /\ pc' = "return"
  /\ \/ /\ action = "STORE" /\ find_original_waking_vector
        /\ disk' = Dumped
        /\ kernel_waking_vector' = rsvd1
        /\ UNCHANGED ram
     \/ /\ action = "SWITCH" /\ find_original_waking_vector /\ disk # None
        /\ disk' = Dumped
        /\ ram' = disk.image
        /\ kernel_waking_vector' = disk.vec
     \/ /\ kernel_waking_vector' = rsvd1
        /\ UNCHANGED <<ram, disk>>
  /\ commanded' = FALSE
  /\ UNCHANGED <<done, at, fwak, rsvd1, action, sleeper, caught>>

(* Mutant: the vector is set first, and _PTS overwrites it. *)
ReturnVector_first == Core

(* uacpi_prepare_for_sleep_state runs _PTS, which is still hooked, and the *)
(* vector is set after it: unless there is none, and core's entry stays.   *)
ReturnVector == IF kernel_waking_vector # Zero THEN kernel_waking_vector ELSE Core

acpi_return_kernel ==
  /\ pc = "return"
  /\ rsvd1' = fwak
  /\ fwak' = ReturnVector
  /\ pc' = "s3"
  /\ sleeper' = "core"
  /\ UNCHANGED <<done, ram, at, disk, action, kernel_waking_vector, caught, commanded>>

(* acpi_setup fails, its error is not looked at, and S3 is not entered: the *)
(* end of core_main is reached, which the compiler was told is unreachable. *)
AcpiFails ==
  /\ pc = "return"
  /\ pc' = "dead"
  /\ UNCHANGED <<done, ram, at, disk, fwak, rsvd1, action, kernel_waking_vector,
                 sleeper, caught, commanded>>

Next ==
  \/ Command \/ Checkpoint
  \/ StartSuspend \/ SetVector \/ RunPts \/ AbortSuspend \/ EnterS3
  \/ Wake \/ ClearVector \/ Reboot
  \/ core_main \/ acpi_return_kernel \/ AcpiFails

Spec == Init /\ [][Next]_vars

(* The firmware wakes the machine, the core runs alone on it. *)
FairSpec == Spec /\ WF_vars(Wake \/ core_main \/ acpi_return_kernel)

-------------------------------------------------------------------------------
(* Properties. *)

(* Every variable holds a value of its type. *)
TypeOK ==
  /\ pc \in {"run", "suspend", "s3", "core", "return", "dead"}
  /\ done \subseteq {"vec", "pts"}
  /\ ram \in Kernels
  /\ at \in Kernels
  /\ disk \in [image : Kernels, vec : Kernels] \cup {None}
  /\ {fwak, rsvd1, kernel_waking_vector} \subseteq Vector
  /\ action \in Action
  /\ sleeper \in {"kernel", "core"}
  /\ caught \in BOOLEAN /\ commanded \in BOOLEAN

(* When the core runs, the vector it finds in the FACS is that of the      *)
(* kernel whose memory it is about to store, in whatever order the kernel, *)
(* the _PTS hook and the checkpoint hook wrote the two fields.             *)
CoreKnowsSleeper == pc = "core" => rsvd1 = ram

(* A kernel is only ever resumed on its own memory, and the dump pairs the *)
(* memory of a kernel with the vector of the same kernel.                  *)
ResumedAtOwnVector ==
  /\ pc = "run" => at = ram
  /\ disk # None => disk.vec = disk.image

(* A kernel that goes to S3 wakes in the core; only one that sets its      *)
(* vector after _PTS and writes no checkpoint since escapes.               *)
SleeperIsCaught ==
  pc = "s3" /\ sleeper = "kernel" => fwak = IF ram \in PtsFirst /\ ~caught THEN ram ELSE Core

(* The core gives the machine to a kernel, never to itself again.          *)
CoreLetsGo == pc = "s3" /\ sleeper = "core" => fwak = ram

(* A machine that slept runs a kernel again, or died in AcpiFails.         *)
WakesUp == pc = "s3" ~> pc \in {"run", "dead"}
===============================================================================
