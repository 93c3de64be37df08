----------------------------- MODULE SuspendProofs -----------------------------
(* Proofs about module Suspend, for any set of kernels of the three kinds.   *)
EXTENDS Suspend, TLAPS

(* The order of the kernel's steps, by kind: what is done tells what the two *)
(* FACS fields hold while a kernel is going to sleep and while it sleeps.    *)
FieldsOf(k) ==
  /\ k \notin PtsFirst =>
       /\ done \in {{}, {"vec"}, {"vec", "pts"}}
       /\ done = {"vec"} => fwak = k
       /\ done = {"vec", "pts"} => fwak = Core /\ rsvd1 = k
  /\ k \in PtsFirst =>
       /\ done \in {{}, {"pts"}, {"vec", "pts"}}
       /\ done = {"vec", "pts"} /\ caught => fwak = Core /\ rsvd1 = k
       /\ done = {"vec", "pts"} /\ ~caught => fwak = k

Going    == pc = "suspend" => FieldsOf(ram)
Sleeping == pc = "s3" /\ sleeper = "kernel" => FieldsOf(ram) /\ done = {"vec", "pts"}
AwakeAtOwn == pc = "suspend" => at = ram
Leaving  == pc = "return" => kernel_waking_vector = ram

(* The strengthening: the four properties and what is known on the way.      *)
IInv ==
  /\ TypeOK
  /\ Going
  /\ Sleeping
  /\ Leaving
  /\ CoreKnowsSleeper
  /\ ResumedAtOwnVector
  /\ AwakeAtOwn
  /\ CoreLetsGo

-------------------------------------------------------------------------------
(* A boot leads to a state of the invariant, whatever came before it.        *)
LEMMA InitInv == Init => IInv
  BY KernelKinds, VectorsDiffer, NoneIsNoKernel
  DEF Init, IInv, TypeOK, Going, Sleeping, Leaving, AwakeAtOwn, CoreKnowsSleeper,
      ResumedAtOwnVector, CoreLetsGo, Vector, Action

(* Every step of the kernels, the hooks, the firmware and the core keeps the *)
(* strengthened invariant.                                                   *)
LEMMA StepInv == IInv /\ [Next]_vars => IInv'
<1> SUFFICES ASSUME IInv, [Next]_vars PROVE IInv'
  OBVIOUS
<1> USE KernelKinds, VectorsDiffer, NoneIsNoKernel, CheckpointsFollowPts
    DEF IInv, TypeOK, Going, Sleeping, Leaving, AwakeAtOwn, CoreKnowsSleeper,
        ResumedAtOwnVector, CoreLetsGo, FieldsOf, Vector, Action
<1>1. CASE Command
  BY <1>1 DEF Command, SetVariable, set_core_action, IsCommand
<1>2. CASE Checkpoint
  BY <1>2 DEF Checkpoint, SetVariable, set_core_action, IsCommand, Redirect
<1>3. CASE StartSuspend
  BY <1>3 DEF StartSuspend, KernelUnchanged
<1>4. CASE SetVector
  BY <1>4 DEF SetVector, KernelUnchanged
<1>5. CASE RunPts
  BY <1>5 DEF RunPts, _PTS, KernelUnchanged
<1>6. CASE AbortSuspend
  BY <1>6 DEF AbortSuspend, KernelUnchanged
<1>7. CASE EnterS3
  BY <1>7 DEF EnterS3, KernelUnchanged
<1>8. CASE Wake
  BY <1>8 DEF Wake
<1>9. CASE ClearVector
  BY <1>9 DEF ClearVector, KernelUnchanged
<1>10. CASE Reboot
  BY <1>10 DEF Reboot, Boot
<1>11. CASE core_main
  <2>1. rsvd1 = ram /\ rsvd1 # Zero
    BY <1>11 DEF core_main
  <2>2. CASE action = "STORE" /\ disk' = Dumped /\ kernel_waking_vector' = rsvd1
             /\ UNCHANGED ram
    <3>1. disk' \in [image : Kernels, vec : Kernels] /\ disk'.vec = disk'.image
      BY <2>1, <2>2 DEF Dumped
    <3> QED
      BY <1>11, <2>1, <2>2, <3>1 DEF core_main
  <2>3. CASE action = "SWITCH" /\ disk # None /\ disk' = Dumped
             /\ ram' = disk.image /\ kernel_waking_vector' = disk.vec
    <3>1. disk' \in [image : Kernels, vec : Kernels] /\ disk'.vec = disk'.image
      BY <2>1, <2>3 DEF Dumped
    <3>2. ram' \in Kernels /\ kernel_waking_vector' = ram'
      BY <2>3
    <3> QED
      BY <1>11, <2>1, <2>3, <3>1, <3>2 DEF core_main
  <2>4. CASE kernel_waking_vector' = rsvd1 /\ UNCHANGED <<ram, disk>>
    BY <1>11, <2>1, <2>4 DEF core_main
  <2> QED
    BY <1>11, <2>2, <2>3, <2>4 DEF core_main
<1>12. CASE acpi_return_kernel
  BY <1>12 DEF acpi_return_kernel, ReturnVector
<1>13. CASE AcpiFails
  BY <1>13 DEF AcpiFails
<1>14. CASE UNCHANGED vars
  BY <1>14 DEF vars
<1> QED
  BY <1>1, <1>2, <1>3, <1>4, <1>5, <1>6, <1>7, <1>8, <1>9, <1>10, <1>11, <1>12,
     <1>13, <1>14 DEF Next

(* The strengthened invariant holds of every behaviour.                      *)
LEMMA Invariant == Spec => []IInv
  BY InitInv, StepInv, PTL DEF Spec

(* The variables keep their types.                                           *)
THEOREM TypeCorrect == Spec => []TypeOK
<1>1. IInv => TypeOK
  BY DEF IInv
<1> QED
  BY <1>1, Invariant, PTL

(* core_main finds in the FACS the vector of the kernel whose memory it      *)
(* stores, for any kernels and any order of their suspend steps allowed.     *)
THEOREM SleeperIsKnown == Spec => []CoreKnowsSleeper
<1>1. IInv => CoreKnowsSleeper
  BY DEF IInv
<1> QED
  BY <1>1, Invariant, PTL

(* Every kernel that runs was resumed at its own vector, on its own memory,  *)
(* and the dump pairs memory and vector of one kernel.                       *)
THEOREM ResumedRight == Spec => []ResumedAtOwnVector
<1>1. IInv => ResumedAtOwnVector
  BY DEF IInv
<1> QED
  BY <1>1, Invariant, PTL

(* A sleeping kernel wakes in the core unless its late vector was never      *)
(* caught by a checkpoint.                                                   *)
THEOREM SleepersAreCaught == Spec => []SleeperIsCaught
<1>1. IInv => SleeperIsCaught
  BY DEF IInv, Sleeping, FieldsOf, SleeperIsCaught
<1> QED
  BY <1>1, Invariant, PTL

(* acpi_return_kernel always leaves a kernel's vector in the FACS, that of   *)
(* the kernel in memory.                                                     *)
THEOREM CoreHandsOver == Spec => []CoreLetsGo
<1>1. IInv => CoreLetsGo
  BY DEF IInv
<1> QED
  BY <1>1, Invariant, PTL
===============================================================================
