------------------------------ MODULE MCBlockAlloc ------------------------------
(* Three allocators.  The linker places their buffers one behind the other, *)
(* in the order of their definitions.  One disk asks for a queue that fits, *)
(* one for a descriptor table that does not.                                *)
EXTENDS CoreHeap

MCBuffers == << [buf |-> 1, block_size |-> 1, blocks |-> 2],
                [buf |-> 3, block_size |-> 2, blocks |-> 2],
                [buf |-> 7, block_size |-> 3, blocks |-> 1] >>

MCQueueParts == {[desc |-> 3, avail |-> 1, used |-> 2], [desc |-> 4, avail |-> 2, used |-> 3]}
===============================================================================
