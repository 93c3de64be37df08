-------------------------------- MODULE CoreHeap --------------------------------
(***************************************************************************)
(* The clients of the core's allocators, run after run (core/core.c):      *)
(* after every wake up acpi_destroy makes uACPI free what it still holds   *)
(* of the run before, the free lists are built anew, the virtqueue and the *)
(* requests of the dump are allocated, and uACPI allocates what it likes   *)
(* through uacpi_glue.c until the kernel is woken.  The memory of the core *)
(* keeps everything in between, and so does its stack.                     *)
(***************************************************************************)
EXTENDS BlockAlloc

CONSTANTS QueueParts,   \* sizes of desc, avail and used that the disks ask for
          HeaderSize,   \* of a request
          UacpiSizes    \* sizes that uACPI asks for

ASSUME SizesAreSizes ==
  /\ QueueParts \subseteq [{"desc", "avail", "used"} -> Nat \ {0}]
  /\ HeaderSize \in Nat \ {0} /\ UacpiSizes \subseteq Nat \ {0}

VARIABLES
  step,    \* where core_main is
  part,    \* the sizes this disk asks for, the same in every run
  queue,   \* virtio_blk_dev.queue on the stack: desc, avail, used
  request, \* the header of the request, or NULL
  uacpi    \* what uACPI holds

heap     == <<head, word, live, used>>
heapVars == <<heap, step, part, queue, request, uacpi>>

HeapInit ==
  /\ Init
  /\ step = "init_virtio_blk_queue"
  /\ part \in QueueParts
  /\ queue = [desc |-> NULL, avail |-> NULL, used |-> NULL]
  /\ request = NULL
  /\ uacpi = {}

(* Mutant: the lists are built while uACPI still holds blocks. *)
CoreMain_reset_late == <<"core_init_allocators", "acpi_destroy", "init_virtio_blk_queue">>

(* What core_main does before the disk is used. *)
CoreMain == <<"acpi_destroy", "core_init_allocators", "init_virtio_blk_queue">>
After(s) == CoreMain[CHOOSE k \in 1 .. 3 : k > 1 /\ CoreMain[k - 1] = s]

-------------------------------------------------------------------------------
(* uacpi_state_reset: block by block. *)
acpi_destroy ==
  /\ step = "acpi_destroy"
  /\ \/ \E p \in uacpi : core_free(p) /\ uacpi' = uacpi \ {p} /\ UNCHANGED step
     \/ uacpi = {} /\ step' = After(step) /\ UNCHANGED <<heap, uacpi>>
  /\ UNCHANGED <<part, queue, request>>

init_allocators ==
  /\ step = "core_init_allocators"
  /\ core_init_allocators
  /\ step' = After(step)
  /\ UNCHANGED <<part, queue, request, uacpi>>

(* init_virtio_blk_queue: desc, avail, used in this order; without one of  *)
(* them, or when the device will not have the queue, all three are freed.  *)
CallocPart(from, name, to) ==
  /\ step = from
  /\ queue' = [queue EXCEPT ![name] = Found(part[name])]
  /\ \/ core_calloc(part[name]) /\ step' = to
     \/ Found(part[name]) = NULL /\ step' = "free desc" /\ UNCHANGED heap
  /\ UNCHANGED <<part, request, uacpi>>

FreePart(from, name, to) ==
  /\ step = from
  /\ core_free(queue[name])
  /\ step' = to
  /\ UNCHANGED <<part, queue, request, uacpi>>

init_virtio_blk_queue ==
  \/ CallocPart("init_virtio_blk_queue", "desc", "avail")
  \/ CallocPart("avail", "avail", "used")
  \/ CallocPart("used", "used", "configured")
  \/ FreePart("free desc", "desc", "free avail")
  \/ FreePart("free avail", "avail", "free used")
  \/ FreePart("free used", "used", "acpi_setup")

(* The driver and the device write to the queue; init_queue_notify_off may *)
(* still refuse it.                                                        *)
UseQueue ==
  /\ step = "configured"
  /\ \/ \E name \in DOMAIN queue : Write(queue[name]) /\ UNCHANGED step
     \/ step' \in {"disk", "free desc"} /\ UNCHANGED heap
  /\ UNCHANGED <<part, queue, request, uacpi>>

(* The dump: one request at a time, whose header is freed however it ends. *)
request_virtio_blk ==
  /\ step = "disk"
  /\ \/ /\ request = NULL
        /\ core_calloc(HeaderSize) /\ request' = Found(HeaderSize)
     \/ request # NULL /\ Write(request) /\ UNCHANGED request
     \/ request # NULL /\ core_free(request) /\ request' = NULL
  /\ UNCHANGED <<step, part, queue, uacpi>>

(* The disk does not come up, or the dump ends, well or not.               *)
DiskDone ==
  /\ \/ step = "init_virtio_blk_queue"
     \/ step = "disk" /\ request = NULL
  /\ step' = "acpi_setup"
  /\ UNCHANGED <<heap, part, queue, request, uacpi>>

-------------------------------------------------------------------------------
(* uacpi_glue.c: what uACPI allocates during acpi_setup and                *)
(* acpi_return_kernel.  An allocation that fails gives it NULL.            *)
uacpi_kernel_alloc(size)  == core_malloc(size)
uacpi_kernel_calloc(size) == core_calloc(size)
uacpi_kernel_free(mem)    == core_free(mem)

(* Mutexes, events and spinlocks are a byte nobody looks at: the core runs *)
(* alone, so taking and signalling them does nothing.                      *)
uacpi_kernel_create_mutex    == core_malloc(1)
uacpi_kernel_create_event    == core_malloc(1)
uacpi_kernel_create_spinlock == core_malloc(1)
uacpi_kernel_free_mutex(handle)    == core_free(handle)
uacpi_kernel_free_event(handle)    == core_free(handle)
uacpi_kernel_free_spinlock(handle) == core_free(handle)

(* The handle of a PCI device is its address. *)
uacpi_kernel_pci_device_open ==
  /\ Pop(1)
  /\ word' = [word EXCEPT ![Found(1)] = Data(Found(1))]
  /\ used' = used \cup {Found(1)}

uacpi_kernel_pci_device_close(handle) == uacpi_kernel_free(handle)

UacpiGets(size) == uacpi' = uacpi \cup {Found(size)}

Create == uacpi_kernel_create_mutex \/ uacpi_kernel_create_event \/ uacpi_kernel_create_spinlock

(* uACPI frees what it got with the call that goes with it. *)
Release(p) ==
  \/ uacpi_kernel_free(p) \/ uacpi_kernel_pci_device_close(p)
  \/ uacpi_kernel_free_mutex(p) \/ uacpi_kernel_free_event(p) \/ uacpi_kernel_free_spinlock(p)

acpi_setup ==
  /\ step = "acpi_setup"
  /\ \/ \E size \in UacpiSizes :
          (uacpi_kernel_alloc(size) \/ uacpi_kernel_calloc(size)) /\ UacpiGets(size)
     \/ (Create \/ uacpi_kernel_pci_device_open) /\ UacpiGets(1)
     \/ \E p \in uacpi : Release(p) /\ uacpi' = uacpi \ {p}
     \/ \E p \in uacpi : Write(p) /\ UNCHANGED uacpi
  /\ UNCHANGED <<step, part, queue, request>>

(* The machine sleeps, a kernel runs, and the core is woken up again.      *)
acpi_return_kernel ==
  /\ step = "acpi_setup"
  /\ step' = CoreMain[1]
  /\ UNCHANGED <<heap, part, queue, request, uacpi>>

HeapNext ==
  \/ acpi_destroy \/ init_allocators \/ init_virtio_blk_queue \/ UseQueue \/ request_virtio_blk
  \/ DiskDone \/ acpi_setup \/ acpi_return_kernel

HeapSpec == HeapInit /\ [][HeapNext]_heapVars
===============================================================================
