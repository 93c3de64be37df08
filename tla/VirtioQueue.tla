------------------------------ MODULE VirtioQueue ------------------------------
(***************************************************************************)
(* The split virtqueue between the core's virtio-blk driver and the device *)
(* (core/drivers/virtio/virtio_queue.c, virtio_blk.c): the free list of    *)
(* descriptors, the available and used rings with their wrapping indexes,  *)
(* and the request the two sides hand to each other.                       *)
(*                                                                         *)
(* The driver is used as dump.c uses it: request_virtio_blk, then          *)
(* consume_response_virtio_blk.  The device is external; it is modelled by *)
(* the virtio protocol the driver relies on, and runs concurrently with    *)
(* every step of the driver that touches memory they share.                *)
(***************************************************************************)
EXTENDS Integers, FiniteSets

CONSTANTS QSizes,     \* queue sizes a device may offer
          IdxMod,     \* values of a ring index: 2^16
          Blocks,     \* heap blocks for struct virtio_blk_req
          NoBlock,
          DataLen     \* length of the data of a request

INVALID == -1         \* VIRTIO_INVALID_DESC and VIRTIO_INVALID_FREE_HEAD

ASSUME QSizesArePositive == QSizes \subseteq (Nat \ {0})
ASSUME IndexesFit == IdxMod \in Nat /\ \A n \in QSizes : n <= IdxMod
ASSUME IndexWraps == IdxMod > 1
ASSUME BlockAssumption == NoBlock \notin Blocks
ASSUME DataAssumption == DataLen \in Nat \ {0}

VARIABLES
  size,          \* queue->size
  desc,          \* queue->desc, shared with the device
  free_head,     \* queue->free_head
  avail_ring, avail_idx,   \* queue->avail, written by the driver
  used_ring, used_idx,     \* queue->used, written by the device
  seen_used,     \* queue->seen_used
  heap,          \* live blocks of struct virtio_blk_req
  req,           \* their contents: type and status
  pc,            \* where the driver is
  head,          \* desc1 of the request under way
  result,        \* what the last call told dump.c
  last_avail,    \* the device's own index into the available ring
  dpc,           \* where the device is
  dhead,         \* head of the chain it serves
  dlen,          \* what it will report in the used ring
  kicked,        \* it was notified
  moved          \* history: the data of the current request was transferred

queue  == <<desc, free_head>>
driver == <<avail_ring, avail_idx, seen_used, heap, pc, head, result>>
device == <<used_ring, used_idx, last_avail, dpc, dhead, dlen>>
vars   == <<size, queue, driver, device, req, kicked, moved>>

Ids     == 0 .. (size - 1)
Types   == {"IN", "OUT"}

(* What the driver and the device share. *)
virtq_desc      == [buf : {"none", "header", "data", "footer"}, block : Blocks \cup {NoBlock},
                    len : Nat, next_flag : BOOLEAN, write_flag : BOOLEAN, next : Ids \cup {INVALID}]
virtq_avail     == [Ids -> Ids]
virtq_used_elem == [id : Ids, len : Nat]
virtq_used      == [Ids -> virtq_used_elem]
virtio_blk_req  == [type : Types, status : {"OK", "IOERR"}]

NoDesc == [buf |-> "none", block |-> NoBlock, len |-> 0, next_flag |-> FALSE,
           write_flag |-> FALSE, next |-> INVALID]

-------------------------------------------------------------------------------
(* The free list, as operations on a pair [head, desc]. *)

FreeList == [head |-> free_head, desc |-> desc]

free_queue_desc(q, d) ==
  IF d \notin Ids THEN q
  ELSE [head |-> d, desc |-> [q.desc EXCEPT ![d].next = q.head]]

(* alloc_queue_desc: the descriptor is the head, the head moves on. *)
alloc_queue_desc(q) ==
  IF q.head = INVALID THEN q ELSE [q EXCEPT !.head = q.desc[q.head].next]

(* One step of a ring index (uint16_t). *)
Inc(x) == IF x + 1 = IdxMod THEN 0 ELSE x + 1

-------------------------------------------------------------------------------
(* init_virtio_blk_queue chains all descriptors into the free list. *)

InitialNext(d) == IF d + 1 = size THEN INVALID ELSE d + 1

Init ==
  /\ size \in QSizes
  /\ desc = [d \in Ids |-> [NoDesc EXCEPT !.next = InitialNext(d)]]
  /\ free_head = 0
  /\ avail_ring = [k \in Ids |-> 0] /\ avail_idx = 0
  /\ used_ring = [k \in Ids |-> [id |-> 0, len |-> 0]] /\ used_idx = 0
  /\ seen_used = 0
  /\ heap = {}
  /\ req = [b \in Blocks |-> [type |-> "IN", status |-> "OK"]]
  /\ pc = "ready"
  /\ head = INVALID
  /\ result = "none"
  /\ last_avail = 0
  /\ dpc = "idle" /\ dhead = INVALID /\ dlen = 0
  /\ kicked = FALSE
  /\ moved = FALSE

-------------------------------------------------------------------------------
(* request_virtio_blk. *)

(* core_calloc finds no block: nothing was taken, the request fails. *)
RequestWithoutBlock ==
  /\ pc = "ready"
  /\ result' = "error"
  /\ moved' = FALSE
  /\ UNCHANGED <<size, queue, avail_ring, avail_idx, seen_used, heap, pc, head,
                 device, req, kicked>>

(* The cleanup of a request that ran out of descriptors (desc3, at least,  *)
(* is still VIRTIO_INVALID_DESC).                                          *)
Released(q, d1, d2) == free_queue_desc(free_queue_desc(q, d1), d2)

(* The three descriptors are taken one after the other; when the list runs *)
(* out the ones taken, and the block, are given back.                      *)
RequestWithoutDescs ==
  /\ pc = "ready"
  /\ heap # Blocks
  /\ LET q1 == alloc_queue_desc(FreeList)
         q2 == alloc_queue_desc(q1)
         q  == Released(q2, free_head, q1.head)
     IN  /\ INVALID \in {free_head, q1.head, q2.head}
         /\ free_head' = q.head
         /\ desc' = q.desc
  /\ result' = "error"
  /\ moved' = FALSE
  /\ UNCHANGED <<size, avail_ring, avail_idx, seen_used, heap, pc, head, device,
                 req, kicked>>

(* The chain of a request: header, data, footer. *)
Chain(t, b, d2, d3, rest) ==
  [header |-> [buf |-> "header", block |-> b, len |-> 16, next_flag |-> TRUE,
               write_flag |-> FALSE, next |-> d2],
   data   |-> [buf |-> "data", block |-> NoBlock, len |-> DataLen,
               next_flag |-> TRUE, write_flag |-> (t = "IN"), next |-> d3],
   footer |-> [buf |-> "footer", block |-> b, len |-> 1, next_flag |-> FALSE,
               write_flag |-> TRUE, next |-> rest]]

(* All allocations succeed and the chain is filled in. *)
Request(t, b) ==
  /\ pc = "ready"
  /\ b \notin heap
  /\ LET q1 == alloc_queue_desc(FreeList)
         q2 == alloc_queue_desc(q1)
         q3 == alloc_queue_desc(q2)
         chain == Chain(t, b, q1.head, q2.head, desc[q2.head].next)
     IN  /\ INVALID \notin {free_head, q1.head, q2.head}
         /\ free_head' = q3.head
         /\ desc' = [desc EXCEPT ![free_head] = chain.header,
                                 ![q1.head]   = chain.data,
                                 ![q2.head]   = chain.footer]
         /\ head' = free_head
  /\ heap' = heap \cup {b}
  /\ req' = [req EXCEPT ![b] = [type |-> t, status |-> "OK"]]
  /\ pc' = "ring"
  /\ moved' = FALSE
  /\ UNCHANGED <<size, avail_ring, avail_idx, seen_used, result, device, kicked>>

(* Mutant: the slot of the available ring does not follow the index. *)
Slot_fixed(idx) == 0

(* The slot of a ring an index stands for. *)
Slot(idx) == idx % size

(* The head of the chain goes in the available ring, *)
PublishHead ==
  /\ pc = "ring"
  /\ avail_ring' = [avail_ring EXCEPT ![Slot(avail_idx)] = head]
  /\ pc' = "idx"
  /\ UNCHANGED <<size, queue, avail_idx, seen_used, heap, head, result, device,
                 req, kicked, moved>>

(* then the index of the ring is advanced: the device may see the chain, *)
PublishIdx ==
  /\ pc = "idx"
  /\ avail_idx' = Inc(avail_idx)
  /\ pc' = "notify"
  /\ UNCHANGED <<size, queue, avail_ring, seen_used, heap, head, result, device,
                 req, kicked, moved>>

(* then the device is notified, and request_virtio_blk returns. *)
Notify ==
  /\ pc = "notify"
  /\ kicked' = TRUE
  /\ pc' = "wait"
  /\ UNCHANGED <<size, queue, avail_ring, avail_idx, seen_used, heap, head,
                 result, device, req, moved>>

-------------------------------------------------------------------------------
(* consume_response_virtio_blk: the busy wait, the pop of the used ring,   *)
(* the validation of the chain and its release.                            *)

is_unseen_used_less   == seen_used < used_idx   \* mutant: forgets the wrap
is_unseen_used_always == TRUE                   \* mutant: no waiting
is_unseen_used        == seen_used # used_idx

(* Mutant: the status byte of the footer is not looked at. *)
validate_used_response_nostatus(d, len) ==
  LET d2 == desc[d].next
  IN  len - 1 - (IF desc[d2].write_flag THEN desc[d2].len ELSE 0) = 0

(* Mutant: the length the device reports is not looked at. *)
validate_used_response_nolen(d, len) ==
  req[desc[desc[desc[d].next].next].block].status = "OK"

validate_used_response(d, len) ==
  LET d2 == desc[d].next
      d3 == desc[d2].next
  IN  /\ desc[d].next_flag /\ desc[d2].next_flag /\ desc[d3].write_flag
      /\ req[desc[d3].block].status = "OK"
      /\ len - desc[d3].len - (IF desc[d2].write_flag THEN desc[d2].len ELSE 0) = 0

(* Mutant: the data descriptor is not released. *)
free_request_two(d) ==
  free_queue_desc(free_queue_desc(FreeList, d), desc[desc[d].next].next)

(* free_request: the chain is read before its links are overwritten. *)
free_request(d) ==
  LET d2 == desc[d].next
      d3 == desc[d2].next
  IN  free_queue_desc(free_queue_desc(free_queue_desc(FreeList, d), d2), d3)

consume_response ==
  /\ pc = "wait"
  /\ is_unseen_used
  /\ LET elem == used_ring[Slot(seen_used)]
         q    == free_request(elem.id)
     IN  /\ result' = IF validate_used_response(elem.id, elem.len)
                      THEN "ok" ELSE "error"
         /\ free_head' = q.head
         /\ desc' = q.desc
         /\ heap' = heap \ {desc[elem.id].block}
  /\ seen_used' = Inc(seen_used)
  /\ head' = INVALID
  /\ pc' = "ready"
  /\ UNCHANGED <<size, avail_ring, avail_idx, device, req, kicked, moved>>

-------------------------------------------------------------------------------
(* The device. *)

(* It takes the next chain as soon as the index shows it, notified or not. *)
DeviceFetch ==
  /\ dpc = "idle"
  /\ last_avail # avail_idx
  /\ dhead' = avail_ring[last_avail % size]
  /\ last_avail' = Inc(last_avail)
  /\ dpc' = "serve"
  /\ kicked' = FALSE
  /\ UNCHANGED <<size, queue, driver, req, used_ring, used_idx, dlen, moved>>

(* A notification that finds nothing new. *)
DeviceIdle ==
  /\ dpc = "idle"
  /\ kicked
  /\ last_avail = avail_idx
  /\ kicked' = FALSE
  /\ UNCHANGED <<size, queue, driver, device, req, moved>>

(* It carries the request out, or fails it, or transfers only part of it,  *)
(* and puts the status in the footer.                                      *)
DeviceServe ==
  /\ dpc = "serve"
  /\ LET d2 == desc[dhead].next
         d3 == desc[d2].next
         b  == desc[d3].block
         in == IF desc[d2].write_flag THEN desc[d2].len ELSE 0
     IN  \/ /\ moved' = TRUE
            /\ req' = [req EXCEPT ![b].status = "OK"]
            /\ dlen' = in + 1
         \/ /\ UNCHANGED moved
            /\ req' = [req EXCEPT ![b].status = "IOERR"]
            /\ dlen' = in + 1
         \/ /\ in > 0
            /\ UNCHANGED moved
            /\ req' = [req EXCEPT ![b].status = "OK"]
            /\ dlen' \in 1 .. in
  /\ dpc' = "elem"
  /\ UNCHANGED <<size, queue, driver, used_ring, used_idx, last_avail, dhead, kicked>>

(* It fills an element of the used ring, *)
DevicePush ==
  /\ dpc = "elem"
  /\ used_ring' = [used_ring EXCEPT ![used_idx % size] = [id |-> dhead, len |-> dlen]]
  /\ dpc' = "used"
  /\ UNCHANGED <<size, queue, driver, req, used_idx, last_avail, dhead, dlen,
                 kicked, moved>>

(* then advances the index of the ring. *)
DeviceAdvance ==
  /\ dpc = "used"
  /\ used_idx' = Inc(used_idx)
  /\ dpc' = "idle"
  /\ dhead' = INVALID
  /\ dlen' = 0
  /\ UNCHANGED <<size, queue, driver, req, used_ring, last_avail, kicked, moved>>

-------------------------------------------------------------------------------
DriverStep ==
  \/ RequestWithoutBlock
  \/ RequestWithoutDescs
  \/ \E t \in Types, b \in Blocks : Request(t, b)
  \/ PublishHead \/ PublishIdx \/ Notify \/ consume_response

DeviceStep == DeviceFetch \/ DeviceIdle \/ DeviceServe \/ DevicePush \/ DeviceAdvance

Next == DriverStep \/ DeviceStep

Spec == Init /\ [][Next]_vars

(* The driver's code runs on once a request is made, and a device that is  *)
(* notified of a request, or has begun it, answers it.                     *)
FairSpec ==
  /\ Spec
  /\ WF_vars(PublishHead \/ PublishIdx \/ Notify \/ consume_response)
  /\ WF_vars(kicked /\ (DeviceFetch \/ DeviceIdle))
  /\ WF_vars(DeviceServe \/ DevicePush \/ DeviceAdvance)

-------------------------------------------------------------------------------
(* Properties. *)

ChainOf(d) == {d, desc[d].next, desc[desc[d].next].next}

InFlight == IF head = INVALID THEN {} ELSE ChainOf(head)

(* The k-th of n descriptors f, INVALID past the last. *)
At(f, n, k) == IF k <= n THEN f[k] ELSE INVALID

(* The free list links the n descriptors f, each one once, and ends. *)
IsFreeList(f, n) ==
  /\ free_head = At(f, n, 1)
  /\ \A k \in 1 .. n : desc[f[k]].next = At(f, n, k + 1)
  /\ \A j, k \in 1 .. n : f[j] = f[k] => j = k

(* alloc_queue_desc and free_queue_desc never lose a descriptor nor give   *)
(* one twice: the free list ends, and holds exactly the descriptors that   *)
(* are not part of the request under way; no request leaks its block.      *)
DescriptorsConserved ==
  /\ \E n \in 0 .. size : \E f \in [1 .. n -> Ids \ InFlight] :
       IsFreeList(f, n) /\ {f[k] : k \in 1 .. n} = Ids \ InFlight
  /\ head # INVALID => Cardinality(InFlight) = 3
  /\ heap = IF head = INVALID THEN {} ELSE {desc[head].block}

(* The device only ever serves the chain of the request under way, whose   *)
(* block is live: free_request never runs under the device's feet.         *)
DeviceServesLiveChain ==
  dpc # "idle" =>
    /\ pc \in {"notify", "wait"}
    /\ dhead = head
    /\ desc[dhead].block \in heap
    /\ desc[desc[desc[dhead].next].next].block = desc[dhead].block

(* The wrapping indexes of the two rings stay in step: the driver never    *)
(* sees an answer to a request it did not make, nor misses one.            *)
IndexesInStep ==
  /\ seen_used # used_idx => pc \in {"notify", "wait"} /\ used_idx = Inc(seen_used)
  /\ last_avail # avail_idx => pc \in {"notify", "wait"} /\ avail_idx = Inc(last_avail)
  /\ pc = "ready" => avail_idx = seen_used /\ used_idx = seen_used

(* dump.c is told of success exactly when the device moved the data.       *)
ResultIsHonest ==
  pc = "ready" /\ result # "none" => (result = "ok" <=> moved)

(* The busy wait of consume_response ends.                                 *)
EveryRequestAnswered == pc = "ring" ~> pc = "ready"

(* The driver and the device together implement one request at a time.     *)
Req == INSTANCE BlockRequest WITH phase <- IF pc = "ready" THEN "idle" ELSE "busy"

ImplementsRequests == Req!BSpec
===============================================================================
