---------------------------- MODULE VirtioQueueProofs ----------------------------
(***************************************************************************)
(* For any queue size, any width of the ring indexes and any blocks: the   *)
(* queue loses no descriptor, the rings stay in step, and the driver and   *)
(* the device together carry out one request at a time.                    *)
(***************************************************************************)
EXTENDS VirtioQueue, FiniteSetTheorems, TLAPS

Indexes == 0 .. (IdxMod - 1)

(* The types of the variables. *)
VarTypes ==
  /\ size \in QSizes
  /\ desc \in [Ids -> virtq_desc]
  /\ free_head \in Ids \cup {INVALID}
  /\ avail_ring \in virtq_avail /\ avail_idx \in Indexes
  /\ used_ring \in virtq_used /\ used_idx \in Indexes
  /\ seen_used \in Indexes /\ last_avail \in Indexes
  /\ heap \subseteq Blocks
  /\ req \in [Blocks -> virtio_blk_req]
  /\ pc \in {"ready", "ring", "idx", "notify", "wait"}
  /\ head \in Ids \cup {INVALID}
  /\ result \in {"none", "ok", "error"}
  /\ dpc \in {"idle", "serve", "elem", "used"}
  /\ dlen \in Nat
  /\ kicked \in BOOLEAN /\ moved \in BOOLEAN

(* The free list, the first part of DescriptorsConserved. *)
FreeListWhole ==
  \E n \in 0 .. size : \E f \in [1 .. n -> Ids \ InFlight] :
    IsFreeList(f, n) /\ {f[k] : k \in 1 .. n} = Ids \ InFlight

(* The chain of the request under way: three descriptors of its own, whose *)
(* header and footer are the block that is taken.                          *)
Data   == desc[head].next
Footer == desc[Data].next

ChainIsWhole ==
  head # INVALID =>
    /\ head \in Ids /\ Data \in Ids /\ Footer \in Ids
    /\ head # Data /\ head # Footer /\ Data # Footer
    /\ desc[head].block \in Blocks /\ desc[Footer].block = desc[head].block
    /\ heap = {desc[head].block}
    /\ desc[head].next_flag /\ desc[Data].next_flag
    /\ desc[Footer].write_flag /\ desc[Footer].len = 1

(* What the device is to write: the data of a read, and the status.        *)
Expected == 1 + (IF desc[Data].write_flag THEN desc[Data].len ELSE 0)

(* An answer of length len that tells whether the data was moved.          *)
IsAnswer(len) ==
  moved <=> req[desc[head].block].status = "OK" /\ len = Expected

(* The three states of the device while the driver waits. *)
Unseen == dpc = "idle" /\ last_avail = seen_used /\ used_idx = seen_used /\ ~moved
Serving ==
  /\ dpc # "idle" /\ dhead = head /\ last_avail = avail_idx /\ used_idx = seen_used
  /\ IF dpc = "serve" THEN ~moved ELSE IsAnswer(dlen)
  /\ dpc = "used" => used_ring[Slot(used_idx)] = [id |-> head, len |-> dlen]
Answered ==
  /\ dpc = "idle" /\ last_avail = avail_idx /\ used_idx = avail_idx
  /\ used_ring[Slot(seen_used)].id = head /\ IsAnswer(used_ring[Slot(seen_used)].len)

(* Where the driver is, with the rings that go with it. *)
Phases ==
  /\ pc = "ready" <=> head = INVALID
  /\ pc = "ready" => heap = {} /\ (result # "none" => (result = "ok" <=> moved))
  /\ pc \in {"ready", "ring", "idx"} =>
       dpc = "idle" /\ last_avail = avail_idx /\ seen_used = avail_idx /\ used_idx = avail_idx
  /\ pc \in {"ring", "idx"} => ~moved
  /\ pc \in {"idx", "notify", "wait"} => avail_ring[Slot(seen_used)] = head
  /\ pc \in {"notify", "wait"} => avail_idx = Inc(seen_used) /\ (Unseen \/ Serving \/ Answered)

IInv == VarTypes /\ FreeListWhole /\ ChainIsWhole /\ Phases

-------------------------------------------------------------------------------
(* A slot is an element of the ring, whatever the index: Slot never reads   *)
(* or writes beyond what init_virtio_blk_queue allocated.                   *)
LEMMA SlotInRing == ASSUME VarTypes, NEW x \in Indexes PROVE Slot(x) \in Ids
<1>1. size \in Nat \ {0} /\ x \in Nat
  BY QSizesArePositive, IndexesFit DEF VarTypes, Indexes
<1>2. \A i \in Nat, n \in Nat \ {0} : i % n \in 0 .. (n - 1)
  OBVIOUS
<1> QED
  BY <1>1, <1>2 DEF Slot, Ids

(* init_virtio_blk_queue leaves every descriptor in the free list, in order. *)
LEMMA InitInv == Init => IInv
<1> SUFFICES ASSUME Init PROVE IInv
  OBVIOUS
<1>1. size \in Nat \ {0} /\ INVALID \notin Ids /\ 0 \in Ids /\ 0 \in Indexes
  BY QSizesArePositive, IndexesFit, IndexWraps DEF Init, Ids, Indexes, INVALID
<1>2. VarTypes
  <2>1. desc \in [Ids -> virtq_desc]
    <3>1. ASSUME NEW d \in Ids PROVE [NoDesc EXCEPT !.next = InitialNext(d)] \in virtq_desc
      <4>1. InitialNext(d) \in Ids \cup {INVALID}
        BY <1>1 DEF InitialNext, Ids
      <4> QED
        BY <4>1 DEF virtq_desc, NoDesc
    <3> QED
      BY <3>1 DEF Init
  <2>2. used_ring \in virtq_used /\ avail_ring \in virtq_avail
    BY <1>1 DEF Init, virtq_used, virtq_used_elem, virtq_avail
  <2>3. req \in [Blocks -> virtio_blk_req]
    BY DEF Init, virtio_blk_req, Types
  <2> QED
    BY <1>1, <2>1, <2>2, <2>3 DEF Init, VarTypes
<1>3. FreeListWhole
  <2> DEFINE f == [k \in 1 .. size |-> k - 1]
  <2>1. InFlight = {}
    BY DEF Init, InFlight
  <2>2. f \in [1 .. size -> Ids \ InFlight]
    BY <1>1, <2>1 DEF Ids
  <2>3. {f[k] : k \in 1 .. size} = Ids \ InFlight
    <3>1. \A d \in Ids : d + 1 \in 1 .. size /\ f[d + 1] = d
      BY <1>1 DEF Ids
    <3> QED
      BY <2>1, <2>2, <3>1
  <2>4. IsFreeList(f, size)
    <3>1. free_head = At(f, size, 1)
      BY <1>1 DEF Init, At
    <3>2. \A k \in 1 .. size : desc[f[k]].next = At(f, size, k + 1)
      <4> SUFFICES ASSUME NEW k \in 1 .. size PROVE desc[k - 1].next = At(f, size, k + 1)
        OBVIOUS
      <4>1. k - 1 \in Ids /\ desc[k - 1].next = InitialNext(k - 1)
        BY <1>1 DEF Init, Ids, NoDesc
      <4> QED
        BY <1>1, <4>1 DEF At, InitialNext
    <3> QED
      BY <1>1, <3>1, <3>2 DEF IsFreeList
  <2> HIDE DEF f
  <2> QED
    BY <1>1, <2>2, <2>3, <2>4 DEF FreeListWhole
<1>4. ChainIsWhole /\ Phases
  BY <1>1 DEF Init, ChainIsWhole, Phases
<1> QED
  BY <1>2, <1>3, <1>4 DEF IInv

(* A step that leaves the descriptors and the request alone leaves the free *)
(* list and the chain whole.                                                *)
LEMMA SameQueue ==
  ASSUME FreeListWhole, ChainIsWhole, UNCHANGED <<size, queue, heap, head>>
  PROVE  FreeListWhole' /\ ChainIsWhole'
<1>1. InFlight' = InFlight /\ Ids' = Ids
  BY DEF queue, InFlight, ChainOf, Ids
<1>2. \A f, n : IsFreeList(f, n)' <=> IsFreeList(f, n)
  BY DEF queue, IsFreeList
<1>3. FreeListWhole'
  BY <1>1, <1>2 DEF FreeListWhole
<1>4. ChainIsWhole'
  BY <1>1 DEF ChainIsWhole, Data, Footer, queue
<1> QED
  BY <1>3, <1>4

(* Publishing a request, and everything the device does, between a request *)
(* and its response.                                                       *)
LEMMA HandOver ==
  ASSUME IInv,
         PublishHead \/ PublishIdx \/ Notify \/ DeviceStep
  PROVE  IInv'
<1> USE DEF IInv
<1>1. /\ size \in Nat \ {0} /\ INVALID \notin Ids
      /\ IdxMod \in Nat /\ IdxMod > 1
      /\ \A x \in Indexes : Inc(x) \in Indexes /\ Inc(x) # x /\ Slot(x) \in Ids
  BY SlotInRing, QSizesArePositive, IndexesFit, IndexWraps
  DEF VarTypes, Indexes, Inc, Ids, INVALID
<1>2. CASE PublishHead
  <2> USE <1>2 DEF PublishHead, device
  <2>1. VarTypes'
    BY <1>1 DEF VarTypes, Ids, virtq_avail, virtq_desc, virtq_used, virtq_used_elem, queue, Phases
  <2>2. Phases'
    BY <1>1 DEF VarTypes, Phases, virtq_avail, Slot, Unseen, Serving, Answered
  <2> QED
    BY <2>1, <2>2, SameQueue
<1>3. CASE PublishIdx
  <2> USE <1>3 DEF PublishIdx, device
  <2>1. VarTypes'
    BY <1>1 DEF VarTypes, Ids, virtq_avail, virtq_desc, virtq_used, virtq_used_elem, queue
  <2>2. Phases'
    BY <1>1 DEF VarTypes, Phases, Slot, Inc, Unseen
  <2> QED
    BY <2>1, <2>2, SameQueue
<1>4. CASE Notify
  <2> USE <1>4 DEF Notify, device
  <2>1. VarTypes'
    BY <1>1 DEF VarTypes, Ids, virtq_avail, virtq_desc, virtq_used, virtq_used_elem, queue
  <2>2. Phases'
    BY DEF Phases, Slot, Inc, Unseen, Serving, Answered, IsAnswer, Expected, Data, queue
  <2> QED
    BY <2>1, <2>2, SameQueue
<1>5. CASE DeviceFetch
  <2> USE <1>5 DEF DeviceFetch, driver
  <2>1. VarTypes'
    BY <1>1 DEF VarTypes, Ids, virtq_avail, virtq_desc, virtq_used, virtq_used_elem, queue
  <2>2. Phases'
    BY <1>1 DEF VarTypes, Phases, Slot, Inc, Unseen, Serving, Answered
  <2> QED
    BY <2>1, <2>2, SameQueue
<1>6. CASE DeviceIdle
  <2> USE <1>6 DEF DeviceIdle, driver, device
  <2>1. VarTypes'
    BY <1>1 DEF VarTypes, Ids, virtq_avail, virtq_desc, virtq_used, virtq_used_elem, queue
  <2>2. Phases'
    BY DEF Phases, Slot, Inc, Unseen, Serving, Answered, IsAnswer, Expected, Data, queue
  <2> QED
    BY <2>1, <2>2, SameQueue
<1>7. CASE DeviceServe
  <2> USE <1>7 DEF DeviceServe, driver
  <2>1. pc \in {"notify", "wait"} /\ head # INVALID /\ Serving
    BY DEF VarTypes, Phases, Unseen, Answered
  <2>2. dhead = head /\ Footer = desc[desc[dhead].next].next /\ desc[Footer].block = desc[head].block
    BY <2>1 DEF Serving, ChainIsWhole, Data, Footer
  <2>3. /\ desc[Data].len \in Nat /\ desc[Data].write_flag \in BOOLEAN
        /\ desc[head].block \in Blocks /\ req[desc[head].block] \in virtio_blk_req
    BY <2>1 DEF VarTypes, ChainIsWhole, virtq_desc
  <2> DEFINE b == desc[head].block
  <2>4. Expected \in Nat \ {0}
    <3>1. CASE desc[Data].write_flag
      BY ONLY <2>3, <3>1 DEF Expected
    <3>2. CASE ~desc[Data].write_flag
      BY ONLY <2>3, <3>2 DEF Expected
    <3> QED
      BY <3>1, <3>2
  <2>5. ~moved
    BY <2>1 DEF Serving
  <2>6. \/ moved' /\ req' = [req EXCEPT ![b].status = "OK"] /\ dlen' = Expected
        \/ ~moved' /\ req' = [req EXCEPT ![b].status = "IOERR"] /\ dlen' = Expected
        \/ ~moved' /\ req' = [req EXCEPT ![b].status = "OK"] /\ dlen' \in 1 .. (Expected - 1)
    <3>1. CASE desc[Data].write_flag
      BY <2>2, <2>3, <2>5, <3>1 DEF Data, Footer, Expected
    <3>2. CASE ~desc[Data].write_flag
      BY <2>2, <2>3, <2>5, <3>2 DEF Data, Footer, Expected
    <3> QED
      BY <3>1, <3>2
  <2>7. moved' \in BOOLEAN
    BY DEF VarTypes
  <2>8. dlen' \in Nat
    BY ONLY <2>4, <2>6
  <2>9. UNCHANGED <<size, queue, driver, used_ring, used_idx, last_avail, dhead, kicked>> /\ dpc' = "elem"
    OBVIOUS
  <2>10. req' \in [Blocks -> virtio_blk_req]
    <3>1. \A s \in {"OK", "IOERR"} : [req EXCEPT ![b].status = s] \in [Blocks -> virtio_blk_req]
      BY <2>3 DEF VarTypes, virtio_blk_req
    <3> QED
      BY ONLY <2>6, <3>1
  <2>11. VarTypes'
    BY <2>7, <2>8, <2>10 DEF VarTypes, Ids, virtq_avail, virtq_desc, virtq_used, virtq_used_elem, queue
  <2>12. moved' <=> req'[b].status = "OK" /\ dlen' = Expected
    <3>1. \A s \in {"OK", "IOERR"} : [req EXCEPT ![b].status = s][b].status = s
      BY <2>3 DEF VarTypes, virtio_blk_req
    <3>2. /\ [req EXCEPT ![b].status = "OK"][b].status = "OK"
          /\ [req EXCEPT ![b].status = "IOERR"][b].status = "IOERR"
      BY <3>1, Zenon
    <3>3. CASE moved' /\ req' = [req EXCEPT ![b].status = "OK"] /\ dlen' = Expected
      BY ONLY <3>2, <3>3
    <3>4. CASE ~moved' /\ req' = [req EXCEPT ![b].status = "IOERR"] /\ dlen' = Expected
      BY ONLY <3>2, <3>4
    <3>5. CASE ~moved' /\ req' = [req EXCEPT ![b].status = "OK"] /\ dlen' \in 1 .. (Expected - 1)
      <4>1. dlen' # Expected
        BY ONLY <2>4, <3>5
      <4> QED
        BY ONLY <3>5, <4>1
    <3> QED
      BY ONLY <2>6, <3>3, <3>4, <3>5
  <2>13. IsAnswer(dlen)'
    BY ONLY <2>9, <2>12 DEF IsAnswer, Expected, Data, queue, driver
  <2>14. Serving' /\ dpc' = "elem"
    BY <2>1, <2>13 DEF Serving
  <2>15. Phases'
    BY <2>1, <2>14 DEF Phases, Slot, Inc
  <2> QED
    BY <2>11, <2>15, SameQueue
<1>8. CASE DevicePush
  <2> USE <1>8 DEF DevicePush, driver
  <2>1. pc \in {"notify", "wait"} /\ Serving /\ dhead \in Ids
    BY DEF VarTypes, Phases, Unseen, Answered, Serving, ChainIsWhole
  <2>2. used_ring' = [used_ring EXCEPT ![Slot(used_idx)] = [id |-> dhead, len |-> dlen]]
    BY DEF Slot
  <2>3. used_ring' \in virtq_used
    <3>1. [id |-> dhead, len |-> dlen] \in virtq_used_elem
      BY <2>1 DEF VarTypes, virtq_used_elem
    <3>2. used_ring \in [Ids -> virtq_used_elem]
      BY DEF VarTypes, virtq_used
    <3> QED
      BY ONLY <2>2, <3>1, <3>2 DEF virtq_used
  <2>4. VarTypes'
    BY <2>3 DEF VarTypes, Ids, virtq_avail, virtq_desc, virtq_used, virtq_used_elem, queue
  <2>5. used_ring'[Slot(used_idx)'] = [id |-> head, len |-> dlen]
    BY <1>1, <2>1, <2>2 DEF VarTypes, virtq_used, Serving, Slot
  <2>6. Serving'
    BY <2>1, <2>5 DEF Serving, IsAnswer, Expected, Data, queue
  <2>7. Phases'
    BY <2>1, <2>6 DEF Phases, Slot, Inc
  <2> QED
    BY <2>4, <2>7, SameQueue
<1>9. CASE DeviceAdvance
  <2> USE <1>9 DEF DeviceAdvance, driver
  <2>1. pc \in {"notify", "wait"} /\ Serving
    BY DEF VarTypes, Phases, Unseen, Answered
  <2>2. VarTypes'
    BY <1>1 DEF VarTypes, Ids, virtq_avail, virtq_desc, virtq_used, virtq_used_elem, queue
  <2>3. Answered'
    BY <2>1 DEF Serving, Answered, IsAnswer, Expected, Data, queue, Phases, Slot, Inc
  <2>4. Phases'
    BY <2>1, <2>3 DEF Phases, Slot, Inc
  <2> QED
    BY <2>2, <2>4, SameQueue
<1> QED
  BY <1>2, <1>3, <1>4, <1>5, <1>6, <1>7, <1>8, <1>9 DEF DeviceStep

-------------------------------------------------------------------------------
(* request_virtio_blk takes nothing, gives back what it took, or takes the  *)
(* first three descriptors of the free list and leaves the rest of it.      *)
LEMMA RequestInv ==
  ASSUME IInv,
         RequestWithoutBlock \/ RequestWithoutDescs \/ \E t \in Types, b \in Blocks : Request(t, b)
  PROVE  IInv'
<1> USE DEF IInv
<1>1. /\ size \in Nat \ {0} /\ INVALID \notin Ids
      /\ desc \in [Ids -> virtq_desc] /\ free_head \in Ids \cup {INVALID}
  BY QSizesArePositive DEF VarTypes, Ids, INVALID
<1>2. pc = "ready" /\ head = INVALID /\ InFlight = {}
  BY DEF Phases, InFlight, RequestWithoutBlock, RequestWithoutDescs, Request
<1>3. CASE RequestWithoutBlock
  <2> USE <1>3 DEF RequestWithoutBlock, device
  <2>1. VarTypes'
    BY DEF VarTypes, Ids, virtq_avail, virtq_desc, virtq_used, virtq_used_elem, queue
  <2>2. Phases'
    BY <1>2 DEF Phases
  <2> QED
    BY <2>1, <2>2, SameQueue
<1>0. PICK n \in 0 .. size : \E f \in [1 .. n -> Ids] :
        IsFreeList(f, n) /\ {f[k] : k \in 1 .. n} = Ids
  BY <1>2 DEF FreeListWhole
<1>4. PICK f \in [1 .. n -> Ids] : IsFreeList(f, n) /\ {f[k] : k \in 1 .. n} = Ids
  BY <1>0
<1> DEFINE q1 == alloc_queue_desc(FreeList)
           q2 == alloc_queue_desc(q1)
           q3 == alloc_queue_desc(q2)
<1>5. \A k \in 1 .. n : f[k] \in Ids /\ f[k] # INVALID
  BY <1>1, <1>4
<1>6. /\ free_head = At(f, n, 1) /\ q1 = [head |-> At(f, n, 2), desc |-> desc]
      /\ q2 = [head |-> At(f, n, 3), desc |-> desc] /\ q3 = [head |-> At(f, n, 4), desc |-> desc]
  <2>1. \A k \in 1 .. 3 : alloc_queue_desc([head |-> At(f, n, k), desc |-> desc]) =
                            [head |-> At(f, n, k + 1), desc |-> desc]
    BY <1>4, <1>5 DEF alloc_queue_desc, At, IsFreeList
  <2>2. FreeList = [head |-> At(f, n, 1), desc |-> desc]
    BY <1>4 DEF FreeList, IsFreeList
  <2> QED
    BY <1>4, <2>1, <2>2 DEF IsFreeList
<1> HIDE DEF q1, q2, q3
<1>7. CASE RequestWithoutDescs
  <2>1. /\ INVALID \in {free_head, q1.head, q2.head}
        /\ free_head' = Released(q2, free_head, q1.head).head
        /\ desc' = Released(q2, free_head, q1.head).desc
    BY <1>7 DEF RequestWithoutDescs, q1, q2
  <2>2. /\ UNCHANGED <<size, avail_ring, avail_idx, seen_used, heap, pc, head, device, req, kicked>>
        /\ result' = "error" /\ moved' = FALSE
    BY <1>7 DEF RequestWithoutDescs
  <2>3. n < 3
    BY <1>5, <1>6, <2>1 DEF At
  <2>4. InFlight' = {} /\ Ids' = Ids
    BY <1>2, <2>2 DEF InFlight, Ids
  <2>5. CASE n < 2
    <3>1. q1.head = INVALID /\ q2 = [head |-> INVALID, desc |-> desc]
      BY <1>6, <2>5 DEF At
    <3>2. free_head' = free_head /\ desc' = desc
      <4>1. CASE n = 0
        BY <1>1, <1>6, <2>1, <3>1, <4>1 DEF At, Released, free_queue_desc
      <4>2. CASE n = 1
        <5>1. free_head = f[1] /\ desc[f[1]].next = INVALID /\ f[1] \in Ids
          BY <1>4, <1>5, <4>2 DEF At, IsFreeList
        <5>2. [desc EXCEPT ![f[1]].next = INVALID] = desc
          BY <1>1, <5>1 DEF virtq_desc
        <5> QED
          BY <1>1, <2>1, <3>1, <5>1, <5>2 DEF Released, free_queue_desc
      <4> QED
        BY <2>5, <4>1, <4>2
    <3>3. VarTypes'
      BY <2>2, <3>2 DEF VarTypes, Ids, virtq_avail, virtq_desc, virtq_used, virtq_used_elem, device
    <3>4. FreeListWhole' /\ ChainIsWhole'
      BY <2>2, <3>2, SameQueue DEF queue
    <3> QED
      BY <1>2, <2>2, <3>3, <3>4 DEF Phases, device
  <2>6. CASE n = 2
    <3>1. /\ free_head = f[1] /\ f[1] \in Ids /\ f[2] \in Ids /\ f[1] # f[2]
          /\ q1.head = f[2] /\ q2 = [head |-> INVALID, desc |-> desc]
          /\ desc[f[1]].next = f[2] /\ desc[f[2]].next = INVALID
      BY <1>4, <1>5, <1>6, <2>6 DEF At, IsFreeList
    <3>2. free_head' = f[2] /\ desc' = [desc EXCEPT ![f[1]].next = INVALID, ![f[2]].next = f[1]]
      BY <1>1, <2>1, <3>1 DEF Released, free_queue_desc
    <3>3. desc' \in [Ids -> virtq_desc] /\ desc'[f[1]].next = INVALID /\ desc'[f[2]].next = f[1]
      <4>1. \A d \in Ids, e \in Ids \cup {INVALID} :
              [desc EXCEPT ![d].next = e] \in [Ids -> virtq_desc] /\ [desc EXCEPT ![d].next = e][d].next = e
        BY <1>1 DEF virtq_desc
      <4> DEFINE mid == [desc EXCEPT ![f[1]].next = INVALID]
      <4>2. mid \in [Ids -> virtq_desc] /\ mid[f[1]].next = INVALID
        BY <3>1, <4>1
      <4>3. desc' = [mid EXCEPT ![f[2]].next = f[1]]
        BY <3>2
      <4> HIDE DEF mid
      <4> QED
        BY <3>1, <4>2, <4>3 DEF virtq_desc
    <3> DEFINE g == [k \in 1 .. 2 |-> f[3 - k]]
    <3>4. g[1] = f[2] /\ g[2] = f[1] /\ g \in [1 .. n -> Ids]
      BY <2>6, <3>1
    <3>5. {g[k] : k \in 1 .. n} = Ids
      <4>1. \A d \in Ids : d = f[1] \/ d = f[2]
        BY <1>4, <2>6
      <4> QED
        BY <2>6, <3>4, <4>1
    <3> HIDE DEF g
    <3>6. IsFreeList(g, n)'
      BY <2>6, <3>1, <3>2, <3>3, <3>4 DEF IsFreeList, At
    <3>7. FreeListWhole'
      BY <2>2, <2>4, <3>4, <3>5, <3>6 DEF FreeListWhole
    <3>8. VarTypes'
      BY <2>2, <3>1, <3>2, <3>3
      DEF VarTypes, Ids, virtq_avail, virtq_desc, virtq_used, virtq_used_elem, device
    <3> QED
      BY <1>2, <2>2, <3>7, <3>8 DEF Phases, ChainIsWhole, device
  <2> QED
    BY <2>3, <2>5, <2>6
<1>8. ASSUME NEW t \in Types, NEW b \in Blocks, Request(t, b)
      PROVE  IInv'
  <2> DEFINE chain == Chain(t, b, q1.head, q2.head, desc[q2.head].next)
  <2>1. /\ INVALID \notin {free_head, q1.head, q2.head}
        /\ free_head' = q3.head /\ head' = free_head
        /\ desc' = [desc EXCEPT ![free_head] = chain.header, ![q1.head] = chain.data,
                                ![q2.head] = chain.footer]
    BY <1>8 DEF Request, q1, q2, q3
  <2>2. /\ UNCHANGED <<size, avail_ring, avail_idx, seen_used, result, device, kicked>>
        /\ heap' = heap \cup {b} /\ pc' = "ring" /\ moved' = FALSE
        /\ req' = [req EXCEPT ![b] = [type |-> t, status |-> "OK"]]
    BY <1>8 DEF Request
  <2>3. n >= 3 /\ free_head = f[1] /\ q1.head = f[2] /\ q2.head = f[3]
    BY <1>6, <2>1 DEF At
  <2>4. /\ f[1] \in Ids /\ f[2] \in Ids /\ f[3] \in Ids
        /\ f[1] # f[2] /\ f[1] # f[3] /\ f[2] # f[3]
    BY <1>4, <1>5, <2>3 DEF IsFreeList
  <2>5. /\ desc[f[3]].next = At(f, n, 4) /\ At(f, n, 4) \in Ids \cup {INVALID}
        /\ free_head' = At(f, n, 4)
    BY <1>4, <1>5, <1>6, <2>1, <2>3 DEF IsFreeList, At
  <2>6. chain = Chain(t, b, f[2], f[3], At(f, n, 4))
    BY <2>3, <2>5
  <2> HIDE DEF chain
  <2>7. chain.header \in virtq_desc /\ chain.data \in virtq_desc /\ chain.footer \in virtq_desc
    BY <2>4, <2>5, <2>6, DataAssumption DEF Chain, virtq_desc
  <2>8. /\ desc' \in [Ids -> virtq_desc]
        /\ desc'[f[1]] = chain.header /\ desc'[f[2]] = chain.data /\ desc'[f[3]] = chain.footer
        /\ \A d \in Ids \ {f[1], f[2], f[3]} : desc'[d] = desc[d]
    BY <1>1, <2>1, <2>3, <2>4, <2>7
  <2>9. head' = f[1] /\ Data' = f[2] /\ Footer' = f[3] /\ Ids' = Ids
    BY <2>1, <2>2, <2>3, <2>6, <2>8 DEF Data, Footer, Chain, Ids
  <2>10. InFlight' = {f[1], f[2], f[3]}
    BY <1>1, <2>4, <2>9 DEF InFlight, ChainOf, Data, Footer
  <2>11. VarTypes'
    <3>1. req' \in [Blocks -> virtio_blk_req]
      BY <2>2 DEF VarTypes, virtio_blk_req
    <3>2. head' \in Ids \cup {INVALID} /\ free_head' \in Ids \cup {INVALID} /\ heap' \subseteq Blocks
      BY <2>2, <2>4, <2>5, <2>9 DEF VarTypes
    <3> QED
      BY <2>2, <2>8, <2>9, <3>1, <3>2
      DEF VarTypes, Ids, virtq_avail, virtq_desc, virtq_used, virtq_used_elem, device
  <2>12. FreeListWhole'
    <3> DEFINE g == [k \in 1 .. (n - 3) |-> f[k + 3]]
    <3>1. \A k \in 1 .. (n - 3) :
            /\ k + 3 \in 1 .. n /\ g[k] = f[k + 3]
            /\ f[k + 3] # f[1] /\ f[k + 3] # f[2] /\ f[k + 3] # f[3]
      BY <1>4, <2>3 DEF IsFreeList
    <3>2. g \in [1 .. (n - 3) -> Ids \ InFlight']
      BY <1>5, <2>10, <3>1
    <3>3. {g[k] : k \in 1 .. (n - 3)} = Ids \ InFlight'
      <4>1. ASSUME NEW d \in Ids \ InFlight' PROVE \E k \in 1 .. (n - 3) : g[k] = d
        <5>1. PICK j \in 1 .. n : f[j] = d
          BY <1>4
        <5>2. j - 3 \in 1 .. (n - 3) /\ (j - 3) + 3 = j
          BY <2>3, <2>10, <5>1
        <5> QED
          BY <3>1, <5>1, <5>2
      <4> QED
        BY <3>2, <4>1
    <3>4. \A k \in 1 .. (n - 3) : At(g, n - 3, k) = At(f, n, k + 3)
      BY <2>3, <3>1 DEF At
    <3>5. \A k \in 1 .. (n - 2) : At(g, n - 3, k) = At(f, n, k + 3)
      BY <2>3, <3>1 DEF At
    <3>6. \A k \in 1 .. (n - 3) : desc'[g[k]].next = At(g, n - 3, k + 1)
      <4> SUFFICES ASSUME NEW k \in 1 .. (n - 3) PROVE desc'[g[k]].next = At(g, n - 3, k + 1)
        OBVIOUS
      <4>1. desc'[g[k]] = desc[f[k + 3]]
        BY <1>5, <2>8, <3>1
      <4>2. desc[f[k + 3]].next = At(f, n, k + 4)
        BY <1>4, <3>1 DEF IsFreeList
      <4>3. At(g, n - 3, k + 1) = At(f, n, k + 4)
        BY <2>3, <3>5
      <4> QED
        BY <4>1, <4>2, <4>3
    <3>7. \A j, k \in 1 .. (n - 3) : g[j] = g[k] => j = k
      BY <1>4, <3>1 DEF IsFreeList
    <3>8. free_head' = At(g, n - 3, 1)
      BY <2>3, <2>5, <3>5
    <3>9. n - 3 \in 0 .. size
      BY <1>1, <2>3
    <3> HIDE DEF g
    <3>10. IsFreeList(g, n - 3)'
      BY <3>6, <3>7, <3>8 DEF IsFreeList
    <3> QED
      BY <2>2, <2>9, <3>2, <3>3, <3>9, <3>10 DEF FreeListWhole
  <2>13. ChainIsWhole'
    <3>1. heap' = {b}
      BY <1>2, <2>2 DEF Phases
    <3>2. desc'[f[1]].block = b /\ desc'[f[3]].block = b /\ desc'[f[1]].next_flag
          /\ desc'[f[2]].next_flag /\ desc'[f[3]].write_flag /\ desc'[f[3]].len = 1
      BY <2>6, <2>8 DEF Chain
    <3> QED
      BY <2>4, <2>9, <3>1, <3>2 DEF ChainIsWhole
  <2>14. Phases'
    BY <1>1, <1>2, <2>2, <2>4, <2>9 DEF Phases, device
  <2> QED
    BY <2>11, <2>12, <2>13, <2>14
<1> QED
  BY <1>3, <1>7, <1>8

-------------------------------------------------------------------------------
(* consume_response_virtio_blk puts the three descriptors of the chain in    *)
(* front of the free list, the footer first, and tells what the device did. *)
LEMMA ResponseInv == IInv /\ consume_response => IInv'
<1> SUFFICES ASSUME IInv, consume_response PROVE IInv'
  OBVIOUS
<1> USE DEF IInv
<1>1. /\ size \in Nat \ {0} /\ INVALID \notin Ids /\ seen_used \in Indexes /\ Slot(seen_used) \in Ids
      /\ desc \in [Ids -> virtq_desc] /\ free_head \in Ids \cup {INVALID}
      /\ Inc(seen_used) \in Indexes /\ Inc(seen_used) # seen_used
  BY SlotInRing, QSizesArePositive, IndexesFit, IndexWraps
  DEF VarTypes, Ids, Indexes, INVALID, Inc
<1>2. pc = "wait" /\ head # INVALID /\ Answered /\ avail_idx = Inc(seen_used)
  BY DEF VarTypes, Phases, consume_response, is_unseen_used, Unseen, Serving
<1> DEFINE elem == used_ring[Slot(seen_used)]
           q    == free_request(head)
<1>3. elem.id = head /\ elem.len \in Nat /\ IsAnswer(elem.len)
  BY <1>1, <1>2 DEF Answered, VarTypes, virtq_used, virtq_used_elem
<1>4. /\ result' = (IF validate_used_response(head, elem.len) THEN "ok" ELSE "error")
      /\ free_head' = q.head /\ desc' = q.desc /\ heap' = heap \ {desc[head].block}
      /\ seen_used' = Inc(seen_used) /\ head' = INVALID /\ pc' = "ready"
      /\ UNCHANGED <<size, avail_ring, avail_idx, device, req, kicked, moved>>
  BY <1>3 DEF consume_response
<1>5. /\ head \in Ids /\ Data \in Ids /\ Footer \in Ids
      /\ head # Data /\ head # Footer /\ Data # Footer
      /\ InFlight = {head, Data, Footer} /\ heap = {desc[head].block}
  BY <1>2 DEF ChainIsWhole, InFlight, ChainOf, Data, Footer
<1>6. q = [head |-> Footer, desc |-> [desc EXCEPT ![head].next = free_head, ![Data].next = head,
                                                   ![Footer].next = Data]]
  BY <1>1, <1>5 DEF free_request, free_queue_desc, FreeList, Data, Footer
<1> HIDE DEF elem, q
<1>7. /\ desc' \in [Ids -> virtq_desc]
      /\ desc'[head].next = free_head /\ desc'[Data].next = head /\ desc'[Footer].next = Data
      /\ \A d \in Ids \ InFlight : desc'[d].next = desc[d].next
  <2>1. \A t \in [Ids -> virtq_desc], d \in Ids, e \in Ids \cup {INVALID} :
          /\ [t EXCEPT ![d].next = e] \in [Ids -> virtq_desc]
          /\ [t EXCEPT ![d].next = e][d].next = e
          /\ \A c \in Ids \ {d} : [t EXCEPT ![d].next = e][c] = t[c]
    BY DEF virtq_desc
  <2> DEFINE t1 == [desc EXCEPT ![head].next = free_head]
             t2 == [t1 EXCEPT ![Data].next = head]
             t3 == [t2 EXCEPT ![Footer].next = Data]
  <2>2. /\ t1 \in [Ids -> virtq_desc] /\ t1[head].next = free_head
        /\ \A c \in Ids \ {head} : t1[c] = desc[c]
    BY <1>1, <1>5, <2>1
  <2> HIDE DEF t1
  <2>3. /\ t2 \in [Ids -> virtq_desc] /\ t2[Data].next = head
        /\ \A c \in Ids \ {Data} : t2[c] = t1[c]
    BY <1>5, <2>1, <2>2
  <2> HIDE DEF t2
  <2>4. /\ t3 \in [Ids -> virtq_desc] /\ t3[Footer].next = Data
        /\ \A c \in Ids \ {Footer} : t3[c] = t2[c]
    BY <1>5, <2>1, <2>3
  <2>5. desc' = t3
    BY <1>4, <1>6 DEF t1, t2
  <2> HIDE DEF t3
  <2> QED
    BY <1>5, <2>2, <2>3, <2>4, <2>5
<1>8. VarTypes'
  <2>1. Ids' = Ids /\ head' \in Ids \cup {INVALID} /\ free_head' \in Ids \cup {INVALID}
    BY <1>4, <1>5, <1>6 DEF Ids
  <2> QED
    BY <1>1, <1>4, <1>7, <2>1
    DEF VarTypes, virtq_avail, virtq_desc, virtq_used, virtq_used_elem, device, Ids
<1>9. FreeListWhole'
  <2>1. PICK n \in 0 .. size : \E f \in [1 .. n -> Ids \ InFlight] :
          IsFreeList(f, n) /\ {f[k] : k \in 1 .. n} = Ids \ InFlight
    BY DEF FreeListWhole
  <2>2. PICK f \in [1 .. n -> Ids \ InFlight] :
          IsFreeList(f, n) /\ {f[k] : k \in 1 .. n} = Ids \ InFlight
    BY <2>1
  <2>3. InFlight' = {} /\ Ids' = Ids
    BY <1>4 DEF InFlight, Ids
  <2> DEFINE g == [k \in 1 .. (n + 3) |-> IF k = 1 THEN Footer ELSE IF k = 2 THEN Data
                                          ELSE IF k = 3 THEN head ELSE f[k - 3]]
  <2>4. n \in Nat
    BY <1>1
  <2>5. /\ g[1] = Footer /\ g[2] = Data /\ g[3] = head
        /\ \A k \in 1 .. n : f[k] \in Ids \ InFlight /\ g[k + 3] = f[k]
        /\ \A k \in 4 .. (n + 3) : k - 3 \in 1 .. n /\ (k - 3) + 3 = k
    BY <2>4
  <2>6. \A k \in 1 .. (n + 3) : k \in {1, 2, 3} \/ g[k] \in Ids \ InFlight
    BY <2>4, <2>5
  <2>7. g \in [1 .. (n + 3) -> Ids]
    BY <1>5, <2>4
  <2>8. \A j, k \in 1 .. (n + 3) : g[j] = g[k] => j = k
    <3> SUFFICES ASSUME NEW j \in 1 .. (n + 3), NEW k \in 1 .. (n + 3), g[j] = g[k]
                 PROVE  j = k
      OBVIOUS
    <3>1. CASE j \in {1, 2, 3} \/ k \in {1, 2, 3}
      BY <1>5, <2>5, <2>6, <3>1
    <3>2. CASE j \notin {1, 2, 3} /\ k \notin {1, 2, 3}
      <4>1. j \in 4 .. (n + 3) /\ k \in 4 .. (n + 3)
        BY <2>4, <3>2
      <4>2. j - 3 \in 1 .. n /\ k - 3 \in 1 .. n /\ f[j - 3] = f[k - 3]
        BY <2>5, <4>1
      <4>3. j - 3 = k - 3
        BY <2>2, <4>2 DEF IsFreeList
      <4> QED
        BY <4>1, <4>3
    <3> QED
      BY <3>1, <3>2
  <2>9. {g[k] : k \in 1 .. (n + 3)} = Ids
    <3>1. ASSUME NEW d \in Ids PROVE \E k \in 1 .. (n + 3) : g[k] = d
      <4>1. CASE d \in InFlight
        BY <1>5, <2>4, <2>5, <4>1
      <4>2. CASE d \notin InFlight
        <5>1. PICK k \in 1 .. n : f[k] = d
          BY <2>2, <4>2
        <5>2. k + 3 \in 1 .. (n + 3) /\ g[k + 3] = d
          BY <2>4, <2>5, <5>1
        <5> QED
          BY <5>2
      <4> QED
        BY <4>1, <4>2
    <3> QED
      BY <2>7, <3>1
  <2>10. n + 3 \in 0 .. size
    <3>1. IsFiniteSet(1 .. (n + 3)) /\ Cardinality(1 .. (n + 3)) = n + 3
      BY <2>4, FS_Interval
    <3>2. IsFiniteSet(Ids) /\ Cardinality(Ids) = size
      BY <1>1, FS_Interval DEF Ids
    <3>3. ~(Cardinality(Ids) < Cardinality(1 .. (n + 3)))
      <4> SUFFICES ASSUME Cardinality(Ids) < Cardinality(1 .. (n + 3)) PROVE FALSE
        OBVIOUS
      <4>1. \E j, k \in 1 .. (n + 3) : j # k /\ g[j] = g[k]
        <5> HIDE DEF g
        <5> QED
          BY <2>7, <3>1, <3>2, FS_PigeonHole
      <4> QED
        BY <2>8, <4>1
    <3> QED
      BY <1>1, <2>4, <3>1, <3>2, <3>3
  <2> HIDE DEF g
  <2>11. \A k \in 1 .. (n + 1) : At(g, n + 3, k + 3) = At(f, n, k)
    BY <2>4, <2>5 DEF At
  <2>12. free_head' = At(g, n + 3, 1) /\ free_head = At(g, n + 3, 4)
    BY <1>4, <1>6, <2>2, <2>4, <2>5, <2>11 DEF At, IsFreeList
  <2>13. \A k \in 1 .. (n + 3) : desc'[g[k]].next = At(g, n + 3, k + 1)
    <3> SUFFICES ASSUME NEW k \in 1 .. (n + 3) PROVE desc'[g[k]].next = At(g, n + 3, k + 1)
      OBVIOUS
    <3>1. CASE k \in {1, 2}
      BY <1>7, <2>4, <2>5, <3>1 DEF At
    <3>2. CASE k = 3
      BY <1>7, <2>5, <2>12, <3>2
    <3>3. CASE k \notin {1, 2, 3}
      <4>1. k - 3 \in 1 .. n /\ g[k] = f[k - 3] /\ f[k - 3] \in Ids \ InFlight
        BY <2>4, <2>5, <3>3
      <4>2. desc'[g[k]].next = At(f, n, (k - 3) + 1)
        BY <1>7, <2>2, <4>1 DEF IsFreeList
      <4>3. (k - 3) + 1 \in 1 .. (n + 1) /\ ((k - 3) + 1) + 3 = k + 1
        BY <2>4, <4>1
      <4> QED
        BY <2>11, <4>2, <4>3
    <3> QED
      BY <3>1, <3>2, <3>3
  <2>14. PICK order : order = g
    OBVIOUS
  <2>15. IsFreeList(order, n + 3)'
    BY <2>8, <2>12, <2>13, <2>14 DEF IsFreeList
  <2> QED
    BY <1>4, <2>3, <2>7, <2>9, <2>10, <2>14, <2>15 DEF FreeListWhole
<1>10. ChainIsWhole'
  BY <1>4 DEF ChainIsWhole
<1>11. result' = "ok" <=> moved'
  <2>1. validate_used_response(head, elem.len) <=>
          req[desc[head].block].status = "OK" /\ elem.len - 1 - (Expected - 1) = 0
    <3>1. /\ desc[head].next_flag /\ desc[Data].next_flag /\ desc[Footer].write_flag
          /\ desc[Footer].len = 1 /\ desc[Footer].block = desc[head].block
          /\ desc[Data].len \in Nat
      BY <1>1, <1>2, <1>5 DEF ChainIsWhole, virtq_desc
    <3>2. Expected - 1 = IF desc[Data].write_flag THEN desc[Data].len ELSE 0
      BY <3>1 DEF Expected
    <3> QED
      BY <3>1, <3>2 DEF validate_used_response, Data, Footer
  <2>2. Expected \in Nat
    BY <1>1, <1>5 DEF Expected, virtq_desc
  <2>3. validate_used_response(head, elem.len) <=> moved
    BY <1>3, <2>1, <2>2 DEF IsAnswer
  <2> QED
    BY <1>4, <2>3
<1>12. Phases'
  BY <1>1, <1>2, <1>4, <1>5, <1>11 DEF Phases, Answered, device
<1> QED
  BY <1>8, <1>9, <1>10, <1>12

-------------------------------------------------------------------------------
(* Every step of the driver and the device keeps the invariant. *)
LEMMA Invariant == Spec => []IInv
<1>1. IInv /\ [Next]_vars => IInv'
  <2> SUFFICES ASSUME IInv, [Next]_vars PROVE IInv'
    OBVIOUS
  <2>1. CASE RequestWithoutBlock \/ RequestWithoutDescs \/ \E t \in Types, b \in Blocks : Request(t, b)
    BY <2>1, RequestInv
  <2>2. CASE PublishHead \/ PublishIdx \/ Notify \/ DeviceStep
    BY <2>2, HandOver
  <2>3. CASE consume_response
    BY <2>3, ResponseInv
  <2>4. CASE UNCHANGED vars
    BY <2>4, SameQueue
    DEF vars, queue, driver, device, IInv, VarTypes, Phases, Unseen, Serving, Answered, IsAnswer,
        Expected, Data, Slot, Inc, Ids, virtq_avail, virtq_desc, virtq_used, virtq_used_elem
  <2> QED
    BY <2>1, <2>2, <2>3, <2>4 DEF Next, DriverStep
<1> QED
  BY <1>1, InitInv, PTL DEF Spec

(* No descriptor is lost or given out twice and no block leaks, however     *)
(* many requests are made, refused or fail (alloc_queue_desc,               *)
(* free_queue_desc, free_request).                                          *)
THEOREM QueueConserved == Spec => []DescriptorsConserved
<1>1. IInv => DescriptorsConserved
  <2> SUFFICES ASSUME IInv PROVE DescriptorsConserved
    OBVIOUS
  <2>1. head # INVALID => Cardinality(InFlight) = 3
    <3> SUFFICES ASSUME head # INVALID PROVE Cardinality(InFlight) = 3
      OBVIOUS
    <3>1. /\ InFlight = ({head} \cup {Data}) \cup {Footer}
          /\ head # Data /\ head # Footer /\ Data # Footer
      BY DEF IInv, ChainIsWhole, InFlight, ChainOf, Data, Footer
    <3>2. IsFiniteSet({head}) /\ Cardinality({head}) = 1
      BY FS_Singleton
    <3>3. IsFiniteSet({head} \cup {Data}) /\ Cardinality({head} \cup {Data}) = 2
      BY <3>1, <3>2, FS_AddElement
    <3> QED
      BY <3>1, <3>3, FS_AddElement
  <2>2. heap = IF head = INVALID THEN {} ELSE {desc[head].block}
    BY DEF IInv, Phases, ChainIsWhole
  <2> QED
    BY <2>1, <2>2 DEF IInv, FreeListWhole, DescriptorsConserved
<1> QED
  BY <1>1, Invariant, PTL

(* The device serves no chain but the one of the request under way, and     *)
(* free_request never runs while it does.                                   *)
THEOREM ChainsAreLive == Spec => []DeviceServesLiveChain
<1>1. IInv => DeviceServesLiveChain
  BY DEF IInv, VarTypes, Phases, Unseen, Serving, Answered, ChainIsWhole, Data, Footer,
         DeviceServesLiveChain
<1> QED
  BY <1>1, Invariant, PTL

(* The indexes of the two rings stay in step wherever they wrap.            *)
THEOREM RingsInStep == Spec => []IndexesInStep
<1>1. IInv => IndexesInStep
  BY DEF IInv, VarTypes, Phases, Unseen, Serving, Answered, IndexesInStep
<1> QED
  BY <1>1, Invariant, PTL

(* dump.c is told of success exactly when the data was moved.               *)
THEOREM ResultsAreHonest == Spec => []ResultIsHonest
<1>1. IInv => ResultIsHonest
  BY DEF IInv, Phases, ResultIsHonest
<1> QED
  BY <1>1, Invariant, PTL

(* The driver and the device implement BlockRequest: every step of theirs   *)
(* is a step of one request, or none that dump.c could notice.              *)
THEOREM RequestsImplemented == Spec => ImplementsRequests
<1> DEFINE phase == IF pc = "ready" THEN "idle" ELSE "busy"
<1>1. Init => Req!BInit
  BY DEF Init, Req!BInit
<1>2. IInv /\ IInv' /\ [Next]_vars => [Req!BNext]_(Req!bvars)
  <2> SUFFICES ASSUME IInv, IInv', [Next]_vars PROVE Req!BNext \/ UNCHANGED Req!bvars
    OBVIOUS
  <2>1. CASE RequestWithoutBlock
    BY <2>1 DEF RequestWithoutBlock, Req!BNext, Req!Reject
  <2>2. CASE RequestWithoutDescs
    BY <2>2 DEF RequestWithoutDescs, Req!BNext, Req!Reject
  <2>3. CASE \E t \in Types, b \in Blocks : Request(t, b)
    BY <2>3 DEF Request, Req!BNext, Req!Submit
  <2>4. CASE PublishHead \/ PublishIdx \/ Notify
    BY <2>4 DEF PublishHead, PublishIdx, Notify, Req!bvars
  <2>5. CASE consume_response
    <3>1. pc = "wait" /\ pc' = "ready" /\ moved' = moved /\ result' \in {"ok", "error"}
      BY <2>5 DEF consume_response
    <3>2. result' = "ok" <=> moved'
      BY <3>1 DEF IInv, Phases
    <3> QED
      BY <3>1, <3>2 DEF Req!BNext, Req!Answer
  <2>6. CASE DeviceServe
    <3>1. pc \in {"notify", "wait"} /\ ~moved
      BY <2>6 DEF DeviceServe, IInv, VarTypes, Phases, Unseen, Serving, Answered
    <3>2. UNCHANGED <<pc, result>> /\ (moved' = TRUE \/ UNCHANGED moved)
      BY <2>6 DEF DeviceServe, driver
    <3> QED
      BY <3>1, <3>2 DEF Req!BNext, Req!Transfer, Req!bvars
  <2>7. CASE DeviceFetch \/ DeviceIdle \/ DevicePush \/ DeviceAdvance
    BY <2>7 DEF DeviceFetch, DeviceIdle, DevicePush, DeviceAdvance, driver, Req!bvars
  <2>8. CASE UNCHANGED vars
    BY <2>8 DEF vars, driver, Req!bvars
  <2> QED
    BY <2>1, <2>2, <2>3, <2>4, <2>5, <2>6, <2>7, <2>8 DEF Next, DriverStep, DeviceStep
<1> QED
  BY <1>1, <1>2, Invariant, PTL DEF Spec, ImplementsRequests, Req!BSpec
===============================================================================
