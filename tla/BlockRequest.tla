----------------------------- MODULE BlockRequest -----------------------------
(***************************************************************************)
(* What dump.c expects of read_virtio_blk / write_virtio_blk followed by   *)
(* consume_response_virtio_blk: one request at a time, and success is      *)
(* reported exactly when the device transferred the data of that request.  *)
(***************************************************************************)
VARIABLES phase,    \* "idle", or "busy" between the request and its answer
          moved,    \* the data of the latest request was transferred
          result    \* the latest answer given to dump.c

bvars == <<phase, moved, result>>

BInit == phase = "idle" /\ moved = FALSE /\ result = "none"

(* The driver cannot make the request. *)
Reject == /\ phase = "idle"
          /\ result' = "error"
          /\ moved' = FALSE
          /\ UNCHANGED phase

Submit == /\ phase = "idle"
          /\ phase' = "busy"
          /\ moved' = FALSE
          /\ UNCHANGED result

(* The device carries the request out, once. *)
Transfer == /\ phase = "busy"
            /\ ~moved
            /\ moved' = TRUE
            /\ UNCHANGED <<phase, result>>

Answer == /\ phase = "busy"
          /\ phase' = "idle"
          /\ result' = IF moved THEN "ok" ELSE "error"
          /\ UNCHANGED moved

BNext == Reject \/ Submit \/ Transfer \/ Answer

BSpec == BInit /\ [][BNext]_bvars
===============================================================================
