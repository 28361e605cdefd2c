------------------------------ MODULE KVStore ------------------------------
(***************************************************************************)
(* What a Collection of src/internal/store promises the handlers: a map    *)
(* from ids to records whose acknowledged writes survive every restart.  A *)
(* write that returned an error, or that a crash cut short, did not happen *)
(* for as long as the process lives, but may turn up after a restart.      *)
(***************************************************************************)
CONSTANTS
  Key,     \* record ids
  Val,     \* record contents
  Absent   \* not in the collection

VARIABLES
  kv,      \* what FindByID and FindAll return
  doubt    \* per id: what a restart may turn up instead

Content == Val \cup {Absent}

KVInit ==
  /\ kv = [k \in Key |-> Absent]
  /\ doubt = [k \in Key |-> {}]

\* An acknowledged Save, or Delete (v = Absent).
Write(k, v) ==
  /\ kv' = [kv EXCEPT ![k] = v]
  /\ doubt' = [doubt EXCEPT ![k] = {}]

\* A Save or Delete that has started and may never be acknowledged.
Attempt(k, v) ==
  /\ doubt' = [doubt EXCEPT ![k] = @ \cup {v}]
  /\ UNCHANGED kv

\* Whatever is in doubt stays in doubt: the next restart may undo it.
Restart ==
  /\ kv' \in [Key -> Content]
  /\ \A k \in Key : kv'[k] \in {kv[k]} \cup doubt[k]
  /\ doubt' = [k \in Key |-> IF doubt[k] = {} THEN {} ELSE doubt[k] \cup {kv[k]}]

KVNext ==
  \/ \E k \in Key, v \in Content : Write(k, v) \/ Attempt(k, v)
  \/ Restart

KVSpec == KVInit /\ [][KVNext]_<<kv, doubt>>
=============================================================================
