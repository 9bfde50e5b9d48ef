---------------------------- MODULE SlotAllocator ----------------------------
(***************************************************************************)
(* What the table of VM slots promises the processes that share it, with   *)
(* no table, statements or cleanups in it: a VM is given the lowest slot   *)
(* that nobody holds, keeps it until it gives it back itself, and loses it *)
(* in no other way than by the end of its owner.  SlotTable implements it. *)
(***************************************************************************)
EXTENDS Integers

CONSTANTS
    Procs,       \* processes that own VMs
    VMs,         \* VMs, each of which is given a slot at most once
    Owner,       \* the process each VM lives in
    MaxVMSlots,  \* slots are numbered from 1 to MaxVMSlots
    NoVM         \* the holder of a slot that is free

Slots == 1..MaxVMSlots

VARIABLES
    holder,  \* who holds each slot
    ended,   \* processes that have ended
    served   \* VMs that were given a slot

vars == <<holder, ended, served>>

Init ==
    /\ holder = [s \in Slots |-> NoVM]
    /\ ended = {}
    /\ served = {}

\* The lowest free slot goes to a VM whose process runs.
Acquire(v) ==
    /\ Owner[v] \notin ended
    /\ v \notin served
    /\ \E s \in Slots :
          /\ holder[s] = NoVM
          /\ \A t \in Slots : t < s => holder[t] # NoVM
          /\ holder' = [holder EXCEPT ![s] = v]
    /\ served' = served \cup {v}
    /\ UNCHANGED ended

\* A VM gives back its own slot.
Release(v) ==
    /\ Owner[v] \notin ended
    /\ \E s \in Slots : /\ holder[s] = v
                        /\ holder' = [holder EXCEPT ![s] = NoVM]
    /\ UNCHANGED <<ended, served>>

\* Some slots whose holders' processes have ended become free.
Reclaim ==
    /\ \E S \in SUBSET {s \in Slots : holder[s] # NoVM
                                        /\ Owner[holder[s]] \in ended} :
          holder' = [s \in Slots |-> IF s \in S THEN NoVM ELSE holder[s]]
    /\ UNCHANGED <<ended, served>>

OwnerEnds(p) ==
    /\ p \notin ended
    /\ ended' = ended \cup {p}
    /\ UNCHANGED <<holder, served>>

Next ==
    \/ \E v \in VMs : Acquire(v) \/ Release(v)
    \/ Reclaim
    \/ \E p \in Procs : OwnerEnds(p)

Spec == Init /\ [][Next]_vars

=============================================================================
