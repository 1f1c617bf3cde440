------------------------------ MODULE Handoff ------------------------------
(***************************************************************************)
(* What the pseudorange thread and the position thread promise each other  *)
(* through pr2, pr2_time, pr2_data_fresh and position_semaphore: a mailbox *)
(* with one slot.  The producer fills it only when it is empty; the        *)
(* consumer computes from the very snapshot that was put there, and only   *)
(* afterwards empties the slot.  No snapshot is replaced or altered while  *)
(* it is in use, and none is used twice.                                   *)
(***************************************************************************)
CONSTANTS Key,      \* what a snapshot has one entry per (the channels)
          Value     \* what an entry holds

VARIABLES slot,     \* the snapshot, a function on Key, or Empty
          reader,   \* what the consumer does with it
          result    \* the entries the last computation used

vars == <<slot, reader, result>>

Empty == [k \in {} |-> 0]

TypeOK == /\ slot \in [Key -> Value] \cup {Empty}
          /\ reader \in {"idle", "reading", "done"}
          /\ DOMAIN result \in SUBSET Key /\ result \in [DOMAIN result -> Value]

Init == slot = Empty /\ reader = "idle" /\ result = Empty

Put == /\ slot = Empty
       /\ slot' \in [Key -> Value]
       /\ UNCHANGED <<reader, result>>

Take == /\ reader = "idle"
        /\ slot # Empty
        /\ reader' = "reading"
        /\ UNCHANGED <<slot, result>>

\* The computation uses some of the entries, as they were put.
Use == /\ reader = "reading"
       /\ \E K \in SUBSET Key : result' = [k \in K |-> slot[k]]
       /\ reader' = "done"
       /\ UNCHANGED slot

\* Too few usable entries: the last result stands.
GiveUp == /\ reader = "reading"
          /\ reader' = "done"
          /\ UNCHANGED <<slot, result>>

Release == /\ reader = "done"
           /\ slot' = Empty
           /\ reader' = "idle"
           /\ UNCHANGED result

Next == Put \/ Take \/ Use \/ GiveUp \/ Release

Spec == Init /\ [][Next]_vars
=============================================================================
