------------------------------ MODULE ChunkFate ------------------------------
(***************************************************************************)
(* What whoever sends a chunk to the server may rely on: the chunk is       *)
(* concluded once, as kept or as lost, and stays what it was concluded to   *)
(* be, whatever happens to the process.  Only concluding a chunk puts a     *)
(* copy of it into a storage, and into one storage only.                    *)
(***************************************************************************)
CONSTANTS Chunks, Storages

VARIABLES
    fate,    \* new, moving, kept or lost, for each chunk
    copies   \* the storages' copies: pairs of a chunk and a storage

fateVars == <<fate, copies>>

Init ==
    /\ fate = [c \in Chunks |-> "new"]
    /\ copies = {}

Begin(c) ==
    /\ fate[c] = "new"
    /\ fate' = [fate EXCEPT ![c] = "moving"]
    /\ UNCHANGED copies

\* A storage may say less or more than it has done when a call to it fails:
\* kept without a copy, or lost in spite of one.
Conclude(c) ==
    /\ fate[c] = "moving"
    /\ \E f \in {"kept", "lost"} : fate' = [fate EXCEPT ![c] = f]
    /\ \/ UNCHANGED copies
       \/ \E s \in Storages : copies' = copies \cup {<<c, s>>}

\* The process ends: what was under way is lost.
Halt ==
    /\ fate' = [c \in Chunks |-> IF fate[c] = "moving" THEN "lost" ELSE fate[c]]
    /\ UNCHANGED copies

Next == Halt \/ \E c \in Chunks : Begin(c) \/ Conclude(c)

Spec == Init /\ [][Next]_fateVars
=============================================================================
