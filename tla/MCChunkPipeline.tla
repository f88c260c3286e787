--------------------------- MODULE MCChunkPipeline ---------------------------
(* ChunkPipeline with one storage of each kind. *)
EXTENDS ChunkPipeline

CONSTANTS p1, p2, h1, o1, r1, fs, db, over, other, consumer, none

MCDimOf == [c \in Chunks |-> IF c = p2 THEN other ELSE over]

Scene(chunks, pref, mishaps) == [chunks |-> chunks, pref |-> pref, mishaps |-> mishaps]

MCScenes ==
    {Scene({p1, p2}, none, 1), Scene({p2, h1}, db, 1), Scene({p1, h1}, none, 1)}
        \cup {Scene({p1}, none, 2), Scene({p2}, db, 2), Scene({h1}, none, 2)}
=============================================================================
