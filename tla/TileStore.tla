------------------------------ MODULE TileStore ------------------------------
(***************************************************************************)
(* What src/imageCache promises its callers, without the cache: a request  *)
(* is made once and concluded at most once.  A get of a tile is answered   *)
(* with an image somebody drew on that tile at storage level, or with nil. *)
(* The callers (src/imageCache.go, src/image.go, src/scaleimage.go,        *)
(* src/chunkConsumer.go) rely on nothing else.                             *)
(***************************************************************************)
CONSTANTS Reqs, Tiles, Commands, Old, Nil

VARIABLES req, status, reply

vars == <<req, status, reply>>

Init ==
    /\ req = [r \in Reqs |-> [op |-> "none", loc |-> Nil]]
    /\ status = [r \in Reqs |-> "new"]
    /\ reply = [r \in Reqs |-> Nil]

\* The images drawn so far on tile t at storage level.  An image set below
\* the storage level never becomes visible to a get.
Drawn(t) ==
    {Old} \cup {s \in Reqs : /\ status[s] = "applied"
                             /\ req[s].loc = [tile |-> t, scale |-> "native"]}

Request(r, c, t) ==
    /\ status[r] = "new"
    /\ req' = [req EXCEPT ![r] = [op |-> c.op,
                                  loc |-> [tile |-> t, scale |-> c.scale]]]
    /\ status' = [status EXCEPT ![r] = "sent"]
    /\ UNCHANGED reply

\* Gets of one tile may be answered together, with the same image.
Reply(S, t, img) ==
    /\ S # {}
    /\ \A r \in S : status[r] = "sent" /\ req[r].op = "get" /\ req[r].loc.tile = t
    /\ img \in Drawn(t) \cup {Nil}
    /\ (\E r \in S : req[r].loc.scale = "larger") => img = Nil
    /\ status' = [r \in Reqs |-> IF r \in S THEN "answered" ELSE status[r]]
    /\ reply' = [r \in Reqs |-> IF r \in S THEN img ELSE reply[r]]
    /\ UNCHANGED req

\* A set is applied, or refused when it is neither a chunk nor a whole tile.
Conclude(r) ==
    /\ status[r] = "sent" /\ req[r].op = "set"
    /\ status' = [status EXCEPT ![r] =
                    IF req[r].loc.scale \in {"zero", "native"} THEN "applied"
                    ELSE "refused"]
    /\ UNCHANGED <<req, reply>>

Next ==
    \/ \E r \in Reqs, c \in Commands, t \in Tiles : Request(r, c, t)
    \/ \E S \in SUBSET Reqs, t \in Tiles :
          \E img \in Drawn(t) \cup {Nil} : Reply(S, t, img)
    \/ \E r \in Reqs : Conclude(r)

Spec == Init /\ [][Next]_vars
=============================================================================
