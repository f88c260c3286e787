--------------------------- MODULE MCProxySession ---------------------------
(* ProxySession with a dimension that the registry lists and one it does not. *)
EXTENDS ProxySession

CONSTANTS listed, custom, none

Packet(kind, dim, scan) == [kind |-> kind, dim |-> dim, scan |-> scan]
Chunk(dim) == Packet("chunk", dim, "ok")
Other == Packet("other", none, "ok")

\* A player who logs in, moves, and gets a chunk before and after; packets that
\* do not scan; packets that only pass through.
MCScripts ==
    {<<Packet("login", listed, "ok"), Chunk(listed), Packet("respawn", custom, scan), Chunk(custom)>> :
            scan \in {"ok", "bad"}}
    \cup {<<Packet("login", custom, "ok"), Packet("respawn", listed, "ok"), Chunk(listed)>>}
    \cup {<<Packet("login", listed, scan), Chunk(listed)>> : scan \in {"half", "bad"}}
    \cup {<<Packet("login", listed, "ok"), Packet("chunk", listed, "bad")>>}
    \cup {<<Other, Other, Other>>}
=============================================================================
