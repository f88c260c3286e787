---------------------------- MODULE ProxySession ----------------------------
(***************************************************************************)
(* One proxied player: src/proxy/proxy.go (AcceptPlayer, RunProxy's wait)    *)
(* and src/proxy/packetProcessor.go.  Five goroutines share a session: the  *)
(* reader of the client, the reader of the server, the packet acceptor, the *)
(* closer and, in AcceptPlayer itself, the writer.  They meet in three      *)
(* queues: acceptorChannel, connQueue and closeChannel.                     *)
(*                                                                         *)
(* A packet is a login, a respawn, a chunk, or one the acceptor does not    *)
(* change its state for.  (Block entities and forgotten chunks look for     *)
(* their chunk in a map that nothing fills, and are left out.)  connQueue   *)
(* is a library's: a push to a full one drops the packet, and what a push   *)
(* to a closed one does is left open between a panic and a drop.  A         *)
(* connection is open, left by its peer, or ended by this side: the         *)
(* client's by a deadline in the past, the server's by a close.             *)
(***************************************************************************)
EXTENDS Naturals, Sequences

CONSTANTS
    Dims, None,
    Registry,    \* the dimensions a login packet lists with their heights
    AcceptorCap, \* capacity of acceptorChannel
    QueueCap,    \* capacity of connQueue
    ReportCap,   \* capacity of closeChannel
    Scripts      \* bound: the sequences of packets the server may send

\* A packet: "bad" does not scan, a "half" login scans up to its registry; dim is
\* where a login or respawn moves the player, and where a chunk belongs.
Packets == [kind : {"login", "respawn", "chunk", "other", "none"},
            dim : Dims \cup {None}, scan : {"ok", "half", "bad"}]

Moves(p) == p.kind \in {"login", "respawn"}

\* The first n packets of s take a player from dimension d to dimension e.
Reaches(s, n, d, e) ==
    \/ d = e /\ \A m \in 1..n : ~Moves(s[m])
    \/ \E j \in 1..n : /\ Moves(s[j]) /\ s[j].dim = e
                       /\ \A m \in (j + 1)..n : ~Moves(s[m])

ASSUME ConstantsOK ==
    /\ None \notin Dims /\ Registry \subseteq Dims
    /\ {AcceptorCap, QueueCap, ReportCap} \subseteq Nat \ {0}
    /\ Scripts \subseteq Seq(Packets)

\* The protocol: a chunk packet names no dimension and belongs to the one the
\* server last moved the player to.
ASSUME ChunksWherePlayerIs ==
    \A s \in Scripts : \A i \in DOMAIN s : s[i].kind = "chunk" =>
        s[i].dim \in Dims /\ Reaches(s, i - 1, None, s[i].dim)

VARIABLES
    phase,       \* none, login, run, over
    told,        \* the proxy's context is cancelled
    client, server,                 \* the connections
    up, down, held,                 \* the readers, and the packet of down's
    acceptor, chunk, cur, loaded,   \* the acceptor, its chunk and its two maps
    closer, writer,
    packets, packetsEnd,            \* acceptorChannel, and whether it is closed
    queue, queueEnd,                \* connQueue's length, and whether it is closed
    reports,                        \* closeChannel's length
    sink,        \* whether the receiver of SaveChannel takes chunks
    dead,        \* the process died of a send on a closed queue
    script,      \* packets the server is still going to send
    collected,   \* history: the packets that were put into acceptorChannel
    saved,       \* history: which of them were saved as chunks, where they come
                 \* from and where they went
    garbled      \* history: a packet that moves the player could not be scanned

conns   == <<client, server>>
down3   == <<down, held, packets>>
inner   == <<acceptor, chunk, cur, loaded>>
queues  == <<queue, queueEnd, reports>>
outside == <<sink, script, garbled, collected, saved>>
vars == <<phase, told, conns, up, down3, packetsEnd, inner, closer, writer, queues,
          outside, dead>>

NoPacket == [kind |-> "none", dim |-> None, scan |-> "ok"]

Init ==
    /\ phase = "none" /\ told = FALSE
    /\ client = "open" /\ server = "open"
    /\ up = "off" /\ down = "off" /\ held = NoPacket
    /\ acceptor = "off" /\ chunk = NoPacket /\ cur = None /\ loaded = {}
    /\ closer = "off" /\ writer = "off"
    /\ packets = <<>> /\ packetsEnd = FALSE
    /\ queue = 0 /\ queueEnd = FALSE /\ reports = 0
    /\ sink = "takes" /\ dead = FALSE
    /\ script \in Scripts /\ collected = <<>> /\ saved = {} /\ garbled = FALSE

-----------------------------------------------------------------------------
(* From the connection to the start of the goroutines *)

Others == UNCHANGED <<conns, queues, outside, dead, held, packets, packetsEnd, chunk,
                      cur, loaded>>

Accept ==
    /\ phase = "none" /\ ~told
    /\ phase' = "login"
    /\ UNCHANGED <<told, up, down, acceptor, closer, writer>> /\ Others

\* A route, an account for the player, and a connection to the server; none of
\* them looks at the context.
JoinFails ==
    /\ phase = "login"
    /\ phase' = "over"
    /\ UNCHANGED <<told, up, down, acceptor, closer, writer>> /\ Others

Join ==
    /\ phase = "login"
    /\ phase' = "run"
    /\ up' = "read" /\ down' = "read" /\ acceptor' = "recv"
    /\ closer' = "wait" /\ writer' = "pull"
    /\ UNCHANGED told /\ Others

Running == phase = "run" /\ ~dead

-----------------------------------------------------------------------------
(* Outside: the peers, the proxy's context, the consumer of the chunks *)

Peers == UNCHANGED <<phase, told, up, down3, packetsEnd, inner, closer, writer, queues,
                     script, garbled, collected, saved, dead>>

ClientLeaves ==
    /\ Running /\ client = "open" /\ client' = "left" /\ UNCHANGED <<server, sink>> /\ Peers
ServerLeaves ==
    /\ Running /\ server = "open" /\ server' = "left" /\ UNCHANGED <<client, sink>> /\ Peers

\* See ChunkPipeline: the consumer hangs in a storage, and SaveChannel fills.
SinkHangs ==
    /\ Running /\ sink = "takes" /\ sink' = "hung" /\ UNCHANGED conns /\ Peers

Stop ==
    /\ ~told /\ told' = TRUE
    /\ UNCHANGED <<phase, conns, up, down3, packetsEnd, inner, closer, writer, queues,
                   outside, dead>>

-----------------------------------------------------------------------------
(* The client's reader *)

Up(from, to) ==
    /\ Running /\ up = from /\ up' = to
    /\ UNCHANGED <<phase, told, conns, down3, packetsEnd, inner, closer, writer, queue,
                   queueEnd, outside, dead>>

\* A read or, except of a chat message, a write fails; a deadline is no report.
\* (Packets that pass change nothing here.)  A packet may have been read before
\* the deadline and be written after the server's connection has ended.
UpBreaks == Up("read", "report") /\ client = "left" /\ UNCHANGED reports
UpWriteFails == Up("read", "report") /\ server # "open" /\ UNCHANGED reports
UpDeadline == Up("read", "end") /\ client = "late" /\ UNCHANGED reports

\* closeChannel <- 0
HasRoom == reports < ReportCap
UpReport == Up("report", "end") /\ HasRoom /\ reports' = reports + 1

-----------------------------------------------------------------------------
(* The server's reader *)

Down == UNCHANGED <<phase, told, conns, up, inner, closer, writer, queueEnd, sink, saved>>

DownRead ==
    /\ Running /\ down = "read" /\ server = "open" /\ script # <<>>
    /\ script' = Tail(script)
    /\ held' = Head(script)
    /\ garbled' = (garbled \/ (Moves(held') /\ held'.scan = "bad"))
    /\ down' = IF held'.kind = "other" THEN "push" ELSE "pass"
    /\ UNCHANGED <<packets, packetsEnd, queue, reports, collected, dead>> /\ Down

\* acceptorChannel <- pack
DownPass ==
    /\ Running /\ down = "pass" /\ Len(packets) < AcceptorCap
    /\ packets' = Append(packets, held) /\ collected' = Append(collected, held)
    /\ down' = "push"
    /\ UNCHANGED <<held, packetsEnd, queue, reports, script, garbled, dead>> /\ Down

\* connQueue.Push: dropped when full, open when closed.
Push ==
    \/ ~queueEnd /\ UNCHANGED dead
          /\ queue' = IF queue < QueueCap THEN queue + 1 ELSE queue
    \/ queueEnd /\ dead' \in BOOLEAN /\ UNCHANGED queue

DownPush ==
    /\ Running /\ down = "push"
    /\ Push
    /\ down' = "read" /\ held' = NoPacket
    /\ UNCHANGED <<packets, packetsEnd, reports, script, garbled, collected>> /\ Down

DownBreaks ==
    /\ Running /\ down = "read" /\ server # "open"
    /\ down' = "report"
    /\ UNCHANGED <<held, packets, packetsEnd, queue, reports, script, garbled, collected, dead>> /\ Down

DownReport ==
    /\ Running /\ down = "report" /\ HasRoom
    /\ reports' = reports + 1
    /\ down' = "close"
    /\ UNCHANGED <<held, packets, packetsEnd, queue, script, garbled, collected, dead>> /\ Down

\* close(acceptorChannel), after wg.Done().
DownClose ==
    /\ down = "close" /\ ~dead
    /\ packetsEnd' = TRUE
    /\ down' = "end"
    /\ UNCHANGED <<held, packets, queue, reports, script, garbled, collected, dead>> /\ Down

-----------------------------------------------------------------------------
(* The packet acceptor *)

Accepting == UNCHANGED <<phase, told, conns, up, down, held, packetsEnd, closer, writer,
                         queueEnd, reports, sink, script, garbled, collected>>

\* What a packet does to currentDim and loadedDims, and what comes next: the
\* action bar after what was handled, nothing after a continue.
MoveIfLoaded(p) ==                               \* mutant: an unknown dimension is ignored
    /\ cur' = IF p.scan # "bad" /\ (p.kind = "login" \/ p.dim \in loaded) THEN p.dim ELSE cur
    /\ loaded' = IF p.kind = "login" /\ p.scan = "ok" THEN loaded \cup Registry ELSE loaded
    /\ acceptor' = IF p.scan = "ok" THEN "bar" ELSE "recv"
    /\ UNCHANGED chunk
Move(p) ==
    /\ cur' = IF p.scan # "bad" THEN p.dim ELSE cur
    /\ loaded' = IF p.kind = "login" /\ p.scan = "ok" THEN loaded \cup Registry ELSE loaded
    /\ acceptor' = IF p.scan = "ok" THEN "bar" ELSE "recv"
    /\ UNCHANGED chunk

TakeChunk(p) ==
    /\ IF cur \in loaded /\ p.scan = "ok"
       THEN acceptor' = "save" /\ chunk' = p
       ELSE UNCHANGED <<acceptor, chunk>>
    /\ UNCHANGED <<cur, loaded>>

Receive ==
    /\ phase = "run" /\ ~dead /\ acceptor = "recv" /\ packets # <<>>
    /\ packets' = Tail(packets)
    /\ LET p == Head(packets) IN
          \/ Moves(p) /\ Move(p)
          \/ p.kind = "chunk" /\ TakeChunk(p)
    /\ UNCHANGED <<queue, saved, dead>> /\ Accepting

\* sp.SaveChannel <- the chunk, with the dimension the acceptor believes in.
SaveChunk ==
    /\ Running /\ acceptor = "save" /\ sink = "takes"
    /\ saved' = saved \cup {<<Len(collected) - Len(packets), chunk.dim, cur>>}
    /\ chunk' = NoPacket
    /\ acceptor' = "bar"
    /\ UNCHANGED <<packets, cur, loaded, queue, dead>> /\ Accepting

\* conn.Push of the action bar
ActionBar ==
    /\ Running /\ acceptor = "bar"
    /\ Push
    /\ acceptor' = "recv"
    /\ UNCHANGED <<packets, chunk, cur, loaded, saved>> /\ Accepting

\* The range over the channel ends once it is closed and empty.
EndsWithContext ==                               \* mutant: leaves what is queued
    /\ Running /\ acceptor = "recv" /\ queueEnd
    /\ acceptor' = "end"
    /\ UNCHANGED <<packets, chunk, cur, loaded, queue, saved, dead>> /\ Accepting
AcceptorEnds ==
    /\ Running /\ acceptor = "recv" /\ packets = <<>> /\ packetsEnd
    /\ acceptor' = "end"
    /\ UNCHANGED <<packets, chunk, cur, loaded, queue, saved, dead>> /\ Accepting

-----------------------------------------------------------------------------
(* The closer: one report or the context, then deadline, close, close *)

Closing == UNCHANGED <<phase, told, up, down3, packetsEnd, inner, writer, queue, outside, dead>>

Wake ==
    /\ Running /\ closer = "wait"
    /\ \/ reports > 0 /\ reports' = reports - 1
       \/ told /\ UNCHANGED reports
    /\ closer' = "cut"
    /\ UNCHANGED <<conns, queueEnd>> /\ Closing

Cut ==
    /\ Running /\ closer = "cut"
    /\ client' = "late" /\ closer' = "hangup"
    /\ UNCHANGED <<server, queueEnd, reports>> /\ Closing

HangUpLeavesQueue ==                             \* mutant: connQueue is not closed
    /\ Running /\ closer = "hangup"
    /\ server' = "closed" /\ closer' = "end"
    /\ UNCHANGED <<client, queueEnd, reports>> /\ Closing
HangUp ==
    /\ Running /\ closer = "hangup"
    /\ server' = "closed" /\ closer' = "shut"
    /\ UNCHANGED <<client, queueEnd, reports>> /\ Closing

CloseQueue ==
    /\ Running /\ closer = "shut"
    /\ queueEnd' = TRUE /\ closer' = "end"
    /\ UNCHANGED <<conns, reports>> /\ Closing

-----------------------------------------------------------------------------
(* The writer, which is AcceptPlayer *)

Writing == UNCHANGED <<told, conns, up, down3, packetsEnd, inner, closer, queueEnd, outside, dead>>

Pull ==
    /\ Running /\ writer = "pull"
    /\ \/ queue > 0 /\ queue' = queue - 1 /\ writer' = "write"
       \/ queue = 0 /\ queueEnd /\ UNCHANGED queue /\ writer' = "wait"
    /\ UNCHANGED <<phase, reports>> /\ Writing

\* A deadline ends the loop; any other error is reported and the loop goes on.
\* A write to a peer that has left may pass unnoticed.
Write ==
    /\ Running /\ writer = "write"
    /\ \/ client # "late" /\ writer' = "pull"
       \/ client = "left" /\ writer' = "report"
       \/ client = "late" /\ writer' = "wait"
    /\ UNCHANGED <<phase, queue, reports>> /\ Writing

WriteReport ==
    /\ Running /\ writer = "report" /\ HasRoom
    /\ reports' = reports + 1
    /\ writer' = "pull"
    /\ UNCHANGED <<phase, queue>> /\ Writing

\* wg.Wait(), and the deferred close(closeChannel).
Leave ==
    /\ Running /\ writer = "wait"
    /\ up = "end" /\ down \in {"close", "end"} /\ acceptor = "end" /\ closer = "end"
    /\ phase' = "over" /\ writer' = "end"
    /\ UNCHANGED <<queue, reports>> /\ Writing

-----------------------------------------------------------------------------
Reader == UpBreaks \/ UpDeadline \/ UpReport
ServerReader == DownPass \/ DownPush \/ DownBreaks \/ DownReport \/ DownClose
Acceptor == Receive \/ SaveChunk \/ ActionBar \/ AcceptorEnds
Closer == Wake \/ Cut \/ HangUp \/ CloseQueue
Writer == Pull \/ Write \/ WriteReport \/ Leave
Outside == ClientLeaves \/ ServerLeaves \/ SinkHangs \/ Stop

Next ==
    \/ Accept \/ JoinFails \/ Join
    \/ Outside
    \/ Reader \/ UpWriteFails
    \/ ServerReader \/ DownRead
    \/ Acceptor \/ Closer \/ Writer

Spec == Init /\ [][Next]_vars

\* The goroutines of a session run; neither peer has to do anything.
Fairness ==
    /\ WF_vars(Reader) /\ WF_vars(ServerReader) /\ WF_vars(Acceptor)
    /\ WF_vars(Closer) /\ WF_vars(Writer)

FairSpec == Spec /\ Fairness

-----------------------------------------------------------------------------
(* Properties *)

\* Every variable has its type, and every queue its capacity.
TypeOK ==
    /\ phase \in {"none", "login", "run", "over"}
    /\ {told, packetsEnd, queueEnd, dead, garbled} \subseteq BOOLEAN
    /\ client \in {"open", "left", "late"} /\ server \in {"open", "left", "closed"}
    /\ up \in {"off", "read", "report", "end"}
    /\ down \in {"off", "read", "pass", "push", "report", "close", "end"}
    /\ acceptor \in {"off", "recv", "save", "bar", "end"}
    /\ closer \in {"off", "wait", "cut", "hangup", "shut", "end"}
    /\ writer \in {"off", "pull", "write", "report", "wait", "end"}
    /\ {held, chunk} \subseteq Packets
    /\ packets \in Seq(Packets) /\ Len(packets) <= AcceptorCap
    /\ queue \in 0..QueueCap /\ reports \in 0..ReportCap
    /\ cur \in Dims \cup {None} /\ loaded \subseteq Registry
    /\ script \in Seq(Packets)
    /\ collected \in Seq(Packets)
    /\ sink \in {"takes", "hung"} /\ saved \subseteq Nat \X Dims \X Dims

\* The type invariant, and: a chunk is saved under the dimension the player was
\* in when the server sent it, however far the acceptor is behind; only a login
\* or respawn that could not be scanned leaves the acceptor in the wrong one.
SavedUnderItsDimension ==
    /\ TypeOK
    /\ garbled \/ \A x \in saved : x[2] = x[3]

\* Nobody empties closeChannel any more: its one reader has gone.
Clogged == closer \notin {"off", "wait"} /\ reports = ReportCap

\* The acceptor waits for a consumer that does not take its chunk.
Stuck == sink = "hung"

\* Once a peer has left or the proxy is stopped, the session ends with all its
\* goroutines, unless failed writes have clogged closeChannel before the closer
\* set the deadline, the consumer hangs, or a late push killed the process.
PlayerSessionEnds ==
    (Running /\ (told \/ client # "open" \/ server # "open"))
        ~> (phase = "over" \/ Clogged \/ Stuck \/ dead)

\* What the acceptor does not discard: a chunk that scans, of a dimension that
\* the registry of an earlier login lists, with no earlier login or respawn that
\* did not scan.
Due(i) ==
    LET before == {collected[j] : j \in 1..(i - 1)} IN
        /\ collected[i].kind = "chunk" /\ collected[i].scan = "ok"
        /\ collected[i].dim \in Registry
        /\ \E p \in before : p.kind = "login" /\ p.scan = "ok"
        /\ \A p \in before : Moves(p) => p.scan # "bad"

Owed == \E i \in DOMAIN collected : Due(i) /\ \A x \in saved : x[1] # i

\* Every chunk that reached acceptorChannel and is due is handed to SaveChannel,
\* although the session ends meanwhile and the acceptor is behind.  (A script
\* is finite, so it is enough that none is owed any more.)
CollectedIsSaved == Owed ~> ~Owed \/ Stuck \/ dead
=============================================================================
