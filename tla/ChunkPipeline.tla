---------------------------- MODULE ChunkPipeline ----------------------------
(***************************************************************************)
(* The way of a chunk into a storage: src/chunkConsumer.go, the add-chunk,  *)
(* add-world and storage handlers of src/api.go and src/worlds.go, the      *)
(* storages map (src/storages.go, src/chunkStorage/storage.go), the worlds  *)
(* and dimensions of the two drivers, and the order in which src/main.go    *)
(* stops all of these.  The process may die and be started again at any     *)
(* step; what it wrote stays.                                               *)
(*                                                                         *)
(* Lookups name one world and the code relates no two of them, so the      *)
(* module follows one world.  A call to a storage is one step, except the  *)
(* filesystem's AddWorld, which makes the directory first and level.dat    *)
(* last.  What happens inside a filesystem storage's AddChunkRaw is in      *)
(* RegionStorage; here the call may fail, never return, or report what is   *)
(* not so, when a fault is left.  Rendering a chunk that was received is    *)
(* one step that needs the image cache.                                     *)
(***************************************************************************)
EXTENDS Naturals, Sequences, FiniteSets

CONSTANTS
    Proxied,     \* chunks collected by the proxy
    Posted,      \* chunks sent to the API, each by a handler of its own
    Orders,      \* requests to the API to add the world
    Readers,     \* tile goroutines of websocket sessions
    Storages,
    Files,       \* the storages that are directories; the others are databases
    Dims, DimOf, \* dimensions, and the one of each chunk
    KnownDims,   \* the three dimensions a directory has
    Scenes,      \* bound: the chunks sent, the preferred storage, and how many
                 \* faults, restarts and other requests there are beside them
    None, Consumer,
    ChanCap      \* capacity of chunkChannel

Chunks == Proxied \cup Posted
Actors == {Consumer} \cup Posted \cup Orders \cup Readers

ASSUME ConstantsOK ==
    /\ Files \subseteq Storages
    /\ DimOf \in [Chunks -> Dims]
    /\ KnownDims \subseteq Dims
    /\ Scenes \subseteq [chunks : SUBSET Chunks, pref : Storages \cup {None}, mishaps : Nat]
    /\ ChanCap \in Nat \ {0}

ASSUME Apart ==
    /\ None \notin Storages \cup Chunks \cup Orders
    /\ Proxied \cap Posted = {}
    /\ Consumer \notin Posted \cup Orders \cup Readers
    /\ Orders \cap (Posted \cup Readers \cup Storages) = {} /\ Posted \cap Readers = {}

VARIABLES
    fate,        \* what has become of each chunk
    stored,      \* copies: pairs of a chunk and a storage
    world,       \* per storage: the world is absent, partly made, or whole
    dims,        \* per database: the dimensions it has
    driver,      \* per storage: the instance in the map, 0 for nil
    shut,        \* driver instances that were closed
    scene,       \* see Scenes; scene.pref is preferred_storage
    chan,        \* chunkChannel
    work,        \* what each actor does
    lock,        \* who holds storagesLock: an order, a storage or None
    ic,          \* the image cache: nil, up or down
    drawing,     \* chunks received and being drawn while there is no cache
    main,        \* main's place in its shutdown
    blocked,     \* the places it cannot leave: see "What main waits for"
    quit,        \* the consumer was told to exit, or has: no, told, gone
    dead,        \* why the process died, or "no"
    faults, restarts, reinits,
    overlapped,  \* history: two made or looked up the world at one time
    hidden       \* history: a lookup skipped a storage that has the world

chunkVars == <<fate, stored, chan>>
stores    == <<world, dims>>
registry  == <<driver, shut, lock, reinits>>
control   == <<ic, main, blocked, quit, dead, restarts, scene>>
history   == <<overlapped, hidden>>
vars == <<chunkVars, stores, registry, control, history, work, drawing, faults>>

Idle == [at |-> "idle", chunk |-> None, left |-> {}, s |-> None, g |-> 0]
Over == [Idle EXCEPT !.at = "done"]

\* storagesInit: a directory always opens, a database may not; its driver is
\* then nil and the server runs on.
Opened == {d \in [Storages -> 0..1] : \A f \in Files : d[f] = 1}

Init ==
    /\ fate = [c \in Chunks |-> "new"]
    /\ stored = {} /\ chan = <<>>
    /\ world = [s \in Storages |-> "none"]
    /\ dims = [s \in Storages |-> {}]
    /\ driver \in Opened
    /\ shut = {} /\ lock = None /\ reinits = 0
    /\ scene \in Scenes
    /\ work = [a \in Actors |-> Idle]
    /\ ic = "nil" /\ drawing = {}
    /\ main = "run" /\ blocked = {} /\ quit = "no" /\ dead = "no"
    /\ faults = 0 /\ restarts = 0
    /\ overlapped = FALSE /\ hidden = FALSE

Alive == dead = "no"

\* The process ends.  What was not concluded is lost; see ChunkFate.
Lost(f) == IF f \in {"new", "kept", "lost"} THEN f ELSE "lost"
Die(why) ==
    /\ dead' = why
    /\ fate' = [c \in Chunks |-> Lost(fate[c])]
    /\ chan' = <<>> /\ drawing' = {} /\ lock' = None /\ blocked' = {}
    /\ work' = [a \in Actors |-> IF work[a].at = "idle" THEN Idle ELSE Over]
    /\ UNCHANGED <<stored, stores, driver, shut, reinits, ic, main, quit, restarts,
                   scene, history, faults>>

-----------------------------------------------------------------------------
(* What each actor is at *)

At(a, where) == Alive /\ work[a].at = where
ChunkOf(a) == IF a = Consumer THEN work[a].chunk ELSE a
Goes(a, x) == work' = [work EXCEPT ![a] = x]
To(a, where) == Goes(a, [work[a] EXCEPT !.at = where])

\* The actor's turn ends: the consumer takes the next chunk, a handler answers.
Rest(a) == IF a = Consumer THEN Idle ELSE Over
Ends(a, f) ==
    /\ Goes(a, Rest(a))
    /\ IF a \in Posted \cup {Consumer}
       THEN fate' = [fate EXCEPT ![ChunkOf(a)] = f]
       ELSE UNCHANGED fate

\* Every early return that gives a chunk up.
LeavesLoop(a) ==                                 \* mutant: return, not continue
    /\ Goes(a, Over)
    /\ IF a \in Posted \cup {Consumer}
       THEN fate' = [fate EXCEPT ![ChunkOf(a)] = "lost"]
       ELSE UNCHANGED fate
    /\ UNCHANGED stored
GivesUp(a) == Ends(a, "lost") /\ UNCHANGED stored

\* What may go wrong or come in between is bounded together.
Beside == {a \in Orders \cup Readers : work[a].at # "idle"}
Spare ==
    faults + restarts + reinits + Cardinality(Beside) + Cardinality(blocked) < scene.mishaps

\* A storage call goes wrong.
Fault == Spare /\ faults' = faults + 1
NoFault == UNCHANGED faults

IsClosed(a) == <<work[a].s, work[a].g>> \in shut
\* A database answers nothing through a closed pool; the calls of a directory
\* that do not go through its router need no open driver.
Answers(a) == work[a].s \in Files \/ ~IsClosed(a)
Errs(a) == IF Answers(a) THEN Fault ELSE NoFault

\* Whoever is between its lookup and the end of its AddWorld.
Creating(b) == work[b].at \in {"lookup", "add", "level"}
OthersCreating(a) == \E b \in Actors \ (Readers \cup {a}) : Creating(b)
HalfMade(a) == \E b \in Actors \ {a} : work[b].at = "level"

Starts(a, x) ==
    /\ Goes(a, x)
    /\ overlapped' = (overlapped \/ HalfMade(a))
    /\ UNCHANGED hidden

-----------------------------------------------------------------------------
(* The consumer's end of the proxy *)

\* The acceptor of a proxied session has a chunk for SaveChannel; it may still
\* work off its own queue after the proxy was told to stop.
Collecting == main \in {"run", "web", "clients", "proxy"}
Collect(c) ==
    /\ Alive /\ Collecting
    /\ fate[c] = "new" /\ c \in scene.chunks
    /\ fate' = [fate EXCEPT ![c] = "sending"]
    /\ UNCHANGED <<stored, chan, stores, registry, control, history, work, drawing, faults>>

\* sp.SaveChannel <- chunk
SendUnbounded(c) ==                              \* mutant: a channel without a bound
    /\ Alive /\ fate[c] = "sending"
    /\ fate' = [fate EXCEPT ![c] = "queued"]
    /\ chan' = Append(chan, c)
    /\ UNCHANGED <<stored, stores, registry, control, history, work, drawing, faults>>
Send(c) ==
    /\ Alive /\ fate[c] = "sending"
    /\ Len(chan) < ChanCap
    /\ fate' = [fate EXCEPT ![c] = "queued"]
    /\ chan' = Append(chan, c)
    /\ UNCHANGED <<stored, stores, registry, control, history, work, drawing, faults>>

\* case r := <-chunkChannel.  The acceptor never sends an empty dimension.
TakeAndKeep ==                                   \* mutant: the chunk stays queued
    /\ At(Consumer, "idle") /\ quit # "gone" /\ chan # <<>>
    /\ UNCHANGED chan
    /\ fate' = [fate EXCEPT ![Head(chan)] = "held"]
    /\ Starts(Consumer, [Idle EXCEPT !.at = "lookup", !.chunk = Head(chan), !.left = Storages])
    /\ UNCHANGED <<stored, stores, registry, control, drawing, faults>>
Take ==
    /\ At(Consumer, "idle") /\ quit # "gone" /\ chan # <<>>
    /\ chan' = Tail(chan)
    /\ fate' = [fate EXCEPT ![Head(chan)] = "held"]
    /\ Starts(Consumer, [Idle EXCEPT !.at = "lookup", !.chunk = Head(chan), !.left = Storages])
    /\ UNCHANGED <<stored, stores, registry, control, drawing, faults>>

\* case <-exitchan: select takes either case when both are ready.
ConsumerExit ==
    /\ At(Consumer, "idle") /\ quit = "told"
    /\ quit' = "gone"
    /\ UNCHANGED <<chunkVars, stores, registry, ic, main, blocked, dead, restarts, scene,
                   history, work, drawing, faults>>

\* runWeb has not been told to stop, or never will be.
Listening == main = "run" \/ "web" \in blocked

\* A request with a chunk.
Post(c) ==
    /\ At(c, "idle") /\ Listening /\ c \in scene.chunks
    /\ fate' = [fate EXCEPT ![c] = "held"]
    /\ Starts(c, [Idle EXCEPT !.at = "lookup", !.left = Storages])
    /\ UNCHANGED <<stored, chan, stores, registry, control, drawing, faults>>

\* A tile goroutine to which the cache has no image to give has to draw from the
\* storages.  Its session may have ended, and nobody waits for it.
Read(r) ==
    /\ At(r, "idle") /\ main \in {"run", "web", "clients"} /\ Spare
    /\ ic = "up"
    /\ Goes(r, [Idle EXCEPT !.at = "lookup", !.left = Storages])
    /\ UNCHANGED <<chunkVars, stores, registry, control, history, drawing, faults>>

\* It asks a cache that has not been made yet.
ReadTooEarly(r) ==
    /\ At(r, "idle") /\ main \in {"run", "web", "clients"} /\ Spare
    /\ ic = "nil"
    /\ Die("cache")

-----------------------------------------------------------------------------
(* GetWorldStorage: the drivers in any order, up to the first that has the *)
(* world or fails.                                                          *)

Instance(s) == <<s, driver[s]>>

\* GetWorld of a directory fails while level.dat cannot be read, and needs no
\* open driver; that of a database fails once its pool is closed.
Unreadable(s) == IF s \in Files THEN world[s] = "part" ELSE Instance(s) \in shut

LookupStep(a, s) ==
    /\ At(a, "lookup") /\ s \in work[a].left
    /\ \/ /\ driver[s] = 0 \/ (~Unreadable(s) /\ world[s] = "none")
          /\ NoFault
          /\ Goes(a, [work[a] EXCEPT !.left = @ \ {s}])
          /\ hidden' = (hidden \/ (world[s] # "none" /\ a \notin Readers))
          /\ UNCHANGED <<fate, stored>>
       \/ /\ driver[s] # 0 /\ ~Unreadable(s) /\ world[s] = "whole"
          /\ NoFault
          /\ Goes(a, [work[a] EXCEPT !.at = IF a \in Readers THEN "read" ELSE "dim",
                                     !.left = {}, !.s = s, !.g = driver[s]])
          /\ UNCHANGED <<fate, stored, hidden>>
       \/ /\ driver[s] # 0
          /\ IF Unreadable(s) THEN NoFault ELSE Fault
          /\ GivesUp(a)
          /\ UNCHANGED hidden
    /\ UNCHANGED <<chan, stores, registry, control, overlapped, drawing>>

Lookup(a) == \E s \in Storages : LookupStep(a, s)

\* No storage has the world: findCapableStorage.
Choice == IF scene.pref # None THEN {scene.pref} ELSE {s \in Storages : driver[s] # 0}
ChooseEarly(a) ==                                \* mutant: one storage is asked
    /\ At(a, "lookup") /\ work[a].left # Storages /\ a \notin Readers
    /\ \E s \in Choice :
          /\ driver[s] # 0
          /\ Goes(a, [work[a] EXCEPT !.at = "add", !.s = s, !.g = driver[s], !.left = {}])
    /\ UNCHANGED <<chunkVars, stores, registry, control, history, drawing, faults>>
Choose(a) ==
    /\ At(a, "lookup") /\ work[a].left = {} /\ a \notin Readers
    /\ \/ /\ \E s \in Choice :
                /\ driver[s] # 0
                /\ Goes(a, [work[a] EXCEPT !.at = "add", !.s = s, !.g = driver[s]])
          /\ UNCHANGED <<fate, stored>>
       \/ /\ \A s \in Choice : driver[s] = 0
          /\ GivesUp(a)
    /\ UNCHANGED <<chan, stores, registry, control, history, drawing, faults>>

\* A tile goroutine takes a method of the nil storage, and nobody recovers it.
ReadNowhere(r) == At(r, "lookup") /\ work[r].left = {} /\ Die("noworld")

-----------------------------------------------------------------------------
(* Worlds and dimensions *)

\* An order holds storagesLock until it ends.
Unlocks(a) == lock' = IF lock = a THEN None ELSE lock

\* AddWorld is done: an order has its answer, the others go on.
Created(a) ==
    IF a \in Orders THEN Ends(a, "kept") ELSE To(a, "dim") /\ UNCHANGED fate

\* AddWorld of a directory: directory, WebChunk.json and the directories of the
\* dimensions; then level.dat, which os.WriteFile empties first.  It asks for
\* no absence: the world may be there.
MakeWorldNoLevel(a) ==                           \* mutant: no level.dat
    /\ At(a, "add") /\ work[a].s \in Files
    /\ overlapped' = (overlapped \/ OthersCreating(a))
    /\ world' = [world EXCEPT ![work[a].s] = "part"]
    /\ Created(a) /\ Unlocks(a) /\ NoFault
    /\ UNCHANGED <<stored, chan, dims, driver, shut, reinits, control, hidden, drawing>>
MakeWorld(a) ==
    /\ At(a, "add") /\ work[a].s \in Files
    /\ overlapped' = (overlapped \/ OthersCreating(a))
    /\ \/ /\ NoFault
          /\ world' = [world EXCEPT ![work[a].s] = "part"]
          /\ To(a, "level")
          /\ UNCHANGED <<fate, stored, lock>>
       \/ /\ Fault
          /\ \E w \in {world[work[a].s]} \cup {"part"} :
                /\ world[work[a].s] = "whole" => w = "whole"
                /\ world' = [world EXCEPT ![work[a].s] = w]
          /\ GivesUp(a) /\ Unlocks(a)
    /\ UNCHANGED <<chan, dims, driver, shut, reinits, control, hidden, drawing>>

WriteLevel(a) ==
    /\ At(a, "level")
    /\ \/ /\ NoFault
          /\ world' = [world EXCEPT ![work[a].s] = "whole"]
          /\ Created(a) /\ UNCHANGED stored
       \/ /\ Fault
          /\ world' = [world EXCEPT ![work[a].s] = "part"]
          /\ GivesUp(a)
    /\ Unlocks(a)
    /\ UNCHANGED <<chan, dims, driver, shut, reinits, control, history, drawing>>

\* AddWorld of a database: one INSERT into a table keyed by name.  An error may
\* reach the caller although the row is there.
InsertWorld(a) ==
    /\ At(a, "add") /\ work[a].s \notin Files
    /\ overlapped' = (overlapped \/ OthersCreating(a))
    /\ \/ /\ ~IsClosed(a) /\ world[work[a].s] = "none" /\ NoFault
          /\ world' = [world EXCEPT ![work[a].s] = "whole"]
          /\ Created(a) /\ UNCHANGED stored
       \/ /\ IsClosed(a) \/ world[work[a].s] = "whole"
          /\ NoFault
          /\ GivesUp(a) /\ UNCHANGED world
       \/ /\ ~IsClosed(a) /\ Fault
          /\ \E w \in {world[work[a].s], "whole"} : world' = [world EXCEPT ![work[a].s] = w]
          /\ GivesUp(a)
    /\ Unlocks(a)
    /\ UNCHANGED <<chan, dims, driver, shut, reinits, control, hidden, drawing>>

DimHere(a) ==
    DimOf[ChunkOf(a)] \in IF work[a].s \in Files THEN KnownDims ELSE dims[work[a].s]

\* GetDimension.  A directory reports a dimension it does not know as
\* ErrNoDim, which the consumer takes for absent and the handler for an error.
GetDimension(a) ==
    /\ At(a, "dim")
    /\ \/ /\ Answers(a) /\ DimHere(a) /\ NoFault
          /\ To(a, "save") /\ UNCHANGED <<fate, stored>>
       \/ /\ Answers(a) /\ ~DimHere(a) /\ NoFault
          /\ work[a].s \in Files => a = Consumer
          /\ To(a, "mkdim") /\ UNCHANGED <<fate, stored>>
       \/ /\ work[a].s \in Files /\ ~DimHere(a) /\ a # Consumer /\ NoFault
          /\ GivesUp(a)
       \/ Errs(a) /\ GivesUp(a)
    /\ UNCHANGED <<chan, stores, registry, control, history, drawing>>

\* AddDimension: not implemented by a directory; an INSERT into a table with a
\* unique world and name.  The handler then tests the variable it has not
\* assigned and answers an error; the consumer has filled it before.
AddDimensionAsHandler(a) ==                      \* mutant: nobody fills it before
    /\ At(a, "mkdim")
    /\ Answers(a) /\ NoFault
    /\ work[a].s \notin Files
    /\ dims' = [dims EXCEPT ![work[a].s] = @ \cup {DimOf[ChunkOf(a)]}]
    /\ GivesUp(a)
    /\ UNCHANGED <<chan, world, registry, control, history, drawing>>
AddDimension(a) ==
    /\ At(a, "mkdim")
    /\ \/ /\ work[a].s \in Files \/ (Answers(a) /\ DimHere(a))
          /\ NoFault /\ GivesUp(a)
          /\ UNCHANGED <<dims, overlapped>>
       \/ /\ work[a].s \notin Files /\ Answers(a) /\ ~DimHere(a) /\ NoFault
          /\ dims' = [dims EXCEPT ![work[a].s] = @ \cup {DimOf[ChunkOf(a)]}]
          /\ overlapped' = (overlapped \/ \E b \in Actors \ {a} : work[b].at = "mkdim")
          /\ IF a = Consumer THEN To(a, "save") /\ UNCHANGED <<fate, stored>>
             ELSE GivesUp(a)
       \/ /\ work[a].s \notin Files /\ Errs(a) /\ GivesUp(a)
          /\ UNCHANGED <<dims, overlapped>>
    /\ UNCHANGED <<chan, world, registry, control, hidden, drawing>>

-----------------------------------------------------------------------------
(* AddChunkRaw, and what the consumer does after it whatever it returned *)

Renders(a) ==
    drawing' = IF a = Consumer /\ ic = "nil" THEN drawing \cup {ChunkOf(a)} ELSE drawing
Copy(a) == <<ChunkOf(a), work[a].s>>

\* A directory's driver sends on a closed channel; the web server recovers the
\* panic of a handler, nobody that of the consumer.
Save(a) ==
    /\ At(a, "save") /\ Answers(a)
    /\ ~(work[a].s \in Files /\ IsClosed(a))
    /\ \/ /\ NoFault /\ Ends(a, "kept") /\ stored' = stored \cup {Copy(a)}
       \/ /\ Fault
          /\ \/ Ends(a, "lost") /\ stored' \in {stored, stored \cup {Copy(a)}}
             \/ work[a].s \in Files /\ Ends(a, "kept") /\ UNCHANGED stored
    /\ Renders(a)
    /\ UNCHANGED <<chan, stores, registry, control, history>>

SaveFails(a) ==
    /\ At(a, "save") /\ IsClosed(a)
    /\ \/ work[a].s \in Files /\ a = Consumer /\ Die("save")
       \/ /\ work[a].s \in Files => a # Consumer
          /\ NoFault /\ GivesUp(a) /\ Renders(a)
          /\ UNCHANGED <<chan, stores, registry, control, history>>

\* See RegionStorage: the storage may forget a call.
SaveForgotten(a) ==
    /\ At(a, "save") /\ work[a].s \in Files /\ ~IsClosed(a)
    /\ Fault /\ To(a, "hung")
    /\ UNCHANGED <<chunkVars, stores, registry, control, history, drawing>>

\* A tile goroutine asks for the chunks of a region.
ReadTiles(r) ==
    /\ At(r, "read")
    /\ IF work[r].s \in Files /\ IsClosed(r) THEN Die("tiles")
       ELSE Goes(r, Over)
            /\ UNCHANGED <<chunkVars, stores, registry, control, history, drawing, faults>>

\* drawChunk and imageCacheSave, in a goroutine of their own.  Until the cache
\* has been made its pointer is nil.  Later the goroutine changes nothing that
\* is followed here, even when the cache has stopped and nobody takes its image.
Render(c) == Alive /\ ic = "nil" /\ c \in drawing /\ Die("cache")

-----------------------------------------------------------------------------
(* Requests that change the world or the storages.  Each holds storagesLock,  *)
(* which the lookups do not take.                                             *)

\* apiAddWorld; it does not look for the world in other storages.
Order(o, s) ==
    /\ At(o, "idle") /\ Listening /\ Spare
    /\ lock = None /\ driver[s] # 0
    /\ lock' = o
    /\ Starts(o, [Idle EXCEPT !.at = "add", !.s = s, !.g = driver[s]])
    /\ UNCHANGED <<chunkVars, stores, driver, shut, reinits, control, drawing, faults>>

\* apiStorageReinit: Close, then newStorage and GetStatus.
ReinitClose(s) ==
    /\ Alive /\ Listening
    /\ lock = None /\ Spare
    /\ lock' = s /\ reinits' = reinits + 1
    /\ shut' = IF driver[s] = 0 THEN shut ELSE shut \cup {Instance(s)}
    /\ UNCHANGED <<chunkVars, stores, driver, control, history, work, drawing, faults>>

Iterating == \E a \in Actors : work[a].at = "lookup" /\ work[a].left # {}

\* The map is written while a lookup may be walking it, which the runtime may
\* detect.  A database that does not open leaves its closed driver in the map.
ReinitOpen(s) ==
    /\ Alive /\ lock = s
    /\ \/ /\ NoFault
          /\ driver' = [driver EXCEPT ![s] = @ + 1]
          /\ lock' = None
          /\ UNCHANGED <<chunkVars, work, drawing, dead>>
       \/ /\ s \notin Files /\ NoFault
          /\ lock' = None
          /\ UNCHANGED <<chunkVars, work, drawing, dead, driver>>
    /\ UNCHANGED <<stores, shut, reinits, ic, main, blocked, quit, restarts, scene, history>>

MapRace(s) == Alive /\ lock = s /\ Iterating /\ Die("race")

-----------------------------------------------------------------------------
(* Start-up and shutdown *)

\* ic is assigned by the goroutine that makes the cache.
CacheUp ==
    /\ Alive /\ ic = "nil"
    /\ ic' = "up" /\ drawing' = {}
    /\ UNCHANGED <<chunkVars, stores, registry, main, blocked, quit, dead, restarts, scene,
                   history, work, faults>>

Requests == {a \in Posted \cup Orders : work[a].at \notin {"idle", "done"}}
Serving == Requests # {} \/ lock # None

\* What main waits for besides: it cannot leave "clients" while a websocket
\* client is connected (WsSession), "proxy" once a session has clogged
\* (ProxySession) or its peer stays in the middle of its login, "cache" once the
\* cache has wedged (ImageCache), nor "storages" once the channels of a directory
\* have (RegionStorage).
Blocks(place) ==
    /\ Alive /\ Spare
    /\ place \notin blocked /\ blocked' = blocked \cup {place}
    /\ UNCHANGED <<chunkVars, stores, registry, ic, main, quit, dead, restarts, scene,
                   history, work, drawing, faults>>

ClientConnects == main \in {"run", "web", "clients"} /\ Blocks("clients")
SessionStays   == Collecting /\ Blocks("proxy")
CacheWedges    == ic = "up" /\ Blocks("cache")
StorageWedges  == main = "storages" /\ Files # {} /\ Blocks("storages")

ClientLeaves ==
    /\ Alive /\ "clients" \in blocked
    /\ blocked' = blocked \ {"clients"}
    /\ UNCHANGED <<chunkVars, stores, registry, ic, main, quit, dead, restarts, scene,
                   history, work, drawing, faults>>

\* main's next routine to stop, and what it tells it.
Stops(from, to) == Alive /\ main = from /\ from \notin blocked /\ main' = to
Stopping == UNCHANGED <<chunkVars, stores, registry, blocked, dead, restarts, scene,
                        history, work, drawing, faults>>

\* The interrupt, and runWeb takes its token from closechan.
Interrupt == Stops("run", "web") /\ UNCHANGED <<ic, quit>> /\ Stopping

\* The sessions read closechan too: one of them takes the token and ends, and
\* runWeb serves on.
TokenTaken ==
    /\ Alive /\ main = "run" /\ "clients" \in blocked
    /\ main' = "web"
    /\ blocked' = (blocked \ {"clients"}) \cup {"web"}
    /\ UNCHANGED <<chunkVars, stores, registry, ic, quit, dead, restarts, scene,
                   history, work, drawing, faults>>

\* bgsWeb: Shutdown waits five seconds for the requests, then the process ends.
WebStopped == Stops("web", "clients") /\ ~Serving /\ UNCHANGED <<ic, quit>> /\ Stopping
WebFatal == Alive /\ main = "web" /\ "web" \notin blocked /\ Serving /\ Die("fatal")

\* wsClients.Wait()
ClientsDropped == Stops("clients", "proxy") /\ UNCHANGED <<ic, quit>> /\ Stopping

\* bgsProxy waits for its sessions, and these for their acceptors.
ProxyStoppedLast ==                              \* mutant: the consumer is stopped first
    \/ Stops("proxy", "consumer") /\ quit' = "told" /\ UNCHANGED ic /\ Stopping
    \/ Stops("consumer", "cache") /\ quit = "gone" /\ ~(\E c \in Chunks : fate[c] = "sending")
          /\ UNCHANGED <<ic, quit>> /\ Stopping
ProxyStopped ==
    /\ Stops("proxy", "cache")
    /\ \A c \in Chunks : fate[c] # "sending"
    /\ UNCHANGED <<ic, quit>> /\ Stopping

\* bgsImageCache.
CacheStopped ==
    Stops("cache", "consumer") /\ ic' = "down" /\ quit' = "told" /\ Stopping

\* bgsChunkConsumer, then CloseStorages.
StorageClosedEarly ==                            \* mutant: before the consumer is gone
    /\ Stops("consumer", "storages")
    /\ shut' = shut \cup {Instance(s) : s \in {x \in Storages : driver[x] # 0}}
    /\ UNCHANGED <<chunkVars, stores, driver, lock, reinits, ic, blocked, quit, dead,
                   restarts, scene, history, work, drawing, faults>>
CloseStorages ==
    /\ Stops("consumer", "storages") /\ quit = "gone"
    /\ shut' = shut \cup {Instance(s) : s \in {x \in Storages : driver[x] # 0}}
    /\ UNCHANGED <<chunkVars, stores, driver, lock, reinits, ic, blocked, quit, dead,
                   restarts, scene, history, work, drawing, faults>>

Exit == Alive /\ main = "storages" /\ "storages" \notin blocked /\ Die("exit")

\* The process may be killed at any time.
Kill == Alive /\ Spare /\ Die("kill")

Restart ==
    /\ dead # "no" /\ Spare
    /\ restarts' = restarts + 1
    /\ driver' \in Opened /\ shut' = {}
    /\ work' = [work EXCEPT ![Consumer] = Idle]
    /\ ic' = "nil" /\ main' = "run" /\ quit' = "no" /\ dead' = "no"
    /\ UNCHANGED <<chunkVars, stores, lock, reinits, blocked, scene, history, drawing, faults>>

-----------------------------------------------------------------------------
CallStep(a) ==
    \/ Lookup(a) \/ Choose(a)
    \/ MakeWorld(a) \/ WriteLevel(a) \/ InsertWorld(a)
    \/ GetDimension(a) \/ AddDimension(a)
    \/ Save(a) \/ SaveFails(a) \/ SaveForgotten(a)

Shutdown ==
    \/ WebStopped \/ WebFatal \/ ClientsDropped \/ ProxyStopped \/ CacheStopped
    \/ CloseStorages \/ Exit

Next ==
    \/ \E c \in Proxied : Collect(c) \/ Send(c)
    \/ \E c \in Posted : Post(c)
    \/ \E r \in Readers : Read(r) \/ ReadTooEarly(r) \/ ReadNowhere(r) \/ ReadTiles(r)
    \/ \E o \in Orders, s \in Storages : Order(o, s)
    \/ \E s \in Storages : ReinitClose(s) \/ ReinitOpen(s) \/ MapRace(s)
    \/ \E c \in Chunks : Render(c)
    \/ \E a \in Actors : CallStep(a)
    \/ Take \/ ConsumerExit
    \/ ClientConnects \/ ClientLeaves
    \/ SessionStays \/ CacheWedges \/ StorageWedges
    \/ CacheUp \/ Interrupt \/ TokenTaken \/ Shutdown \/ Kill \/ Restart

Spec == Init /\ [][Next]_vars

\* Goroutines run; blocked senders are served in order, select takes a random
\* ready case, and a wait group wakes main when it reaches zero.  Nobody has to
\* send a chunk, interrupt, kill, restart or disconnect.  There are finitely many
\* chunks and requests, so one condition stands for all of a kind.
Fairness ==
    /\ SF_vars(\E c \in Proxied : Send(c))
    /\ WF_vars(\E a \in Actors : CallStep(a))
    /\ WF_vars(\E r \in Readers : ReadNowhere(r) \/ ReadTiles(r))
    /\ WF_vars(\E s \in Storages : ReinitOpen(s))
    /\ WF_vars(Take \/ ConsumerExit)
    /\ WF_vars(CacheUp)
    /\ SF_vars(Shutdown)

FairSpec == Spec /\ Fairness

-----------------------------------------------------------------------------
(* Properties *)

Fates == {"new", "sending", "queued", "held", "kept", "lost"}
Places == {"idle", "lookup", "add", "level", "dim", "mkdim", "save", "read", "hung", "done"}

\* Every variable has its type, the channel its capacity, and storagesLock a
\* holder that is at work.
TypeOK ==
    /\ fate \in [Chunks -> Fates]
    /\ stored \subseteq Chunks \X Storages
    /\ chan \in Seq(Proxied) /\ Len(chan) <= ChanCap
    /\ world \in [Storages -> {"none", "part", "whole"}]
    /\ dims \in [Storages -> SUBSET Dims]
    /\ driver \in [Storages -> Nat] /\ shut \subseteq Storages \X Nat
    /\ lock \in {None} \cup Orders \cup Storages
    /\ \A o \in Orders : work[o].at \in {"add", "level"} <=> lock = o
    /\ scene \in Scenes
    /\ work \in [Actors -> [at : Places, chunk : Proxied \cup {None}, left : SUBSET Storages,
                            s : Storages \cup {None}, g : Nat]]
    /\ ic \in {"nil", "up", "down"} /\ drawing \subseteq Proxied
    /\ main \in {"run", "web", "clients", "proxy", "cache", "consumer", "storages"}
    /\ blocked \subseteq {"web", "clients", "proxy", "cache", "storages"}
    /\ quit \in {"no", "told", "gone"}
    /\ dead \in {"no", "kill", "exit", "fatal", "race", "cache", "save", "tiles", "noworld"}
    /\ faults \in Nat /\ restarts \in Nat /\ reinits \in Nat
    /\ overlapped \in BOOLEAN /\ hidden \in BOOLEAN

Homes == {s \in Storages : world[s] # "none"}

\* A world has one storage (SWorld.Name is called unique), unless two requests
\* made it at one time, a storage that has it could not be asked because its
\* driver is nil, or somebody ordered it, which does not look for it at all.
OneStoragePerWorld ==
    \/ Cardinality(Homes) <= 1
    \/ overlapped \/ hidden
    \/ \E o \in Orders : work[o].at # "idle"

Interrupted == faults > 0 \/ restarts > 0 \/ dead # "no"

\* A stored chunk is found by the next lookup of its world: the storage that has
\* it has the whole world.  Only an AddWorld that is under way, or one that was
\* interrupted (then for good), hides it behind an unreadable level.dat.
StoredIsFound ==
    \A c \in Chunks, s \in Storages :
        <<c, s>> \in stored =>
            \/ world[s] = "whole"
            \/ Interrupted
            \/ \E a \in Actors : work[a].at = "level" /\ work[a].s = s

\* A chunk the code does refuse: a dimension that a directory does not know, or
\* a chunk posted to a database.
Refused(c) ==
    \/ DimOf[c] \notin KnownDims /\ \E s \in Homes : s \in Files
    \/ c \in Posted /\ \E s \in Homes : s \notin Files

\* While nothing fails, is reinitialised or is killed, a chunk is lost only if it
\* is refused, if two requests made its world or dimension at one time, or if no
\* storage that may be chosen did open.
LossHasACause ==
    \A c \in Chunks :
        fate[c] = "lost" =>
            \/ Interrupted \/ reinits > 0
            \/ Refused(c) \/ overlapped
            \/ \A s \in Choice : driver[s] = 0

\* The storages outlive whoever uses them: the process dies of a call through a
\* closed driver only if one was reinitialised, or in a tile goroutine that has
\* outlived its session and the shutdown.  And an orderly end finds no chunk in
\* anybody's hands: it drops those in chunkChannel and no other.
DeathsNamed ==
    /\ dead = "save" => reinits > 0
    /\ dead = "tiles" => reinits > 0 \/ main = "storages"
    /\ main = "storages" => \A c \in Chunks : fate[c] \notin {"sending", "held"}

Outcome(c) ==
    IF fate[c] \in {"sending", "queued", "held"} THEN "moving" ELSE fate[c]

Fate == INSTANCE ChunkFate WITH
            Chunks   <- Chunks,
            Storages <- Storages,
            fate     <- [c \in Chunks |-> Outcome(c)],
            copies   <- stored

\* The pipeline keeps the promise of ChunkFate: whatever the interleaving, the
\* failures and the restarts, a chunk is concluded once and for good, and is
\* written only when it is concluded.
KeepsFate == Fate!Spec

Hung(a) == work[a].at = "hung"

\* A chunk the proxy or a handler holds is concluded, unless the storage forgot
\* the call of its handler, or of the consumer and with it every later chunk, or
\* never closes, while chunkChannel holds chunks the consumer has left behind.
Concluded ==
    \A c \in Chunks :
        Outcome(c) = "moving" ~>
            \/ Outcome(c) # "moving"
            \/ Hung(Consumer) \/ (c \in Posted /\ Hung(c))
            \/ quit = "gone" /\ "storages" \in blocked

\* Once interrupted the process ends, unless the consumer hangs in a storage
\* (then the proxy cannot hand over its chunks, or the consumer is waited for),
\* or main waits forever: for a web server whose token a session took, a client
\* or a session that stays, a wedged cache or a wedged storage.
ProcessEnds ==
    main # "run" ~> dead # "no" \/ Hung(Consumer) \/ [](main \in blocked)
=============================================================================
