# Formal verification of WebChunk

TLA+ specifications of the WebChunk server (`src/`), the TLC configurations
that check them on small instances, and TLAPS proofs of what holds for every
instance.  Module and operator names follow the Go code; every definition that
models code has the lines it stands for in `PROJECT.json` ("map").

To run: `tlc -config <Run>.cfg <Module>` for a row of the table of runs below,
`tlapm <Module>.tla` for each of the eight modules whose name ends in `Proofs`.

## 1. The system

WebChunk collects chunks of block-game worlds from proxied players (or over
HTTP), stores them, draws them and serves the tiles to browsers.  A chunk goes
from the proxy's sessions over `chunkChannel` to the consumer, and through it
into a storage; a tile goes from a storage through the image cache and a
websocket session to the map page.

| Part (source) | State it keeps | Operations | Talks to | What is hard |
|---|---|---|---|---|
| Image cache (`imageCache/`) | entries by tile, gets waiting for a load, image files | get, set, autosave, unload, shutdown | I/O workers over two bounded channels; callers over a task channel | loads and sets in any order, failing loads, saving while workers read, full channels, shutdown |
| Filesystem chunk storage (`chunkStorage/filesystemChunkStorage/region.go`, `filesystemChunkStorage.go`) | table of open regions, one worker each, region files | add, get and date of a chunk, ranges and counts, idle closing, `Close` | callers over `s.requests`, workers over one channel per region | closing while requests are under way, failing files, workers that ask their router to close them |
| World, dimension and level files (`world.go`, `dimension.go`, `level.go`) | directories and JSON/NBT files | list, add, get, set | called directly | read-modify-write of files without a lock |
| Postgres storage (`postgresChunkStorage/`) | a database | the same interface in SQL | called directly | delegated to the database |
| Storage registry (`storages.go`, `chunkStorage/storage.go`, `api.go`) | map of named storages | look up a world's storage, add, reinitialise, close | read by everybody, locked by some | changing a storage while it is in use |
| Chunk consumer (`chunkConsumer.go`) | none of its own | world and dimension creation, save, render, cache | proxy over `chunkChannel`; storages; cache | partial failure, what is lost at shutdown, a world that two make at one time |
| Proxy (`proxy/`) | per session: three queues, the player's dimension and the dimensions with known heights | forwarding both ways, collecting chunks, closing | consumer over `chunkChannel` | five goroutines per session that close each other's channels; an acceptor that lags behind |
| Websocket sessions and event router (`ws.go`, `eventRouter.go`) | per session four channels; the router's map of clients | relay, ping, tile requests, disconnect | router, image cache, the web server's exit channel | who closes what, full queues, shutdown |
| Map page (`templates/view.gohtml`, `static/leaflet`, `static/leaflet-plugins/Control.Loading`) | one image per tile of a layer, the selected world and dimension | pan, zoom, reload, switch layers, select | the session, over one websocket | tiles made and dropped by events, frames and timers while answers are on their way |
| Web server, API (`web.go`, `api.go`, ...) | none of its own | HTTP handlers | storages, cache | a shutdown with a deadline |
| Start-up and shutdown (`main.go`, `bgroutine.go`) | one exit channel per routine | start, stop in order | every routine | a token per routine, an order each routine depends on |
| Renderers (`terrain.go`, `heightmap.go`, `render/`, `image.go`, `scaleimage.go`) | none | chunk to image, tile composition | storages, cache | arithmetic of tile positions |
| NBT walker (`lib/nbtwalk`) | none | walk | - | bounds |
| Tools (`cmd/`, `importer/`, `tools/`, `colorgen/`, `_viewer/`) | per run | offline work | files | worker pools that lose count of their work |

What makes each of them correct, in a sentence:

- **Image cache**: every request is concluded at most once and, short of named
  failures, at least once; a get sees only images drawn on its tile; an image
  that was set is in memory or in its file until a newer one is; cancelling the
  context stops it.
- **Chunk storage**: every call has one owner until it is answered; a region
  file has one user; short of named failures an answer of "no chunk" or "stored"
  is true; `Close` ends.
- **Websocket sessions**: nobody sends on a channel another has closed; a lost
  connection ends its session; shutdown gets past them.
- **Consumer**: a chunk is concluded once, as kept or as lost, and without
  failures it is lost only for one of the reasons the code gives; what is stored
  is found again.
- **Proxy**: a chunk is saved under the dimension it came from; what was
  collected and can be placed is saved; a session's goroutines all end.
- **Registry, start-up and shutdown**: a world has one storage; a storage is not
  used through its closed driver; the shutdown gets to its end.
- **Map page**: the session is subscribed to the tiles the page has, at the place
  it shows; every tile gets its picture, and the loading indicator goes off.

## 2. The modules

| Module | Models | State | Actions |
|---|---|---|---|
| `TileStore` | what callers of the image cache may rely on | `req`, `status`, `reply` of each request | `Request`, `Reply`, `Conclude` |
| `ImageCache` | `imageCache/cache.go`, `imageCache/io.go` | the maps `cache` and `cacheReturn`, the channels `tasks`, `ioTasks`, `ioReturn`, the workers, the image files, the processor's place in its loop | one per case of the processor's `select` and per path of its handlers (`GetHit`, `GetWait`, `GetNativeMiss`, `SetApplied`, `ReturnLoaded`, ...), the steps of `processSave`, the steps of an I/O worker |
| `ImageCacheProofs`, `ImageCachePromiseProofs` | theorems about `ImageCache`; the second, that it implements `TileStore` | | |
| `RegionStorage` | `region.go`, `filesystemChunkStorage.go` | `s.requests`, the router and its table, the workers with their channels, files and their chunks, those that cannot be read among them | the calls up to their send, the router's cases, the worker's paths through opening, serving, failing and draining, the ticker, `Close` |
| `WsSession` | `ws.go`, `eventRouter.go`, `runWeb`, the closing part of `main` | a record per session (handler, writer, reader, tile goroutines, queues), the router's channels and map, the exit tokens | the handler's cases, writer, reader, tile goroutines, router, `main`, `runWeb` |
| `ChunkFate` | what the sender of a chunk may rely on | `fate` of each chunk, `copies` in the storages | `Begin`, `Conclude`, `Halt` |
| `ChunkPipeline` | `chunkConsumer.go`, the add-chunk, add-world and reinit handlers, `storages.go`, `chunkStorage/storage.go`, worlds and dimensions of both drivers, the order in `main.go` | `chunkChannel`, what each actor (consumer, handler, tile goroutine) is at, the storages' worlds, dimensions and chunks, the map of drivers and its lock, the cache's pointer, `main`'s place and what keeps it there | sending and taking a chunk, each call of the consumer and the handlers with its outcomes, reinitialisation in two steps, one step per thing `main` waits for, what makes it wait, `Kill` and `Restart` |
| `ChunkPipelineProofs`, `ChunkLossProofs` | theorems about `ChunkPipeline`; the first, that it implements `ChunkFate` | | |
| `ProxySession` | `AcceptPlayer` and `RunProxy` of `proxy.go`, `packetProcessor.go` | the two connections, the places of the five goroutines, `acceptorChannel`, `connQueue`, `closeChannel`, the acceptor's `currentDim` and `loadedDims` | one per step of each goroutine between two operations on what they share; peers that leave, the context, a consumer that hangs |
| `MapView` | the script of `view.gohtml`, Leaflet's grid layer, the loading control, the subscriptions of `ws.go` | the tiles with their `current`, `loaded` and `active`, the images, the selectors, pending frames and timers, the messages both ways, `subbedTiles` and its goroutines | the user's gestures, Leaflet's callbacks, the page's and the session's message handlers, an answer |
| `RegionStorageProofs`, `WsSessionProofs`, `ProxySessionProofs`, `MapViewProofs` | theorems about these modules | | |
| `MCImageCache`, `MCRegionStorage`, `MCWsSession`, `MCChunkPipeline`, `MCProxySession`, `MCMapView` | instances for TLC | | |

How the models abstract the data:

- An **image** is the request that drew it, or `Old` for what its file held at
  the start; `Torn` is a file between `os.Create` and the end of the encoding.
  A tile's pixels are one value: a set at storage level covers the whole tile,
  and a set of a single chunk (`S = 0`) is stored by the code under a key of its
  own, which no get reads.
- A **scale** is one of four classes, for the code only compares it with 0 and
  with `StorageLevel`.
- A **chunk** is the call that stored it.  Chunk data, compression and the
  region file's sectors are left out; a region file is there or not, each
  operation on it may fail, and a chunk's sector may be one that the worker answers
  nil for although it goes on serving (`damaged`: `ErrTooLarge` with its TODO,
  `ErrNoData`, `ErrSectorNegativeLength`).  It is so from the start, or through a
  write that failed.  Package `region` is external: what it writes without an
  error it is assumed to read.
- **Websocket messages** are "data" or "close" in `WsSession`; `MapView` has the
  three actions of the page and the three kinds of answer.
- **A world**: `ChunkPipeline` follows one, for every lookup names one world and
  the code relates no two.  A call to a storage is one step with the outcomes it
  can have, failures that took effect included; only the filesystem's `AddWorld`
  is two, for a lookup may see what is between.  What happens inside
  `AddChunkRaw` is `RegionStorage`, whose findings come back as outcomes (the
  call may hang, or report a chunk as stored that is not).
- **A packet** of a proxied session is a login, a respawn, a chunk or another,
  with whether it can be scanned.
- **Tiles and views** of the map page are abstract, with the tiles each view
  needs, and which tile lies over which.
- **Time** is left out: tickers may fire whenever their goroutine can take them.
  Where an age guards something it is replaced by what the age stands for
  (`SlowWorkers` in `RegionStorage`: whether a worker may leave a request lying
  for over a minute) or by a free choice (`Unload`).

History variables (`failed`, `lastSet`, `lossy`, `broken`, `written`, `late`,
`overtaken`, `overlapped`, `hidden`, `collected`, `saved`, `garbled`, `hasty`)
record what properties have to name; no guard reads them.

### ImageCache implements TileStore

`KeepsPromise` says that `ImageCache` implements `TileStore` under the
identity mapping of `req`, `status` and `reply`: a request is concluded once,
gets of one tile may be answered together, with an image somebody drew on that
tile at storage level or with nil, and a larger scale only with nil.  Callers
(`imageGetSync` renders the tile when the answer is nil) need no more.  It is
checked and proved.

### ChunkPipeline implements ChunkFate

`Fate == INSTANCE ChunkFate WITH fate <- ..., copies <- stored` maps the stations
of a chunk in the pipeline (on its way to the channel, in it, held by the consumer
or a handler) to "moving".  `KeepsFate` says that every step of the pipeline,
whatever fails, races, kills the process or restarts it, is a step of `ChunkFate`
or changes nothing there: no chunk is concluded twice or revived after a restart,
and a copy appears only when its chunk is concluded.  It is checked and proved.

### How the modules fit together

`RegionStorage` is what `ChunkPipeline` calls `AddChunkRaw` of a directory, and
`TileStore` what its tile goroutines ask first; `ProxySession` is where its chunks
come from, and its consumer that hangs is the `sink` of `ProxySession`.  `MapView`
composes the page with the session's subscriptions, whose queues and end are in
`WsSession`.  What those modules show may never end comes back in `ChunkPipeline`
as the places where `main` can be kept (`blocked`): by a web server whose exit
token a session took and by a connected client (`ShutdownCompletes` of
`WsSession`), by a proxied session (`PlayerSessionEnds`), by a wedged cache
(`OnlyWedgesStop`) and by a storage that does not close (`CloseCompletes`).  They are
separate modules, joined by these stated outcomes, because their product is out of
TLC's reach and each side looks at the other through one channel or call.

## 3. What is checked

| Run | Instance | Distinct states |
|---|---|---|
| `ImageCacheSafety` | 3 requests (gets of every scale that differs, native sets), one tile whose file is whole, missing or torn at the start, 2 I/O workers, task channel of 1, I/O channels of 2, one failing file operation, symmetry | 1.4 M |
| `ImageCacheLiveness` | 2 requests of any kind, I/O channels of 3 | 0.34 M |
| `ImageCacheWedge` | 4 gets, one worker, all channels of 1 | 0.05 M |
| `ImageCacheUnbounded` (violation) | 2 tiles, a limit of one image | stops |
| `RegionSafety` | 3 gets or sets, 2 regions, 3 workers, `s.requests` of 2, worker channels of 1, one failing file operation, one unreadable sector, symmetry of the calls and of the regions with their chunks | 2.2 M |
| `RegionLiveness` | 3 gets or dates, one region, `s.requests` of 1, slow workers | 0.27 M |
| `RegionForgets`, `RegionDropsSets` (violations) | one set and one failing file operation | stops |
| `WsSession` | one session, 2 tile goroutines, room for two errors as in the code, other channels of 1 | 0.17 M |
| `ChunkPipeline` | a directory and a database, chunks of two dimensions (the proxy's and a posted one), one order, one tile goroutine, `chunkChannel` of 1; three scenes of two chunks and one mishap, three of one chunk and two, with and without a preferred storage | 0.24 M |
| `ProxySession` | seven scripts of up to four packets over a dimension the registry lists and one it does not; every queue of 1 | 0.34 M |
| `MapView` | one far tile and two near ones, three views of one tile each, one world with two dimensions, two gestures | 0.45 M |

Why these bounds are enough for the cases that matter:

- Three cache requests give a get that waits, a set that overtakes its load and
  a third request that meets the result; two workers let the loads of one tile
  return in either order.  One failing operation is enough to strand a waiter
  and to tear a file.  The channels of the code hold more, but a full one is
  what matters: `ImageCacheWedge` makes every channel one place deep, and
  `ImageCacheLiveness` makes them so deep that they cannot fill, which separates
  what the code does from what its queues do to it.
- Every region worker is started by a call, so as many worker names as calls
  never run out.  Two regions and three calls give a worker that is closed
  while another is started for its region.  At most `MaxDamaged` sectors are
  unreadable at the start: one in `RegionSafety`, where a get may meet it before and
  after a set has written it; none elsewhere, for what those runs ask does not
  depend on what a get finds.
- A session shares only the router, the exit token and `main` with others; one
  session meets each of them in every order.
- The cache starts over files that are whole, missing or torn, which is all that
  a run before it, stopped or killed anywhere, can leave: nothing else survives
  it.
- `ChunkPipeline` has one storage of each kind, for the two drivers differ and
  the lookup goes through the storages in any order.  A mishap is a failing
  call, a reinitialisation, a kill or a restart, a late tile goroutine, an order, or
  somebody who keeps `main` waiting.  Two of them and one chunk give a kill and a restart, or a
  reinitialisation under a tile goroutine; one of them and two chunks give two
  requests that make one world, and a failure between two chunks.
- With queues of one place every queue of a proxied session fills; the code's
  2048 packets, 20 packets and 5 reports would need scripts as long.  The scripts have a login, a
  respawn, chunks before and after it, packets that do not scan (in part or at
  all), and traffic that only passes.
- Two gestures of the map's user are enough for a tile to be dropped before it is
  ready, for one to be dropped and made again while its answer is due, for a
  zoom with tiles of both zooms alive, and for a change of dimension that
  overtakes answers.  Views that share no tile make every pan drop something.

### Properties, and what they show

The type invariants of `RegionStorage`, `WsSession`, `ProxySession` and `MapView`
are the first conjunct of `OneHome`, `ErrorsNeverBlock`, `SavedUnderItsDimension`
and `SubscriptionsFollowView`.

*Image cache.*  `WaitersHaveIO`: a parked get and a placeholder have a load on
its way, or their key's last load failed (`failed`): `processReturn` leaves both
behind on an error.  `OneHome`: no get is forgotten or queued twice.
`DirtyHoldsLatest` and `SaveWritesLatest`: no late load replaces a newer set, in
memory or on disk.  `SetSurvives`: the last set of a tile is in memory and
unsaved, or in the file, except on the paths `lossy` names: a load that returns
over a set marks it saved (`cache.go:361`), a worker that read a half-written file
removes it after it was completed (`io.go:95`), or a nil placeholder is saved
(`io.go:38`).  `NativeTrafficNeverPanics`: that last one, which panics in the
encoder, needs a get below storage level.  `KeepsPromise` relates the answers to
what `TileStore` promises.  Liveness: `GetAnswered`, `SetReachesDisk`,
`CacheExits` when the channels cannot fill; `OnlyWedgesStop` when they
can: the only ways to stop for good are the two states of `Wedged` (processor
and workers each waiting for room in the other's channel; a worker with a result
that the leaving processor will not read).

*Chunk storage.*  `OneHome`: one owner for every unanswered call.
`OneFileUser`: two workers never both have work on one region file.
`NilMeansNotStored` and `UnwrittenAckMeansMissingOrBroken`: what the router
answers for a region whose worker is gone (nil, which a get takes for "not
stored" and a set for "stored") is wrong only after a failure or for a region
without a file.  One exception has neither: a get is answered nil by a worker in
good order for a sector that was unreadable when the storage was started and has not
been written since; what a set of the run stored is found.  `PanicsOnlyAfterClose`: no channel is closed twice or sent on
after it was closed before `Close()`.  `CallsEnd` and `CloseCompletes`: calls and
`Close` end, unless the storage forgets the call (which it may only for a failure
of the call's region, or for a modification date, whose answer has a type the caller
does not look for: `MayForget`), the process panics, or the router and a failing worker wait for each
other (`Wedged`).

*Chunk pipeline.*  `OneStoragePerWorld`: a world is in one storage, unless two
requests made it at one time (`overlapped`), a storage that has it could not be
asked because its driver is nil (`hidden`), or an order made it, which does not
look for it.  `StoredIsFound`: a stored chunk's world is whole where it is stored,
unless an `AddWorld` was interrupted before it wrote `level.dat`: the half-made
directory then hides the world from every later lookup.  `LossHasACause`: as long
as nothing fails, is reinitialised or killed, a chunk is lost only if it is
refused (a dimension a directory does not know, a chunk posted to a database), in
an overlap, or when no storage that may be chosen did open.  `DeathsNamed`: the
process dies of a closed driver only after a reinitialisation, or in a tile
goroutine that outlives the shutdown; the other ways to die that the code has (a
nil cache before it is up, a nil storage no lookup found, a map read while it is
written) are steps of the model.  And when the storages are closed no session,
handler or consumer holds a chunk: an orderly end drops those that are still in
`chunkChannel`, and no other.  `KeepsFate`: see above.  `Concluded`: a chunk that a
handler or the proxy holds is concluded, unless its caller hangs in a storage that
forgot its call (for `RegionStorage` shows it may), the consumer among them with
everything behind it, or it is left in `chunkChannel` by a process that waits for a
storage to close.  `ProcessEnds`: once interrupted the process ends, unless the
consumer hangs in that way or `main` waits for good: in `bgsWeb()` for a web server
whose token a session took, in `wsClients.Wait()` for a client that stays, in
`bgsProxy()` for a session that does not end, in `bgsImageCache()` for a wedged
cache, or for a storage's `Close`.  Clients may also leave, and then `main` has to go
on.  Handlers that hang do not stop it, for the web server gives up after five
seconds and ends the process.

*Proxied sessions.*  `SavedUnderItsDimension`: however far the acceptor is behind,
a chunk is saved under the dimension the player was in when the server sent it,
unless a login or respawn could not be scanned (`garbled`).  `PlayerSessionEnds`: once a
peer has left or the proxy is stopped all five goroutines end, unless failed
writes have filled `closeChannel` after its one reader went on (`Clogged`), the
consumer takes no chunk (`Stuck`), or a late push on the closed queue killed the
process.  `CollectedIsSaved`: every chunk that reached the acceptor's channel and
is due (`Due`: it scans, its dimension is one the registry of an earlier login lists,
and every login and respawn before it did scan) is handed to the consumer although the
session ends meanwhile, with the same last two exceptions.  The acceptor discards the
chunks that are not due (`packetProcessor.go:80-92`).

*Map page.*  `SubscriptionsFollowView`: once the messages are through, the session
is subscribed to the tiles the layer has at the selected place, whatever was
made, dropped and selected in between.  `WrongPictureHasCause`: at rest a tile
shows the selected place, unless it was asked for while an answer for another
place was due (`overtaken`): the page does not look at the place of an answer.
`IndicatorOffWhenReady`: the loading indicator is off when no tile is waited for,
unless the last one waited for was dropped (`hasty`), which Leaflet announces
with no load event.  `DrawnInTheEnd`: every tile that has a picture gets it.

*Websocket sessions.*  `ErrorsNeverBlock`: the writer and the reader can always
report.  `EventsOpenWhileUsed`: a handler's events channel is not closed under
it, unless the session was counted after `main` had waited (the count comes
after the upgrade).  `RouterForgetsLeavers`: the router closes no channel twice,
unless its `select` took a disconnect before the connect.  `SessionEnds`: a lost
connection ends its session unless the handler waits for room in a queue whose
writer has gone.  `ReaderEnds`: the reader ends too, unless it holds a message
nobody will take.  `ShutdownCompletes`: shutdown completes, unless a session took
the one token meant for the web server, a client stays connected (with the
token gone to the web server, nobody tells it), or the process dies; a tile
goroutine that sends after its session closed the queue is one way to die.

### Fairness

Goroutines that can run do run: weak fairness of the steps of the processor,
the router, the workers, the sessions, the consumer and the handlers, and of
`main` once it was interrupted; in `MapView` of the page's event loop with its
frames, timers and animations.  `select` takes a random ready case, and blocked
senders of a Go channel are served in order, so a send or a case that is possible
again and again is done: strong fairness of `SendClose` in `RegionStorage`, of
`GetError`, `SendOwn` and `AnyMessage` in `WsSession`, and of `Send` in
`ChunkPipeline`.  So it is for `Shutdown` there: a wait group wakes `main` when it
reaches zero, whoever connects afterwards.  Where a kind of step exists for each
of finitely many requests, chunks, tiles or stages of the shutdown and none can be
taken for ever, one condition on `\E` over them stands for a condition on each, and
keeps TLC's work small.
The autosave ticker fires for ever.  Nothing is assumed of
clients, peers, users and their gestures, the unload and idle tickers, file faults
or whoever cancels, interrupts, kills or restarts: they may act or not.

### Disagreements with what the repository says

- `ImageCacheUnbounded`: `docs/config.md:20` documents `max_memory_image_cache`
  as the number of images to cache; no code reads it, and two gets exceed a
  limit of one.
- `RegionForgets`: the comment at `region.go:236-239` says that a failing worker
  responds to all pending requests with an error; the request that failed gets
  no answer at all.
- `RegionDropsSets`: the same comment; a set whose region cannot be opened is
  answered nil, and its caller is told the chunk was stored.

## 4. What is proved

Every safety invariant, safety action property and refinement that a passing run
checks is also a theorem: TLC shows it on the instance of section 3, the theorem
for every value of the constants that the module's assumptions allow (four of
`RegionStorage` under a further condition, stated there).

`ImageCacheProofs` proves, for any requests, tiles, workers, commands and
channel capacities, from the assumptions `ImageCache` declares on its constants
(`CapsPositive`, `FaultsNat`, `CommandsOK`, `Distinct`; TLC evaluates them on
every run):

- `TypeCorrect`: `Spec => []TypeOK`.  `TypeOK` is inductive as it stands because
  its part `ProcTypes` says that the keys still to be saved are dirty; without
  that, a step of `processSave` could not be shown to work on a cached entry.
  One lemma per action (`TypeSubmit`, `TypeGetHit`, ...), each split by the
  parts of `TypeOK` the action can disturb; `Frames` disposes of the others.
- `UnsavedIsLatest`: `Spec => []DirtyHoldsLatest`.  Inductive with `TypeOK`.  The
  argument is in `AfterLoadKept` (a load leaves an unsaved image unsaved and
  unchanged, or saved) and `SetStep`.
- `SavedIsLatest`: `Spec => SaveWritesLatest`, an action property, from
  `UnsavedIsLatest`: only `SaveEncode` writes an image (`DiskWriters`), and it
  writes an unsaved one.
- `NativeTrafficIsSafe`: `Spec => []NativeTrafficNeverPanics`.  Not inductive: it
  follows from the stronger `NilImagesAskedFor`, that an unsaved entry with a
  nil image was asked for below storage level, which `GetSmallerMiss` alone
  creates and no request is ever withdrawn from (`AskedStays`).

`ChunkPipelineProofs` proves, for any chunks, storages, dimensions, orders, scenes
and channel capacity, from `ConstantsOK` and `Apart` (the kinds of request are
disjoint):

- `TypeCorrect`: `Spec => []TypeOK`, as a part of the inductive `IInv` (theorem
  `Invariance`).  `IInv` adds to `TypeOK` three parts: `Stations` (where each kind of
  actor can be, and what it carries there), `Carriers` (a chunk that is held has
  one actor that holds it) and `Queued` (the chunks in `chunkChannel` are the
  queued ones, each once).  The refinement needs them: a call that concludes the
  chunk it carries is a step of `ChunkFate` only if that chunk was moving, and a
  turn of one actor could conclude another's chunk without `Carriers`.
- `Refinement`: `Spec => KeepsFate`, the promise for every step with every outcome.
  `CallTurn` shows that each of the nine calls is a `Turn`: it advances its actor
  with the chunk still held, or closes the chunk.  What preserves `IInv`, and what a
  step of `ChunkFate` is, is then shown for turns and not for calls.
- `DeathsAreNamed`: `Spec => []DeathsNamed`.  Its parts about drivers are inductive with
  `CloseOrder` (a driver that is shut was reinitialised, or the consumer is gone and
  `main` is at its storages).  Its part about chunks needs `HInv`, one fact per wait of
  `main`: past the web server no handler has a chunk, past the proxy no session has
  one, and a consumer that is gone took none along.
- `StoredChunksAreFound`: `Spec => []StoredIsFound`, with `FInv`: while nothing was
  interrupted, a world that is not whole has the actor that is making it
  (`Makers`), and an actor past the lookup has a storage whose world is whole
  (`Based`).

`ImageCachePromiseProofs` goes on from there, with the same assumptions:

- `EveryRequestHasAHome`: `Spec => []OneHome`, inductive with `TypeOK`.
- `NoGetWaitsInVain`: `Spec => []WaitersHaveIO`, inductive with `TypeOK`: whoever
  takes the load of a tile with waiters away answers them, or marks it `failed`.
- `NoSetIsLost`: `Spec => []SetSurvives`, inductive with `UnsavedIsLatest`: only an
  unsaved image is written, and it is the last one set.
- `ImplementsTileStore`: `Spec => KeepsPromise`.  Needs `OneHome`, for an answer
  concludes a request that was still waiting, and `Pictured`: what the cache, the
  files and the loads under way hold was drawn on the tile they belong to, and
  nobody waits for a larger scale.

`RegionStorageProofs`, for any calls, regions, workers, capacities and faults:

- `RequestsHaveOneHome`: `Spec => []OneHome`, from the inductive `IInv` (theorem
  `Invariance`), which adds to the types: `Placed` (where each call is, and in the
  channel of a worker of its own region), `Manned` (a worker that has left has an
  empty, closed channel) and `Entry` (an open entry of the router's table names a
  worker whose channel is open).
- With `~SlowWorkers`: `RegionFilesHaveOneUser`, `ChannelsAreClosedOnce`,
  `StoredChunksAreFound` and `AcknowledgedIsWritten`, for the other four properties
  of `RegionSafety`.  `StoredChunksAreFound` has the exception of its property: a
  sector unreadable from the start; `OInv` shows that the unreadable sectors of a region
  no worker failed on are among those, for a write makes its sector readable.  They follow from `OInv` (theorem `OrderlyInvariance`): a
  worker with work is the one its region's entry names, a region is asked to
  close at most once and by the worker that its entry names, and a region that is
  kept closed has failed or has no file.  The condition is needed, and it is a
  condition on the environment: `region.go:131-148` forgets a region nobody called
  for a minute, whatever its worker does.  With slow workers TLC finds
  `OneFileUser` violated, and `PanicsOnlyAfterClose` too: a second worker is
  started, both ask for the close, and the late close message closes the newer
  worker's channel, which the second one then closes again.

`WsSessionProofs`, for any sessions, requestors and capacities, given that the
error queue holds two (`BothErrorsFit`; `make(chan error, 2)` at `ws.go:96`):

- `ErrorsAreDelivered`: `Spec => []ErrorsNeverBlock`: the errors queued and those
  the writer and the reader may still report are two at most.
- `OpenUntilDone`: `Spec => []EventsOpenWhileUsed`, with `Drained`: the router is
  told to exit only once `main` has waited, and who is counted then came late.
- `LeaversForgotten`: `Spec => []RouterForgetsLeavers`, with `Routed` (a session
  connects once, and its disconnect is the last it does) and `QueuedLeavers`.

`ProxySessionProofs`, for all dimensions, queue capacities and scripts of any
length:

- `ChunksKeepTheirDimension`: `Spec => []SavedUnderItsDimension`.  The invariant
  `Tracked` runs along everything between the server and the acceptor: the
  acceptor's dimension, the packets in its channel and the script to come agree,
  chunk by chunk, on where the player is.  Assumed of scripts is
  `ChunksWherePlayerIs`, which is the protocol's: a server sends chunks of the
  dimension it last put the player in.

`ChunkLossProofs`, with the assumptions of `ChunkPipelineProofs`:

- `AWorldHasOneStorage`: `Spec => []OneStoragePerWorld`.  `WInv`: unless excused, a
  lookup that has not found the world has passed no storage that has it, and who
  adds it knows of none.
- `LossesHaveCauses`: `Spec => []LossHasACause`.  `LInv`: while nothing went wrong,
  who adds a world or a dimension adds it where it is not, nobody looks while
  another makes it, and (by `HInv`) no request is at work when the cache and the
  storages are stopped; so each early return that loses a chunk is one of the named causes.

`MapViewProofs`, for any tiles, views, places and number of gestures, with finite
views; all over `VInv`, by which a tile is created at most once per gesture.  Each
action of the layer is shown to be a `LayerStep`, which drops some tiles and creates
some, and the invariants are shown for these:

- `IndicatorFollowsLoading`: `Spec => []IndicatorOffWhenReady`, with `Awaited`: a tile
  that is not ready has its frame due, and the layer is loading only while there
  is one, or after one was dropped.
- `SessionFollowsPage`: `Spec => []SubscriptionsFollowView`.  What the session
  subscribes to when it takes a message depends on all those before it, so the
  invariant `Followable` is that there is a history, one snapshot of place and
  tiles for each message on its way, that leads from the subscriptions the session
  has to the page as it is, each message being the step between two snapshots.
- `WrongPicturesAreOvertaken`: `Spec => []WrongPictureHasCause`, with `Followed` (who
  is subscribed is in the layer or will be unsubscribed), `Truthful` (an answer has a
  picture if there is one) and `Answered` (a subscription that no answer overtook
  has only its own answer due, and its picture is shown, due, or will be dropped).

Model-checked only: liveness, for it rests on fairness and on ENABLED, which the
prover does not handle: `OnlyWedgesStop`, `CallsEnd`, `CloseCompletes`,
`SessionEnds`, `ReaderEnds`, `ShutdownCompletes`, `PlayerSessionEnds`,
`CollectedIsSaved`, `Concluded`, `ProcessEnds`, `DrawnInTheEnd`,
`GetAnswered`, `SetReachesDisk` and `CacheExits`.  Nothing here is proved by induction over data: where an invariant speaks of a queue it does so
through positions, not through a recursive definition.

## 5. Plan

Done, in this order: `ImageCache` with `TileStore`, `RegionStorage`, `WsSession`,
`ProxySession`, `ChunkPipeline` with `ChunkFate` (and in it the storage registry,
the shutdown and restarts), `MapView`.  Left:

1. The calls of `RegionStorage` that loop over regions or files and collect their
   answers, and `apiStorageAdd`.
2. `RegenPool`: reader, workers and write-back of `cmd/regenHeightmaps`.
3. `TileGeometry` (positions of chunks in regions and tiles, composition of
   smaller tiles) and `NbtWalk`, as functions against reference definitions.

Theorems: every safety property of the runs has one.  Left are those of the
modules above, and what slow workers can still promise of a region file (for
them `OneFileUser` is false, see section 4).

## 6. Not modelled

Pixel and palette computations (`terrain.go`, `heightmap.go`, `scaleimage.go`
apart from tile positions): sequential arithmetic over data.  SQL statements:
the database orders them.  HTML templates, colours, configuration, logging:
formatting, or state nobody else reads.  HTTP handlers that only read.
Credentials: a file per player, refreshed by calls to other services.
Generated tables, third-party scripts and development tools.

In the storages: the calls of `RegionStorage` that fan out over regions.  One of
them, `GetChunksCountRegion`, can be judged without a model: `resGot` stays 0
(`region.go:593`), so it waits for ever.  Aliases, listings and the setters of
metadata: read-modify-write of a file nobody else reads at that time.
`apiStorageAdd` races with a lookup as reinitialisation does.

In the server: `main.go:75` reads `ignore_failed_storages` the other way round
than `docs/config.md` describes it; the start of `ChunkPipeline` allows a
storage that did not open whatever the option says, so no run depends on it.
`apiAddWorld` does not look whether the world exists although `storage.go` calls
its name unique; that is the exception for orders in `OneStoragePerWorld`.

On the page: the vendored Leaflet is there three times (`leaflet-src.js`,
`leaflet-src.esm.js`, the minified `leaflet.js`).  `MapView` has the grid layer,
the map's view and zoom animation and the loading control as the page drives
them; markers, vectors, popups, projections, the DOM layer and the other controls
are a library the page does not use or that keeps no state of the page's.  Hence
the small share of the JavaScript lines that the map of definitions covers.
`script.js` posts two forms and keeps nothing.  Of the page itself are left out
pinching, the loss of the connection (the page does not reconnect) and several
layers at a time (each has its own tiles).  `view.gohtml:239` deletes a removed
tile's image under a key that is never there, so an answer for a removed tile is
drawn on an element nobody sees; the model drops the image with the tile.
