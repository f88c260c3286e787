------------------------------ MODULE WsSession ------------------------------
(***************************************************************************)
(* Websocket sessions, the event router and the part of the shutdown they  *)
(* take part in: src/ws.go, src/eventRouter.go, src/web.go (runWeb),       *)
(* src/bgroutine.go and src/main.go.                                       *)
(*                                                                         *)
(* A session is a handler goroutine with a writer, a reader and one        *)
(* goroutine per tile the client asks for.  They share four channels: wQ   *)
(* (to the writer), rQ (from the reader), eQ (errors of both) and e (events *)
(* of the router).  On shutdown main stops the web server, waits for the   *)
(* sessions it has counted and then stops the router.  The exit channel of *)
(* the web server is also the one every session listens to, and main puts  *)
(* a single token into it.                                                 *)
(*                                                                         *)
(* Messages are abstracted to "data" and "close".  Which tiles a client is *)
(* subscribed to is left out: nothing is ever sent for a subscription but  *)
(* the one answer its request starts.                                      *)
(***************************************************************************)
EXTENDS Naturals, Sequences, FiniteSets

CONSTANTS
    Sessions,    \* websocket connections, each made once
    Requestors,  \* names for a session's tile goroutines (bound)
    WQCap,       \* capacity of wQ
    RQCap,       \* capacity of rQ
    EQCap,       \* capacity of eQ
    ConnCap      \* capacity of the router's connect and disconnect channels

ASSUME CapsPositive == {WQCap, RQCap, EQCap, ConnCap} \subseteq Nat \ {0}

\* One error of the writer and one of the reader: make(chan error, 2).
ASSUME BothErrorsFit == EQCap >= 2

VARIABLES
    sess,         \* the state of each session, see New
    connects, disconnects,  \* the router's channels
    clients,      \* the router's map
    router,       \* the router goroutine
    main, web,    \* what main and runWeb do
    webExit, routerExit,    \* tokens in the exit channels of both
    crashed,      \* why the process died, or "no"
    late,         \* history: sessions counted after main had waited for them
    overtaken     \* history: disconnects received before their connect

routerVars == <<connects, disconnects, clients, router, overtaken>>
mainVars   == <<main, web, webExit, routerExit>>
vars == <<sess, routerVars, mainVars, crashed, late>>

\* handler, writer, reader and tiles are what the session's goroutines do; e,
\* rQ and eQ count what is in these channels; conn is open, gone (the peer has
\* left) or closed by the server.
New == [handler |-> "none", writer |-> "none", reader |-> "none",
        tiles |-> [q \in Requestors |-> "none"],
        wQ |-> <<>>, wClosed |-> FALSE, rQ |-> 0, eQ |-> 0,
        e |-> 0, eClosed |-> FALSE, conn |-> "open"]

Init ==
    /\ sess = [s \in Sessions |-> New]
    /\ connects = <<>> /\ disconnects = <<>>
    /\ clients = {} /\ router = "run"
    /\ main = "run" /\ web = "serve"
    /\ webExit = 0 /\ routerExit = 0
    /\ crashed = "no"
    /\ late = {} /\ overtaken = {}

Alive == crashed = "no"

Crash(why) == crashed' = why /\ UNCHANGED <<sess, routerVars, mainVars, late>>

\* Session s becomes x.
Becomes(s, x) == sess' = [sess EXCEPT ![s] = x]

\* A step that stays within the session.
Local(s, x) == Becomes(s, x) /\ UNCHANGED <<routerVars, mainVars, crashed, late>>

-----------------------------------------------------------------------------
(* The handler *)

At(s, where) == Alive /\ sess[s].handler = where

\* Upgrade: the server accepts no connection once it is shut down, but a
\* request it has accepted before may still be upgraded.
Upgrade(s) ==
    /\ At(s, "none")
    /\ web \in {"serve", "stopping"}
    /\ Local(s, [sess[s] EXCEPT !.handler = "upgraded"])

\* wsClients.Add(1): Shutdown no longer waits for an upgraded connection.
Count(s) ==
    /\ At(s, "upgraded")
    /\ Becomes(s, [sess[s] EXCEPT !.handler = "connect"])
    /\ late' = IF main \in {"router", "done"} THEN late \cup {s} ELSE late
    /\ UNCHANGED <<routerVars, mainVars, crashed>>

\* globalEventRouter.Connect()
Connect(s) ==
    /\ At(s, "connect")
    /\ Len(connects) < ConnCap
    /\ connects' = Append(connects, s)
    /\ Becomes(s, [sess[s] EXCEPT !.handler = "hello"])
    /\ UNCHANGED <<disconnects, clients, router, overtaken, mainVars, crashed, late>>

\* Two events of its own into e, then the writer and the reader are started.
Hello(s) ==
    /\ At(s, "hello")
    /\ ~sess[s].eClosed
    /\ Local(s, [sess[s] EXCEPT !.e = 2, !.writer = "idle",
                                !.reader = "reading", !.handler = "loop"])

\* Send on a closed channel: the web server recovers the panic of a handler,
\* after the handler's deferred calls.
HelloPanics(s) ==
    /\ At(s, "hello")
    /\ sess[s].eClosed
    /\ Local(s, [sess[s] EXCEPT !.handler = "disconnect"])

\* case t := <-pingTicker.C
Ping(s) == At(s, "loop") /\ Local(s, [sess[s] EXCEPT !.handler = "send"])

\* case m := <-e: a closed channel yields empty events without end.
Relay(s) ==
    /\ At(s, "loop")
    /\ sess[s].e > 0 \/ sess[s].eClosed
    /\ Local(s, [sess[s] EXCEPT !.e = IF @ > 0 THEN @ - 1 ELSE 0, !.handler = "send"])

\* wQ <- m, blocking while the queue is full, and what the sender does next.
Put(s, m, x) ==
    /\ Len(sess[s].wQ) < WQCap
    /\ Local(s, [x EXCEPT !.wQ = Append(@, m)])

\* A ping or an event; the two messages of a session that was told to stop.
SendOwn(s) ==
    \/ At(s, "send")  /\ Put(s, "data", [sess[s] EXCEPT !.handler = "loop"])
    \/ At(s, "bye")   /\ Put(s, "data", [sess[s] EXCEPT !.handler = "close"])
    \/ At(s, "close") /\ Put(s, "close", [sess[s] EXCEPT !.handler = "wait"])

\* case err := <-eQ, and what it leaves: close(wQ), c.Close().
EndedQueueOpen(x) ==                             \* mutant: wQ is not closed
    [x EXCEPT !.eQ = @ - 1, !.conn = "closed", !.handler = "wait"]
Ended(x) ==
    [x EXCEPT !.eQ = @ - 1, !.conn = "closed", !.handler = "wait", !.wClosed = TRUE]

GetError(s) == At(s, "loop") /\ sess[s].eQ > 0 /\ Local(s, Ended(sess[s]))

\* case <-exitchan
GetExit(s) ==
    /\ At(s, "loop")
    /\ webExit > 0 /\ webExit' = webExit - 1
    /\ Becomes(s, [sess[s] EXCEPT !.handler = "bye"])
    /\ UNCHANGED <<routerVars, main, web, routerExit, crashed, late>>

\* case m := <-rQ: a subscription starts one tile goroutine, a change of world
\* one for every subscribed tile, anything else none.
Message(s, Q) ==
    /\ At(s, "loop")
    /\ sess[s].rQ > 0
    /\ \A q \in Q : sess[s].tiles[q] = "none"
    /\ Local(s, [sess[s] EXCEPT
                   !.rQ = @ - 1,
                   !.tiles = [q \in Requestors |-> IF q \in Q THEN "get" ELSE @[q]]])

\* wg.Wait(): for the writer; the reader is not waited for.
Waited(s) ==
    /\ At(s, "wait")
    /\ sess[s].writer = "exited"
    /\ Local(s, [sess[s] EXCEPT !.handler = "disconnect"])

\* The deferred calls: Disconnect, c.Close(), wsClients.Done().
Leave(s) ==
    /\ At(s, "disconnect")
    /\ Len(disconnects) < ConnCap
    /\ disconnects' = Append(disconnects, s)
    /\ Becomes(s, [sess[s] EXCEPT !.conn = "closed", !.handler = "done"])
    /\ UNCHANGED <<connects, clients, router, overtaken, mainVars, crashed, late>>

-----------------------------------------------------------------------------
(* The other goroutines of a session *)

Writing(s, what) == Alive /\ sess[s].writer = what
Reading(s, what) == Alive /\ sess[s].reader = what
Tiling(s, q, what) == Alive /\ sess[s].tiles[q] = what

\* asyncWriter: for m := range q, which ends when q is closed and empty.
WriterTake(s) ==
    /\ Writing(s, "idle")
    /\ sess[s].wQ # <<>>
    /\ Local(s, [sess[s] EXCEPT !.writer = Head(sess[s].wQ), !.wQ = Tail(@)])

WriterEnds(s) ==
    /\ Writing(s, "idle")
    /\ sess[s].wQ = <<>> /\ sess[s].wClosed
    /\ Local(s, [sess[s] EXCEPT !.writer = "exited"])

\* WriteMessage succeeds, which it may even after the peer has left; after a
\* close message the writer closes the connection and returns.
WriterWrites(s) ==
    /\ sess[s].conn # "closed"
    /\ \/ Writing(s, "data")  /\ Local(s, [sess[s] EXCEPT !.writer = "idle"])
       \/ Writing(s, "close") /\ Local(s, [sess[s] EXCEPT !.writer = "exited", !.conn = "closed"])

WriterFails(s) ==
    /\ Writing(s, "data") \/ Writing(s, "close")
    /\ sess[s].conn # "open"
    /\ Local(s, [sess[s] EXCEPT !.writer = "report"])

\* e <- err, blocking while the queue is full, and what the sender does next.
Report(s, x) == sess[s].eQ < EQCap /\ Local(s, [x EXCEPT !.eQ = @ + 1])

WriterGoesOn(s) ==                               \* mutant: no return
    Writing(s, "report") /\ Report(s, [sess[s] EXCEPT !.writer = "idle"])
WriterReports(s) ==
    Writing(s, "report") /\ Report(s, [sess[s] EXCEPT !.writer = "exited"])

\* asyncReader: ReadMessage returns a message, and q <- m.
ReaderReads(s) ==
    /\ Reading(s, "reading")
    /\ sess[s].conn = "open"
    /\ Local(s, [sess[s] EXCEPT !.reader = "push"])

ReaderPushes(s) ==
    /\ Reading(s, "push")
    /\ sess[s].rQ < RQCap
    /\ Local(s, [sess[s] EXCEPT !.rQ = @ + 1, !.reader = "reading"])

\* ReadMessage fails; a close message of the peer is one of the failures.
ReaderFails(s) ==
    /\ Reading(s, "reading")
    /\ sess[s].conn # "open"
    /\ Local(s, [sess[s] EXCEPT !.reader = "report"])

ReaderGoesOn(s) ==                               \* mutant: no return
    Reading(s, "report") /\ Report(s, [sess[s] EXCEPT !.reader = "reading"])
ReaderReports(s) ==
    Reading(s, "report") /\ Report(s, [sess[s] EXCEPT !.reader = "exited"])

\* asyncTileRequestor, imageGetSync returned: an error goes straight to wQ, an
\* image only if the queue was not closed yet.
TileReady(s, q) ==
    /\ Tiling(s, q, "get")
    /\ \/ Local(s, [sess[s] EXCEPT !.tiles[q] = "send"])
       \/ sess[s].wClosed /\ Local(s, [sess[s] EXCEPT !.tiles[q] = "none"])

TileSends(s, q) ==
    /\ Tiling(s, q, "send")
    /\ ~sess[s].wClosed
    /\ Put(s, "data", [sess[s] EXCEPT !.tiles[q] = "none"])

\* Send on a closed channel, also of a sender that was blocked on it: nothing
\* recovers the panic of a goroutine of its own, and the process dies.
TilePanics(s, q) == Tiling(s, q, "send") /\ sess[s].wClosed /\ Crash("tile")

\* The peer closes the connection, or it breaks.
PeerLeaves(s) ==
    /\ Alive
    /\ sess[s].handler # "none" /\ sess[s].conn = "open"
    /\ Local(s, [sess[s] EXCEPT !.conn = "gone"])

-----------------------------------------------------------------------------
(* The event router: mapEventRouter.Run; nothing in src/ broadcasts *)

Routing == Alive /\ router = "run"

RouterConnect ==
    /\ Routing
    /\ connects # <<>>
    /\ clients' = clients \cup {Head(connects)}
    /\ connects' = Tail(connects)
    /\ UNCHANGED <<sess, disconnects, router, overtaken, mainVars, crashed, late>>

\* delete(clients, c)
ClientsKept(s) == clients                        \* mutant: the client stays
ClientsWithout(s) == clients \ {s}

\* select may take a disconnect before the connect that was sent earlier.
RouterDisconnect ==
    LET s == Head(disconnects)
    IN  /\ Routing
        /\ disconnects # <<>>
        /\ clients' = ClientsWithout(s)
        /\ Becomes(s, [sess[s] EXCEPT !.eClosed = TRUE])
        /\ overtaken' = IF s \in clients THEN overtaken ELSE overtaken \cup {s}
        /\ disconnects' = Tail(disconnects)
        /\ UNCHANGED <<connects, router, mainVars, crashed, late>>

\* case <-exitchan: close every client's channel and return, unless one of them
\* is closed already.
AfterExitStays == "run"                          \* mutant: the loop goes on
AfterExit == "exited"

RouterExit ==
    /\ Routing
    /\ routerExit > 0 /\ routerExit' = routerExit - 1
    /\ \A s \in clients : ~sess[s].eClosed
    /\ sess' = [s \in Sessions |-> [sess[s] EXCEPT !.eClosed = @ \/ s \in clients]]
    /\ router' = AfterExit
    /\ UNCHANGED <<connects, disconnects, clients, overtaken, main, web,
                   webExit, crashed, late>>

RouterPanics ==
    /\ Routing
    /\ routerExit > 0
    /\ \E s \in clients : sess[s].eClosed
    /\ Crash("router")

-----------------------------------------------------------------------------
(* main and runWeb *)

MainAt(where) == Alive /\ main = where

UnchangedByMain == UNCHANGED <<sess, routerVars, crashed, late>>

\* bgsWeb(): closechan <- struct{}{}, then wait for runWeb.
StopWeb ==
    /\ MainAt("run")
    /\ main' = "web" /\ webExit' = 1
    /\ UNCHANGED <<web, routerExit>> /\ UnchangedByMain

WebStopped ==
    /\ MainAt("web")
    /\ web = "done"
    /\ main' = "clients"
    /\ UNCHANGED <<web, webExit, routerExit>> /\ UnchangedByMain

Counted == {s \in Sessions : sess[s].handler \notin {"none", "upgraded", "done"}}

\* The sessions wsClients.Wait() waits for.
NobodyWaitedFor == {}                            \* mutant: no wsClients.Wait()
WaitedFor == Counted

\* wsClients.Wait() returns; main then stops the proxy, the cache, the consumer
\* and the templates, and asks the router to exit.
ClientsDropped ==
    /\ MainAt("clients")
    /\ WaitedFor = {}
    /\ main' = "router" /\ routerExit' = 1
    /\ UNCHANGED <<web, webExit>> /\ UnchangedByMain

RouterStopped ==
    /\ MainAt("router")
    /\ router = "exited"
    /\ main' = "done"
    /\ UNCHANGED <<web, webExit, routerExit>> /\ UnchangedByMain

\* runWeb: <-exitchan, then Shutdown; requests under way for over five seconds
\* end the process by log.Fatalf.
WebExits ==
    /\ Alive /\ web = "serve"
    /\ webExit > 0
    /\ web' = "stopping" /\ webExit' = webExit - 1
    /\ UNCHANGED <<main, routerExit>> /\ UnchangedByMain

WebDone ==
    /\ Alive /\ web = "stopping"
    /\ web' = "done"
    /\ UNCHANGED <<main, webExit, routerExit>> /\ UnchangedByMain

WebFatal == Alive /\ web = "stopping" /\ Crash("fatal")

-----------------------------------------------------------------------------
AnyMessage(s) == \E Q \in SUBSET Requestors : Message(s, Q)

Handler(s) ==
    \/ Count(s) \/ Connect(s) \/ Hello(s) \/ HelloPanics(s)
    \/ Relay(s) \/ SendOwn(s) \/ GetError(s) \/ GetExit(s) \/ AnyMessage(s)
    \/ Waited(s) \/ Leave(s)

Writer(s) ==
    \/ WriterTake(s) \/ WriterEnds(s) \/ WriterWrites(s) \/ WriterFails(s)
    \/ WriterReports(s)

Reader(s) == ReaderPushes(s) \/ ReaderFails(s) \/ ReaderReports(s)

Tile(s, q) == TileReady(s, q) \/ TileSends(s, q) \/ TilePanics(s, q)

Router == RouterConnect \/ RouterDisconnect \/ RouterExit \/ RouterPanics

Main == WebStopped \/ ClientsDropped \/ RouterStopped

Web == WebExits \/ WebDone \/ WebFatal

Next ==
    \/ \E s \in Sessions :
          \/ Upgrade(s) \/ PeerLeaves(s) \/ Ping(s) \/ ReaderReads(s)
          \/ Handler(s) \/ Writer(s) \/ Reader(s)
          \/ \E q \in Requestors : Tile(s, q)
    \/ Router \/ Main \/ Web \/ StopWeb

Spec == Init /\ [][Next]_vars

(* The Go scheduler runs every goroutine that can run.  select picks among  *)
(* its ready cases at random, so a case that is ready time and again is     *)
(* taken, and senders blocked on a channel are served first come first      *)
(* served: hence strong fairness for those.  A write ends, one way or the   *)
(* other.  Peers, tile images and the operator owe nothing.  The router's   *)
(* cases, main and the web server take finitely many steps, so one          *)
(* condition stands for each of theirs.                                     *)
Fairness ==
    /\ \A s \in Sessions :
          /\ WF_vars(Handler(s)) /\ WF_vars(Writer(s)) /\ WF_vars(Reader(s))
          /\ SF_vars(GetError(s)) /\ SF_vars(SendOwn(s)) /\ SF_vars(AnyMessage(s))
    /\ WF_vars(RouterConnect \/ RouterDisconnect \/ Main \/ Web)
    /\ SF_vars(RouterExit \/ RouterPanics)

FairSpec == Spec /\ Fairness

-----------------------------------------------------------------------------
(* Properties *)

SessionType ==
    [handler : {"none", "upgraded", "connect", "hello", "loop", "send", "bye",
                "close", "wait", "disconnect", "done"},
     writer : {"none", "idle", "data", "close", "report", "exited"},
     reader : {"none", "reading", "push", "report", "exited"},
     tiles : [Requestors -> {"none", "get", "send"}],
     wQ : Seq({"data", "close"}), wClosed : BOOLEAN,
     rQ : 0..RQCap, eQ : 0..EQCap, e : 0..2, eClosed : BOOLEAN,
     conn : {"open", "gone", "closed"}]

\* TypeOK: the shape of every variable, and the capacities of the channels.
TypeOK ==
    /\ sess \in [Sessions -> SessionType]
    /\ \A s \in Sessions : Len(sess[s].wQ) <= WQCap
    /\ connects \in Seq(Sessions) /\ Len(connects) <= ConnCap
    /\ disconnects \in Seq(Sessions) /\ Len(disconnects) <= ConnCap
    /\ clients \in SUBSET Sessions
    /\ router \in {"run", "exited"}
    /\ main \in {"run", "web", "clients", "router", "done"}
    /\ web \in {"serve", "stopping", "done"}
    /\ webExit \in 0..1 /\ routerExit \in 0..1
    /\ crashed \in {"no", "tile", "router", "fatal"}
    /\ late \in SUBSET Sessions /\ overtaken \in SUBSET Sessions

\* The type invariant, and: neither the writer nor the reader ever waits to report its error, although
\* the handler may have left its loop for good: each reports at most once
\* (ws.go:96, 288, 302), and the handler waits for the writer.
ErrorsNeverBlock ==
    /\ TypeOK
    /\ \A s \in Sessions :
          "report" \in {sess[s].writer, sess[s].reader} => sess[s].eQ < EQCap

\* A handler never reads from, or sends to, an events channel the router has
\* closed, unless it was counted only after main had waited for the sessions
\* (ws.go:76 comes after the upgrade; main.go:114, eventRouter.go:36).
EventsOpenWhileUsed ==
    \A s \in Sessions \ late : sess[s].eClosed => sess[s].handler = "done"

\* The router closes no channel twice, unless it received a session's
\* disconnect before its connect and so keeps a session that has left
\* (eventRouter.go:39-43).
RouterForgetsLeavers ==
    /\ \A s \in clients \ overtaken : ~sess[s].eClosed \/ router = "exited"
    /\ crashed = "router" => overtaken # {}

\* The handler waits for room in a queue whose writer has gone: the error that
\* would end it is never read.  Or the router has gone, and its queues are full.
Stuck(s) ==
    \/ /\ sess[s].handler \in {"send", "bye", "close"}
       /\ Len(sess[s].wQ) = WQCap
       /\ sess[s].writer \in {"report", "exited"}
    \/ /\ router = "exited"
       /\ \/ sess[s].handler = "connect" /\ Len(connects) = ConnCap
          \/ sess[s].handler = "disconnect" /\ Len(disconnects) = ConnCap

\* A session whose connection is lost ends, unless its handler is stuck or the
\* process dies.
SessionEnds ==
    \A s \in Sessions :
        sess[s].conn # "open" ~> sess[s].handler = "done" \/ Stuck(s) \/ ~Alive

\* The reader of a lost connection ends, unless it has read more messages than
\* a handler that has left its loop, or is stuck, will take: nobody waits for
\* it (ws.go:107-110), and it stays blocked for good.
ReaderEnds ==
    \A s \in Sessions :
        sess[s].conn # "open" /\ sess[s].reader # "none" ~>
            \/ sess[s].reader = "exited" \/ ~Alive
            \/ /\ sess[s].reader = "push" /\ sess[s].rQ = RQCap
               /\ \/ sess[s].handler \in {"bye", "close", "wait", "disconnect", "done"}
                  \/ Stuck(s)

\* The token main sent to the web server was taken by a session.
TokenTaken == main = "web" /\ web = "serve" /\ webExit = 0

\* Shutdown gets to the end, unless a session takes the web server's token,
\* main waits for a client that stays (nobody tells it to go) or is stuck, or
\* the process dies.
ShutdownCompletes ==
    main # "run" ~> \/ main = "done"
                    \/ TokenTaken
                    \/ main = "clients" /\ \E s \in Counted : sess[s].conn = "open" \/ Stuck(s)
                    \/ ~Alive
=============================================================================
