---------------------------- MODULE RegionStorage ----------------------------
(***************************************************************************)
(* The filesystem chunk storage:                                           *)
(* src/chunkStorage/filesystemChunkStorage/region.go and                   *)
(* filesystemChunkStorage.go.                                              *)
(*                                                                         *)
(* Every chunk operation is a message on s.requests.  One router goroutine *)
(* keeps a table of open regions and hands each message to the worker of   *)
(* its region, which it starts on the first message; the worker opens the  *)
(* region file and answers on the result channel of the message.  A worker *)
(* that fails asks the router, on the same s.requests, to close its        *)
(* channel, and answers errors until that happens.  A ticker makes the     *)
(* router close regions nobody asked for lately.                           *)
(*                                                                         *)
(* A chunk's bytes are abstracted to the call that stored them, or Old for *)
(* what the file held at start.                                            *)
(***************************************************************************)
EXTENDS Naturals, Sequences, FiniteSets

CONSTANTS
    Calls,       \* calls the clients may make, each at most once
    Regions,     \* (world, dimension, rx, rz)
    Chunks,      \* chunk positions
    RegionOf,    \* region.At: the region a chunk lies in
    Workers,     \* names for region workers
    ReqCap,      \* capacity of s.requests
    ChanCap,     \* capacity of a worker's channel
    Ops,         \* the operations clients use
    MaxFaults,   \* bound: how many file operations may fail
    MaxDamaged,  \* bound: how many sectors may be unreadable at the start
    SlowWorkers, \* a worker may leave a request lying for over a minute
    Old,         \* a chunk stored before the start
    Nil          \* nil

ASSUME CapsPositive == ReqCap \in Nat \ {0} /\ ChanCap \in Nat \ {0}
ASSUME FaultsNat    == MaxFaults \in Nat /\ MaxDamaged \in Nat
ASSUME OpsOK        == Ops \subseteq {"get", "set", "moddate"}
ASSUME SlowBoolean  == SlowWorkers \in BOOLEAN
ASSUME RegionOfOK   == RegionOf \in [Chunks -> Regions]
ASSUME Distinct     == /\ Old \notin Calls
                       /\ Nil \notin Calls \cup {Old} \cup Regions \cup Chunks \cup Workers
                       /\ {"nil", "error"} \cap (Calls \cup {Old}) = {}

VARIABLES
    call,       \* op and chunk of each call
    status,     \* how far each call got
    result,     \* what the client was answered
    requests,   \* channel of messages to the router
    reqClosed,  \* Close() has closed it
    routing,    \* the call the router is scheduling, or Nil
    router,     \* whether the router goroutine runs
    table,      \* the router's map w: worker (its channel) and exists
    wpc,        \* what each worker does
    wreg,       \* the region it was started for
    wcur,       \* the call it is handling, or Nil
    wchan,      \* its channel
    wclosed,    \* whether the router closed that channel
    file,       \* which region files exist
    data,       \* what is stored at each chunk
    damaged,    \* the chunks whose sector ReadSector cannot make out
    faults,     \* file operations that failed so far
    panicked,   \* the process died: send on or close of a closed channel
    broken,     \* history: regions a worker failed on with a file error
    written     \* history: sets that reached the file

clientVars == <<call, status, result>>
routerVars == <<routing, router, table>>
workerVars == <<wpc, wreg, wcur, wchan, wclosed>>
fileVars   == <<file, data, damaged, written>>
vars == <<clientVars, requests, reqClosed, routerVars, workerVars, fileVars,
          faults, panicked, broken>>

NoCall == [op |-> "none", chunk |-> Nil]
NoEntry == [worker |-> Nil, exists |-> FALSE]
CallMsg(c)  == [op |-> "call", call |-> c, region |-> Nil]
CloseMsg(g) == [op |-> "close", call |-> Nil, region |-> g]
TickMsg     == [op |-> "inactive", call |-> Nil, region |-> Nil]

Present(g) == table[g].worker # Nil

Init ==
    /\ call = [c \in Calls |-> NoCall]
    /\ status = [c \in Calls |-> "new"]
    /\ result = [c \in Calls |-> "none"]
    /\ requests = <<>>
    /\ reqClosed = FALSE
    /\ routing = Nil
    /\ router = "run"
    /\ table = [g \in Regions |-> NoEntry]
    /\ wpc = [w \in Workers |-> "none"]
    /\ wreg = [w \in Workers |-> Nil]
    /\ wcur = [w \in Workers |-> Nil]
    /\ wchan = [w \in Workers |-> <<>>]
    /\ wclosed = [w \in Workers |-> FALSE]
    /\ file \in SUBSET Regions
    /\ data \in {d \in [Chunks -> {Old, Nil}] :
                    \A x \in Chunks : RegionOf[x] \notin file => d[x] = Nil}
    /\ damaged \in {D \in SUBSET Chunks : /\ \A x \in D : data[x] = Old
                                          /\ Cardinality(D) <= MaxDamaged}
    /\ faults = 0
    /\ panicked = FALSE
    /\ broken = {}
    /\ written = {}

-----------------------------------------------------------------------------
(* Clients, the ticker and Close *)

Panic ==
    /\ panicked' = TRUE
    /\ UNCHANGED <<clientVars, requests, reqClosed, routerVars, workerVars,
                   fileVars, faults, broken>>

\* s.requests <- msg, blocking while the channel is full.
Send(msg) == Len(requests) < ReqCap /\ requests' = Append(requests, msg)

\* AddChunkRaw, GetChunkRaw and GetChunkModDate up to the send.
Call(c, op, x) ==
    /\ ~panicked /\ ~reqClosed
    /\ status[c] = "new"
    /\ Send(CallMsg(c))
    /\ call' = [call EXCEPT ![c] = [op |-> op, chunk |-> x]]
    /\ status' = [status EXCEPT ![c] = "sent"]
    /\ UNCHANGED <<result, reqClosed, routerVars, workerVars, fileVars,
                   faults, panicked, broken>>

\* The same on a storage that was closed: send on a closed channel.
CallAfterClose(c) ==
    /\ ~panicked /\ reqClosed
    /\ status[c] = "new"
    /\ Panic

\* case <-autocloseTicker.C, a tick at a time.
Tick ==
    /\ ~panicked /\ ~reqClosed
    /\ \A i \in DOMAIN requests : requests[i] # TickMsg
    /\ Send(TickMsg)
    /\ UNCHANGED <<clientVars, reqClosed, routerVars, workerVars, fileVars,
                   faults, panicked, broken>>

\* The ticker goroutine runs until the router has drained s.requests.
TickAfterClose ==
    /\ ~panicked /\ reqClosed
    /\ router = "run"
    /\ Panic

\* Close(): close(s.requests), then wait for everybody.
Close ==
    /\ ~panicked /\ ~reqClosed
    /\ reqClosed' = TRUE
    /\ UNCHANGED <<clientVars, requests, routerVars, workerVars, fileVars,
                   faults, panicked, broken>>

-----------------------------------------------------------------------------
(* The router *)

Receiving(op) ==
    /\ ~panicked
    /\ router = "run" /\ routing = Nil
    /\ requests # <<>>
    /\ Head(requests).op = op
    /\ requests' = Tail(requests)

\* r.result <- v, and the client returns.  GetChunkModDate takes an error or a
\* time.Time; nil and the timestamp the worker sends leave it waiting.
Answered(c, v) ==
    IF call[c].op = "moddate" /\ v # "error"
    THEN /\ status' = [status EXCEPT ![c] = "forgotten"]
         /\ UNCHANGED <<call, result>>
    ELSE /\ status' = [status EXCEPT ![c] = "done"]
         /\ result' = [result EXCEPT ![c] = v]
         /\ UNCHANGED call

RouteCall ==
    /\ Receiving("call")
    /\ routing' = Head(requests).call
    /\ UNCHANGED <<clientVars, reqClosed, router, table, workerVars,
                   fileVars, faults, panicked, broken>>

Target == RegionOf[call[routing].chunk]

\* A worker name that no goroutine and no table entry uses.
Free(w) == wpc[w] \in {"none", "done"} /\ \A g \in Regions : table[g].worker # w

\* scheduleWorker, no entry: start a worker with this call.  Workers differ by
\* name only, so it does not matter which free one is taken.
StartWorker(w) ==
    /\ ~panicked /\ routing # Nil
    /\ ~Present(Target)
    /\ Free(w) /\ w = CHOOSE v \in Workers : Free(v)
    /\ table' = [table EXCEPT ![Target] = [worker |-> w, exists |-> TRUE]]
    /\ wpc' = [wpc EXCEPT ![w] = "opening"]
    /\ wreg' = [wreg EXCEPT ![w] = Target]
    /\ wcur' = [wcur EXCEPT ![w] = routing]
    /\ wchan' = [wchan EXCEPT ![w] = <<>>]
    /\ wclosed' = [wclosed EXCEPT ![w] = FALSE]
    /\ routing' = Nil
    /\ UNCHANGED <<clientVars, requests, reqClosed, router, fileVars, faults,
                   panicked, broken>>

\* scheduleWorker, open region: c.c <- r, blocking while the channel is full.
PassToWorker ==
    LET w == table[Target].worker
    IN  /\ ~panicked /\ routing # Nil
        /\ Present(Target) /\ table[Target].exists
        /\ Len(wchan[w]) < ChanCap
        /\ wchan' = [wchan EXCEPT ![w] = Append(@, routing)]
        /\ routing' = Nil
        /\ UNCHANGED <<clientVars, requests, reqClosed, router, table, wpc,
                       wreg, wcur, wclosed, fileVars, faults, panicked,
                       broken>>

\* scheduleWorker, closed region: nil, whatever was asked.
AnswerForClosed ==
    /\ ~panicked /\ routing # Nil
    /\ Present(Target) /\ ~table[Target].exists
    /\ Answered(routing, "nil")
    /\ routing' = Nil
    /\ UNCHANGED <<requests, reqClosed, router, table, workerVars, fileVars,
                   faults, panicked, broken>>

\* regionRouterCloseRegion for a region the table does not know: logged.
CloseUnknown ==
    /\ Receiving("close")
    /\ ~Present(Head(requests).region)
    /\ UNCHANGED <<clientVars, reqClosed, routerVars, workerVars, fileVars,
                   faults, panicked, broken>>

ShutForgotten(g) == table                   \* mutant: exists is not cleared
Shut(g) == [table EXCEPT ![g].exists = FALSE]

\* regionRouterCloseRegion: close the channel, keep the entry.
CloseRegion ==
    LET g == Head(requests).region
    IN  /\ Receiving("close")
        /\ Present(g)
        /\ ~wclosed[table[g].worker]
        /\ wclosed' = [wclosed EXCEPT ![table[g].worker] = TRUE]
        /\ table' = Shut(g)
        /\ UNCHANGED <<clientVars, reqClosed, routing, router, wpc, wreg,
                       wcur, wchan, fileVars, faults, panicked, broken>>

\* The same for a channel that is closed already.
CloseRegionTwice ==
    /\ ~panicked /\ router = "run" /\ routing = Nil
    /\ requests # <<>> /\ Head(requests).op = "close"
    /\ Present(Head(requests).region)
    /\ wclosed[table[Head(requests).region].worker]
    /\ Panic

InactiveUnchecked(g) == TRUE       \* mutant: the age is not looked at

\* Unless workers are slow, one that was sent nothing for a minute is done.
Inactive(g) ==
    \/ SlowWorkers
    \/ ~table[g].exists
    \/ LET w == table[g].worker
       IN  wpc[w] = "serving" /\ wcur[w] = Nil /\ wchan[w] = <<>>

\* The worker channels once those of the open regions in S are closed.
NoneClosed(S) == wclosed           \* mutant: the channels are left open
ClosedFor(S) ==
    [w \in Workers |->
        wclosed[w] \/ \E g \in S : table[g].exists /\ table[g].worker = w]

\* regionRouterCloseInactive: close and forget the idle regions.
CloseInactive(S) ==
    /\ Receiving("inactive")
    /\ \A g \in S : Present(g) /\ Inactive(g)
    /\ wclosed' = ClosedFor(S)
    /\ table' = [g \in Regions |-> IF g \in S THEN NoEntry ELSE table[g]]
    /\ UNCHANGED <<clientVars, reqClosed, routing, router, wpc, wreg, wcur,
                   wchan, fileVars, faults, panicked, broken>>

\* The range over s.requests ends: close every open region.
StopRouter ==
    /\ ~panicked
    /\ router = "run" /\ routing = Nil
    /\ reqClosed /\ requests = <<>>
    /\ router' = "stopped"
    /\ wclosed' = ClosedFor(Regions)
    /\ UNCHANGED <<clientVars, requests, reqClosed, routing, table, wpc, wreg,
                   wcur, wchan, fileVars, faults, panicked, broken>>

-----------------------------------------------------------------------------
(* The region workers: regionWorker *)

UnchangedByWorker ==
    UNCHANGED <<reqClosed, routerVars, wreg, wclosed, panicked>>

Fault(g) ==
    /\ faults < MaxFaults
    /\ faults' = faults + 1
    /\ broken' = broken \cup {g}

NoFault == UNCHANGED <<faults, broken>>

\* Mutant: the call stays in the worker's hands.
ProceedKeepsCall(w, next) ==
    wpc' = [wpc EXCEPT ![w] = next] /\ UNCHANGED <<wcur, wchan>>

\* The worker is done with its call and goes on to "next".
Proceed(w, next) ==
    /\ wpc' = [wpc EXCEPT ![w] = next]
    /\ wcur' = [wcur EXCEPT ![w] = Nil]
    /\ UNCHANGED wchan

\* region.Open succeeds, or fails with ErrNotExist for a set and region.Create
\* succeeds.
Open(w) ==
    /\ ~panicked
    /\ wpc[w] = "opening"
    /\ wreg[w] \in file \/ call[wcur[w]].op = "set"
    /\ file' = file \cup {wreg[w]}
    /\ wpc' = [wpc EXCEPT ![w] = "serving"]
    /\ UNCHANGED <<clientVars, requests, wcur, wchan, data, damaged, written>>
    /\ NoFault /\ UnchangedByWorker

\* ErrNotExist for anything but a set: answer nil and ask to be closed.
OpenMissing(w) ==
    /\ ~panicked
    /\ wpc[w] = "opening"
    /\ wreg[w] \notin file /\ call[wcur[w]].op # "set"
    /\ Answered(wcur[w], "nil")
    /\ Proceed(w, "signal")
    /\ UNCHANGED <<requests, fileVars>> /\ NoFault /\ UnchangedByWorker

\* region.Open fails for another reason: nil, even to a set.
OpenFails(w) ==
    /\ ~panicked
    /\ wpc[w] = "opening"
    /\ wreg[w] \in file
    /\ Fault(wreg[w])
    /\ Answered(wcur[w], "nil")
    /\ Proceed(w, "signal")
    /\ UNCHANGED <<requests, fileVars>> /\ UnchangedByWorker

\* region.Create fails: the error.
CreateFails(w) ==
    /\ ~panicked
    /\ wpc[w] = "opening"
    /\ wreg[w] \notin file /\ call[wcur[w]].op = "set"
    /\ Fault(wreg[w])
    /\ Answered(wcur[w], "error")
    /\ Proceed(w, "signal")
    /\ UNCHANGED <<requests, fileVars>> /\ UnchangedByWorker

\* case r, ok := <-ch
Receive(w) ==
    /\ ~panicked
    /\ wpc[w] = "serving" /\ wcur[w] = Nil
    /\ wchan[w] # <<>>
    /\ wcur' = [wcur EXCEPT ![w] = Head(wchan[w])]
    /\ wchan' = [wchan EXCEPT ![w] = Tail(@)]
    /\ UNCHANGED <<clientVars, requests, wpc, fileVars>>
    /\ NoFault /\ UnchangedByWorker

Serving(w, op) ==
    /\ ~panicked
    /\ wpc[w] = "serving" /\ wcur[w] # Nil
    /\ call[wcur[w]].op = op

\* Mutant: the answer is sent although nothing was written.
WriteChunkSkipped(w) ==
    /\ Serving(w, "set")
    /\ Answered(wcur[w], "nil")
    /\ Proceed(w, "serving")
    /\ UNCHANGED <<requests, fileVars>> /\ NoFault /\ UnchangedByWorker

\* processRequest, regionRouterSetChunk: WriteSector, then nil.  What package
\* region (not part of the repository) writes without an error it can read.
WriteChunk(w) ==
    /\ Serving(w, "set")
    /\ data' = [data EXCEPT ![call[wcur[w]].chunk] = wcur[w]]
    /\ damaged' = damaged \ {call[wcur[w]].chunk}
    /\ written' = written \cup {wcur[w]}
    /\ Answered(wcur[w], "nil")
    /\ Proceed(w, "serving")
    /\ UNCHANGED <<requests, file>> /\ NoFault /\ UnchangedByWorker

\* processRequest, regionRouterGetChunk: the data, or nil when there is none,
\* and nil too when the sector is too large, empty or of negative length; the
\* worker goes on.
ReadChunk(w) ==
    LET x == call[wcur[w]].chunk
    IN  /\ Serving(w, "get")
        /\ Answered(wcur[w], IF data[x] = Nil \/ x \in damaged THEN "nil" ELSE data[x])
        /\ Proceed(w, "serving")
        /\ UNCHANGED <<requests, fileVars>> /\ NoFault /\ UnchangedByWorker

\* processRequest, regionRouterGetModDate: the timestamp, an int32.
ReadModDate(w) ==
    /\ Serving(w, "moddate")
    /\ Answered(wcur[w], "timestamp")
    /\ Proceed(w, "serving")
    /\ UNCHANGED <<requests, fileVars>> /\ NoFault /\ UnchangedByWorker

\* WriteSector or ReadSector fails: ask to be closed, and no answer.  A write
\* that fails may leave the sector in pieces.
RequestFails(w) ==
    LET x == call[wcur[w]].chunk
    IN  /\ \/ Serving(w, "set") /\ damaged' \in {damaged, damaged \cup {x}}
           \/ Serving(w, "get") /\ UNCHANGED damaged
        /\ Fault(wreg[w])
        /\ status' = [status EXCEPT ![wcur[w]] = "forgotten"]
        /\ Proceed(w, "signal")
        /\ UNCHANGED <<call, result, requests, file, data, written>>
        /\ UnchangedByWorker

\* Mutant: the worker leaves without answering what still comes.
SendCloseAndLeave(w) ==
    /\ ~panicked /\ ~reqClosed
    /\ wpc[w] = "signal"
    /\ Send(CloseMsg(wreg[w]))
    /\ wpc' = [wpc EXCEPT ![w] = "done"]
    /\ UNCHANGED <<clientVars, wcur, wchan, fileVars>>
    /\ NoFault /\ UnchangedByWorker

\* sendClose: s.requests <- CloseRegion, blocking while the channel is full.
SendClose(w) ==
    /\ ~panicked /\ ~reqClosed
    /\ wpc[w] = "signal"
    /\ Send(CloseMsg(wreg[w]))
    /\ wpc' = [wpc EXCEPT ![w] = "draining"]
    /\ UNCHANGED <<clientVars, wcur, wchan, fileVars>>
    /\ NoFault /\ UnchangedByWorker

SendCloseAfterClose(w) ==
    /\ ~panicked /\ reqClosed
    /\ wpc[w] = "signal"
    /\ Panic

\* sendClose: everything that still comes is answered with the error.
Drain(w) ==
    /\ ~panicked
    /\ wpc[w] = "draining"
    /\ wchan[w] # <<>>
    /\ Answered(Head(wchan[w]), "error")
    /\ wchan' = [wchan EXCEPT ![w] = Tail(@)]
    /\ UNCHANGED <<requests, wpc, wcur, fileVars>>
    /\ NoFault /\ UnchangedByWorker

\* The channel is closed and empty: reg.Close(), s.wg.Done().
Finish(w) ==
    /\ ~panicked
    /\ wpc[w] \in {"serving", "draining"} /\ wcur[w] = Nil
    /\ wclosed[w] /\ wchan[w] = <<>>
    /\ wpc' = [wpc EXCEPT ![w] = "done"]
    /\ UNCHANGED <<clientVars, requests, wcur, wchan, fileVars>>
    /\ NoFault /\ UnchangedByWorker

-----------------------------------------------------------------------------
Client ==
    \/ \E c \in Calls : CallAfterClose(c) \/ \E op \in Ops, x \in Chunks : Call(c, op, x)
    \/ Tick \/ TickAfterClose \/ Close

Router ==
    \/ RouteCall \/ (\E w \in Workers : StartWorker(w)) \/ PassToWorker
    \/ AnswerForClosed \/ CloseUnknown \/ CloseRegion \/ CloseRegionTwice
    \/ \E S \in SUBSET Regions : CloseInactive(S)
    \/ StopRouter

Worker(w) ==
    \/ Open(w) \/ OpenMissing(w) \/ OpenFails(w) \/ CreateFails(w)
    \/ Receive(w) \/ WriteChunk(w) \/ ReadChunk(w) \/ ReadModDate(w)
    \/ RequestFails(w) \/ SendClose(w) \/ SendCloseAfterClose(w)
    \/ Drain(w) \/ Finish(w)

Next == Client \/ Router \/ \E w \in Workers : Worker(w)

Spec == Init /\ [][Next]_vars

\* The Go scheduler runs every goroutine that can run, and senders blocked on a
\* channel are served first come first served, so the ticker cannot starve a
\* worker.  Clients, the ticker and Close are the environment.
Fairness ==
    /\ WF_vars(Router)
    /\ \A w \in Workers : WF_vars(Worker(w)) /\ SF_vars(SendClose(w))

FairSpec == Spec /\ Fairness

-----------------------------------------------------------------------------
(* Properties *)

\* TypeOK: the shape of every variable, and the capacities of the channels.
TypeOK ==
    /\ call \in [Calls -> [op : Ops, chunk : Chunks] \cup {NoCall}]
    /\ status \in [Calls -> {"new", "sent", "done", "forgotten"}]
    /\ result \in [Calls -> {"none", "nil", "error", Old} \cup Calls]
    /\ requests \in Seq({CallMsg(c) : c \in Calls} \cup {CloseMsg(g) : g \in Regions}
                            \cup {TickMsg})
    /\ Len(requests) <= ReqCap
    /\ reqClosed \in BOOLEAN
    /\ routing \in Calls \cup {Nil}
    /\ router \in {"run", "stopped"}
    /\ table \in [Regions -> [worker : Workers \cup {Nil}, exists : BOOLEAN]]
    /\ wpc \in [Workers -> {"none", "opening", "serving", "signal", "draining", "done"}]
    /\ wreg \in [Workers -> Regions \cup {Nil}]
    /\ wcur \in [Workers -> Calls \cup {Nil}]
    /\ wchan \in [Workers -> Seq(Calls)]
    /\ \A w \in Workers : Len(wchan[w]) <= ChanCap
    /\ wclosed \in [Workers -> BOOLEAN]
    /\ file \in SUBSET Regions
    /\ data \in [Chunks -> Calls \cup {Old, Nil}]
    /\ damaged \in SUBSET Chunks
    /\ faults \in 0..MaxFaults
    /\ panicked \in BOOLEAN
    /\ broken \in SUBSET Regions
    /\ written \in SUBSET Calls

Requested(c) == \E i \in DOMAIN requests : requests[i] = CallMsg(c)
InChan(c, w) == \E i \in DOMAIN wchan[w] : wchan[w][i] = c
Held(c)      == \E w \in Workers : wcur[w] = c \/ InChan(c, w)

\* The type invariant, and: a call that was sent and not answered is in exactly
\* one place: s.requests, the router's hands, or with one worker of the chunk's
\* own region that is still going to look at it.
OneHome ==
    /\ TypeOK
    /\ \A c \in Calls : status[c] = "sent" <=> Requested(c) \/ routing = c \/ Held(c)
    /\ \A c \in Calls : routing = c => ~Requested(c) /\ ~Held(c)
    /\ \A c \in Calls : Requested(c) => ~Held(c)
    /\ \A w, v \in Workers, c \in Calls :
          (wcur[w] = c \/ InChan(c, w)) =>
             /\ wpc[w] \in {"opening", "serving", "signal", "draining"}
             /\ wreg[w] = RegionOf[call[c].chunk]
             /\ (wcur[v] = c \/ InChan(c, v)) => v = w

\* Two workers never have calls to carry out on the same region file, whose
\* header each of them caches: the router closes a region before it starts
\* another worker for it, and only when the old worker has nothing left.
OneFileUser ==
    \A w, v \in Workers :
        /\ wpc[w] \in {"opening", "serving"} /\ (wcur[w] # Nil \/ wchan[w] # <<>>)
        /\ wpc[v] \in {"opening", "serving"} /\ (wcur[v] # Nil \/ wchan[v] # <<>>)
        /\ wreg[w] = wreg[v]
        => w = v

\* No channel is closed twice and none is sent on after it was closed, as long
\* as the storage itself is not closed: the regions the table calls open are
\* those whose channel is.
PanicsOnlyAfterClose ==
    /\ panicked => reqClosed
    /\ router = "run" =>
          \A g \in Regions : table[g].exists => Present(g) /\ ~wclosed[table[g].worker]

\* What a set stored is found: a get is answered nil only if nothing is stored,
\* a worker failed on the region, or the sector was unreadable (ErrTooLarge and
\* the .mcc file nobody reads, ErrNoData, ErrSectorNegativeLength) when the
\* program started and has not been written since.
NilMeansNotStored ==
    [][\A c \in Calls :
          /\ status[c] = "sent" /\ status'[c] = "done"
          /\ call[c].op = "get" /\ result'[c] = "nil"
          => LET x == call[c].chunk
             IN  \/ data[x] = Nil
                 \/ RegionOf[x] \in broken'
                 \/ data[x] = Old /\ x \in damaged]_vars

\* A set that was acknowledged without being written was for a region whose
\* file did not exist when it was opened or that a worker failed on.
UnwrittenAckMeansMissingOrBroken ==
    [][\A c \in Calls :
          /\ status[c] = "sent" /\ status'[c] = "done"
          /\ call[c].op = "set" /\ result'[c] = "nil" /\ c \notin written'
          => \/ RegionOf[call[c].chunk] \notin file
             \/ RegionOf[call[c].chunk] \in broken']_vars

\* The router blocked on the full channel of a worker that is itself blocked
\* on a full s.requests, asking to be closed.
Wedged ==
    /\ routing # Nil /\ Present(Target) /\ table[Target].exists
    /\ wpc[table[Target].worker] = "signal"
    /\ Len(wchan[table[Target].worker]) = ChanCap
    /\ Len(requests) = ReqCap

\* The storage may forget a call: a file operation failed, or it is one for a
\* modification date.
MayForget(c) == call[c].op = "moddate" \/ RegionOf[call[c].chunk] \in broken

\* Every call is answered, unless its own failure or the type of its answer
\* makes the storage forget it, the process panics, or the channels wedge.
CallsEnd ==
    \A c \in Calls :
        status[c] = "sent" ~>
            \/ status[c] = "done"
            \/ status[c] = "forgotten" /\ MayForget(c)
            \/ panicked \/ Wedged

\* Close() returns: the router and every worker stop.
CloseCompletes ==
    reqClosed ~> \/ router = "stopped" /\ \A w \in Workers : wpc[w] \in {"none", "done"}
                 \/ panicked \/ Wedged

\* region.go:236-239: a worker that fails will "respond to all pending
\* requests with error until no more requests will arrive".
EveryFailureAnswered == \A c \in Calls : status[c] = "sent" ~> status[c] = "done" \/ panicked \/ Wedged

\* The same comment: what arrives at a closed region gets the error, so a set
\* answered nil was written.
AckedSetsWritten ==
    \A c \in Calls : call[c].op = "set" /\ result[c] = "nil" => c \in written
=============================================================================
