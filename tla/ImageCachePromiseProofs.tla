----------------------- MODULE ImageCachePromiseProofs -----------------------
(***************************************************************************)
(* What the callers of the image cache rely on, for every set of requests, *)
(* tiles and workers and every capacity of the channels: no request is     *)
(* forgotten, no image that was set is lost, and the cache implements      *)
(* TileStore.                                                              *)
(***************************************************************************)
EXTENDS ImageCacheProofs

\* Sending to a channel and receiving from it.
LEMMA Sends ==
    ASSUME NEW S, NEW s \in Seq(S), NEW x \in S
    PROVE  /\ Append(s, x) \in Seq(S)
           /\ DOMAIN Append(s, x) = 1..(Len(s) + 1)
           /\ DOMAIN s = 1..Len(s) /\ Len(s) \in Nat
           /\ \A i \in DOMAIN s : Append(s, x)[i] = s[i]
           /\ Append(s, x)[Len(s) + 1] = x
OBVIOUS

LEMMA Receives ==
    ASSUME NEW S, NEW s \in Seq(S), s # <<>>
    PROVE  /\ Tail(s) \in Seq(S) /\ Head(s) \in S /\ Head(s) = s[1]
           /\ DOMAIN Tail(s) = 1..(Len(s) - 1)
           /\ DOMAIN s = 1..Len(s) /\ Len(s) \in Nat /\ 1 \in DOMAIN s
           /\ \A i \in DOMAIN Tail(s) : i + 1 \in DOMAIN s /\ Tail(s)[i] = s[i + 1]
           /\ \A i \in DOMAIN s : i = 1 \/ (i - 1 \in DOMAIN Tail(s) /\ Tail(s)[i - 1] = s[i])
BY HeadTailProperties

-----------------------------------------------------------------------------
(* Every request has one home *)

LEMMA HomeFrame ==
    ASSUME OneHome, UNCHANGED <<req, status, tasks, cur, cacheReturn>>
    PROVE  OneHome'
BY DEF OneHome, Queued, Waiting

LEMMA HomeSubmit ==
    ASSUME TypeOK, OneHome, NEW r \in Reqs, NEW c \in Commands, NEW t \in Tiles, Submit(r, c, t)
    PROVE  OneHome'
<1>1. /\ status \in [Reqs -> {"new", "sent", "answered", "applied", "refused"}]
      /\ tasks \in Seq(Reqs) /\ cacheReturn \in [Keys -> SUBSET Reqs]
      /\ req \in [Reqs -> [op : {"get", "set"}, loc : Locs] \cup {NoReq}]
    BY DEF TypeOK, ClientTypes, TaskTypes, CacheTypes
<1>2. /\ status[r] = "new" /\ status' = [status EXCEPT ![r] = "sent"]
      /\ tasks' = Append(tasks, r) /\ UNCHANGED <<cur, cacheReturn>>
      /\ \A q \in Reqs \ {r} : req'[q] = req[q] /\ status'[q] = status[q]
    BY <1>1 DEF Submit
<1>3. ~Queued(r) /\ cur # r /\ ~Waiting(r)
    <2>1. /\ \A i \in DOMAIN tasks : status[tasks[i]] # "new"
          /\ cur # Nil => status[cur] # "new"
          /\ \A k \in Keys : \A q \in cacheReturn[k] : status[q] # "new"
        BY DEF TypeOK, TaskTypes
    <2>2. r # Nil
        BY Sentinels
    <2> QED
        BY <1>2, <2>1, <2>2 DEF Queued, Waiting
<1>4. \A q \in Reqs : Queued(q)' <=> Queued(q) \/ q = r
    <2> DEFINE n == Len(tasks)
    <2>1. /\ DOMAIN tasks' = 1..(n + 1) /\ DOMAIN tasks = 1..n /\ n \in Nat
          /\ \A i \in 1..n : tasks'[i] = tasks[i]
          /\ tasks'[n + 1] = r
        BY <1>1, <1>2, Sends
    <2> HIDE DEF n
    <2>2. \A i : i \in 1..(n + 1) <=> i \in 1..n \/ i = n + 1
        BY <2>1
    <2> QED
        BY <2>1, <2>2 DEF Queued
<1>5. \A q \in Reqs : Waiting(q)' <=> Waiting(q)
    BY <1>2 DEF Waiting
<1>6. \A i, j \in DOMAIN tasks' : tasks'[i] = tasks'[j] => i = j
    BY <1>1, <1>2, <1>3, Sends DEF OneHome, Queued
<1>7. \A k \in Keys : \A q \in cacheReturn'[k] :
          req'[q].op = "get" /\ StorageLevelLoc(req'[q].loc) = k
    BY <1>1, <1>2, <1>3 DEF OneHome, Waiting
<1> QED
    BY <1>1, <1>2, <1>3, <1>4, <1>5, <1>6, <1>7 DEF OneHome

LEMMA HomeTakeTask ==
    ASSUME TypeOK, OneHome, TakeTask
    PROVE  OneHome'
<1>1. /\ tasks \in Seq(Reqs) /\ tasks # <<>> /\ tasks' = Tail(tasks)
      /\ cur = Nil /\ cur' = Head(tasks) /\ UNCHANGED <<req, status, cacheReturn>>
    BY DEF TypeOK, TaskTypes, TakeTask, Selecting, clientVars
<1>2. /\ Head(tasks) \in Reqs /\ Queued(Head(tasks))
    BY <1>1, Receives DEF Queued
<1>3. \A i, j \in DOMAIN tasks' : tasks'[i] = tasks'[j] => i = j
    <2> SUFFICES ASSUME NEW i \in DOMAIN tasks', NEW j \in DOMAIN tasks', tasks'[i] = tasks'[j]
                 PROVE  i = j
        OBVIOUS
    <2>1. i + 1 \in DOMAIN tasks /\ j + 1 \in DOMAIN tasks /\ tasks[i + 1] = tasks[j + 1]
        BY <1>1, Receives
    <2> QED
        BY <1>1, <2>1, Receives DEF OneHome
<1>4. \A q \in Reqs : Queued(q) <=> Queued(q)' \/ q = Head(tasks)
    <2>1. /\ 1 \in DOMAIN tasks /\ tasks[1] = Head(tasks)
          /\ \A i \in DOMAIN tasks' : i + 1 \in DOMAIN tasks /\ tasks'[i] = tasks[i + 1]
          /\ \A i \in DOMAIN tasks : i = 1 \/ (i - 1 \in DOMAIN tasks' /\ tasks'[i - 1] = tasks[i])
        BY <1>1, Receives
    <2> QED
        BY <2>1 DEF Queued
<1>5. ~\E i \in DOMAIN tasks' : tasks'[i] = cur'
    <2> SUFFICES ASSUME NEW i \in DOMAIN tasks', tasks'[i] = Head(tasks) PROVE FALSE
        BY <1>1
    <2>1. i + 1 \in DOMAIN tasks /\ 1 \in DOMAIN tasks /\ tasks[i + 1] = tasks[1] /\ i \in 1..(Len(tasks) - 1)
        BY <1>1, Receives
    <2> QED
        BY <1>1, <2>1, Receives DEF OneHome
<1>6. \A q \in Reqs : Waiting(q)' <=> Waiting(q)
    BY <1>1 DEF Waiting
<1>7. \A q \in Reqs : cur' = q => ~Queued(q)'
    BY <1>5 DEF Queued
<1>8. \A q \in Reqs : status'[q] = "sent" <=> Queued(q)' \/ cur' = q \/ Waiting(q)'
    BY <1>1, <1>2, <1>4, <1>6, Sentinels DEF OneHome
<1>9. \A q \in Reqs : cur' = q \/ Queued(q)' => ~Waiting(q)'
    BY <1>1, <1>2, <1>4, <1>6 DEF OneHome
<1>10. \A k \in Keys : \A q \in cacheReturn'[k] :
          req'[q].op = "get" /\ StorageLevelLoc(req'[q].loc) = k
    BY <1>1 DEF OneHome
<1> QED
    BY <1>3, <1>7, <1>8, <1>9, <1>10 DEF OneHome

\* The processor finishes the request it handles.
LEMMA HomeFinished ==
    ASSUME TypeOK, OneHome, NEW r \in Reqs, cur = r, cur' = Nil,
           NEW out \in {"answered", "applied", "refused"},
           status' = [status EXCEPT ![r] = out], UNCHANGED <<req, tasks, cacheReturn>>
    PROVE  OneHome'
<1>1. status \in [Reqs -> {"new", "sent", "answered", "applied", "refused"}]
    BY DEF TypeOK, ClientTypes
<1>2. \A q \in Reqs : Queued(q)' = Queued(q) /\ Waiting(q)' = Waiting(q)
    BY DEF Queued, Waiting
<1> QED
    BY <1>1, <1>2, Sentinels DEF OneHome

\* The processor parks the get it handles.
LEMMA HomeParked ==
    ASSUME TypeOK, OneHome, NEW r \in Reqs, cur = r, cur' = Nil, req[r].op = "get",
           NEW k \in Keys, k = StorageLevelLoc(req[r].loc),
           cacheReturn' = [cacheReturn EXCEPT ![k] = @ \cup {r}],
           UNCHANGED <<req, status, tasks>>
    PROVE  OneHome'
<1>1. cacheReturn \in [Keys -> SUBSET Reqs]
    BY DEF TypeOK, CacheTypes
<1>2. \A q \in Reqs : Queued(q)' = Queued(q) /\ (Waiting(q)' <=> Waiting(q) \/ q = r)
    BY <1>1 DEF Queued, Waiting
<1>3. \A j \in Keys : \A q \in cacheReturn'[j] :
          req[q].op = "get" /\ StorageLevelLoc(req[q].loc) = j
    BY <1>1 DEF OneHome
<1> QED
    BY <1>2, <1>3, Sentinels DEF OneHome

LEMMA HomeHandleTask ==
    ASSUME TypeOK, OneHome, NEW r \in Reqs, HandleTask(r)
    PROVE  OneHome'
<1>1. CASE GetLarger(r)
    BY <1>1, HomeFinished DEF GetLarger, Handling, Answer
<1>2. CASE GetHit(r)
    BY <1>2, HomeFinished DEF GetHit, Handling, Answer
<1>3. CASE GetWait(r)
    BY <1>3, HomeParked, RequestLoc DEF GetWait, Handling, clientVars
<1>4. CASE GetNativeMiss(r)
    <2>1. req[r].op = "get" /\ req[r].loc \in Keys /\ req[r].loc = StorageLevelLoc(req[r].loc)
        BY <1>4, RequestLoc DEF GetNativeMiss, Handling, StorageLevelLoc, Keys
    <2> QED
        BY <1>4, <2>1, HomeParked DEF GetNativeMiss, Handling, clientVars
<1>5. CASE GetSmallerMiss(r)
    BY <1>5, HomeParked, RequestLoc DEF GetSmallerMiss, Handling, clientVars
<1>6. CASE SetRefused(r)
    BY <1>6, HomeFinished DEF SetRefused, Handling, Finish
<1>7. CASE SetApplied(r)
    BY <1>7, HomeFinished DEF SetApplied, Handling, Finish
<1> QED
    BY <1>1, <1>2, <1>3, <1>4, <1>5, <1>6, <1>7 DEF HandleTask

\* A load that has come back leaves no placeholder: all who wait are served.
LEMMA AllServed ==
    ASSUME NEW e \in EntryType, NEW img \in Images \cup {Nil}
    PROVE  ~Placeholder(AfterLoad(e, img))
BY DEF EntryType, AfterLoad, Entry, Placeholder

\* The step of ReturnLoaded, in terms of the load that has come back.
LEMMA Loaded ==
    ASSUME TypeOK, ReturnLoaded, NEW h, h = Head(ioReturn)
    PROVE  /\ h.loc \in Keys /\ h.img \in Images \cup {Nil}
           /\ cache' = [cache EXCEPT ![h.loc] = AfterLoad(@, h.img)]
           /\ cache'[h.loc] \in EntryType /\ ~Placeholder(cache'[h.loc])
           /\ \A r \in Reqs : status'[r] = IF r \in cacheReturn[h.loc] THEN "answered" ELSE status[r]
           /\ \A r \in Reqs : reply'[r] = IF r \in cacheReturn[h.loc] THEN cache'[h.loc].img
                                          ELSE reply[r]
           /\ DOMAIN status' = Reqs /\ DOMAIN reply' = Reqs
           /\ cacheReturn' = [cacheReturn EXCEPT ![h.loc] = {}]
           /\ UNCHANGED <<req, tasks, cur>> /\ cur = Nil
<1> DEFINE e == AfterLoad(cache[h.loc], h.img)
           served == {r \in cacheReturn[h.loc] :
                         req[r].loc.scale = "native" \/ ~Placeholder(e)}
<1>1. h.loc \in Keys /\ h.img \in Images \cup {Nil}
    BY HeadTypes DEF ReturnLoaded, Load
<1>2. /\ cache' = [cache EXCEPT ![h.loc] = e]
      /\ status' = [r \in Reqs |-> IF r \in served THEN "answered" ELSE status[r]]
      /\ reply' = [r \in Reqs |-> IF r \in served THEN e.img ELSE reply[r]]
      /\ cacheReturn' = [cacheReturn EXCEPT ![h.loc] = {}]
      /\ UNCHANGED <<req, tasks, cur>> /\ cur = Nil
    BY DEF ReturnLoaded, WithoutWaiters, Selecting
<1>3. cache[h.loc] \in EntryType /\ DOMAIN cache = Keys
    BY <1>1 DEF TypeOK, CacheTypes, EntryType
<1>4. e \in EntryType /\ ~Placeholder(e)
    BY <1>1, <1>3, AfterLoadType, AllServed
<1>5. served = cacheReturn[h.loc]
    BY <1>4
<1>6. cache'[h.loc] = e
    BY <1>1, <1>2, <1>3
<1> HIDE DEF e, served
<1>7. cache' = [cache EXCEPT ![h.loc] = AfterLoad(@, h.img)]
    BY <1>2 DEF e
<1> QED
    BY <1>1, <1>2, <1>4, <1>5, <1>6, <1>7

LEMMA HomeReturnLoaded ==
    ASSUME TypeOK, OneHome, ReturnLoaded
    PROVE  OneHome'
<1> DEFINE k == Head(ioReturn).loc
<1>1. /\ k \in Keys
      /\ \A r \in Reqs : status'[r] = IF r \in cacheReturn[k] THEN "answered" ELSE status[r]
      /\ cacheReturn' = [cacheReturn EXCEPT ![k] = {}]
      /\ UNCHANGED <<req, tasks, cur>> /\ cur = Nil
    BY Loaded
<1>2. cacheReturn \in [Keys -> SUBSET Reqs]
    BY DEF TypeOK, CacheTypes
<1> HIDE DEF k
<1>3. \A r \in Reqs : Queued(r)' = Queued(r)
    BY <1>1 DEF Queued
<1>4. \A r \in cacheReturn[k] : ~Waiting(r)' /\ Waiting(r) /\ r \in Reqs
    BY <1>1, <1>2 DEF OneHome, Waiting
<1>5. \A r \in Reqs \ cacheReturn[k] : Waiting(r)' <=> Waiting(r)
    BY <1>1, <1>2 DEF Waiting
<1>6. \A j \in Keys : \A r \in cacheReturn'[j] :
          req'[r].op = "get" /\ StorageLevelLoc(req'[r].loc) = j
    BY <1>1, <1>2 DEF OneHome
<1> QED
    BY <1>1, <1>3, <1>4, <1>5, <1>6, Sentinels DEF OneHome

\* The steps that leave clients, tasks and waiters alone.
LEMMA ElsewhereFrame ==
    ASSUME \/ ReturnError \/ \E S \in SUBSET Keys : Unload(S)
           \/ Autosave \/ LeaveLoop \/ SaveStep \/ Exit \/ Cancel
           \/ UNCHANGED vars \/ \E w \in Workers : Worker(w)
    PROVE  UNCHANGED <<req, status, reply, tasks, cur, cacheReturn>>
<1>1. CASE SaveStep
    BY <1>1 DEF SaveStep, SaveCreate, SaveCreateFails, SaveEncode, SavePanics,
       SaveEncodeFails, SaveDone, clientVars
<1>2. CASE UNCHANGED vars \/ \E w \in Workers : Worker(w)
    BY <1>2 DEF Worker, WorkerTake, WorkerLoads, WorkerOpenFails, WorkerDecodeFails,
       WorkerRemove, WorkerReturns, WorkerExits, UnchangedByWorker, clientVars, vars
<1>3. CASE ReturnError \/ \E S \in SUBSET Keys : Unload(S)
    BY <1>3 DEF ReturnError, Unload, clientVars
<1>4. CASE Autosave \/ LeaveLoop \/ Exit \/ Cancel
    BY <1>4 DEF Autosave, LeaveLoop, Exit, Cancel, clientVars
<1> QED
    BY <1>1, <1>2, <1>3, <1>4

LEMMA NextOneHome == TypeOK /\ OneHome /\ [Next]_vars => OneHome'
<1> SUFFICES ASSUME TypeOK, OneHome, [Next]_vars PROVE OneHome'
    OBVIOUS
<1>1. CASE \E r \in Reqs, c \in Commands, t \in Tiles : Submit(r, c, t)
    BY <1>1, HomeSubmit
<1>2. CASE TakeTask
    BY <1>2, HomeTakeTask
<1>3. CASE \E r \in Reqs : HandleTask(r)
    BY <1>3, HomeHandleTask
<1>4. CASE ReturnLoaded
    BY <1>4, HomeReturnLoaded
<1> QED
    BY <1>1, <1>2, <1>3, <1>4, ElsewhereFrame, HomeFrame DEF Next, HandleReturn

\* No get is forgotten by the channel, the processor and the waiting lists, and
\* none is in two of them, so none is answered twice (cache.go:142-151, 326-346):
\* with TypeOK, OneHome is inductive.
THEOREM EveryRequestHasAHome == Spec => []OneHome
<1>1. Init => OneHome
    BY Sentinels DEF Init, OneHome, Queued, Waiting
<1>2. TypeOK /\ OneHome /\ [Next]_vars => OneHome'
    BY NextOneHome
<1> QED
    BY <1>1, <1>2, TypeCorrect, PTL DEF Spec

-----------------------------------------------------------------------------
(* Every waiter has a load on its way, or its load failed *)

\* Somebody waits for the load of k.
Needed(k) == cacheReturn[k] # {} \/ Placeholder(cache[k])

\* A step that asks for no load and takes none from the workers.
LEMMA NeededFrame ==
    ASSUME WaitersHaveIO, NEW k \in Keys, Needed(k)', Needed(k)' => Needed(k),
           InFlight(k) => InFlight(k)', failed' = failed
    PROVE  InFlight(k)' \/ k \in failed'
BY DEF WaitersHaveIO, Needed, Placeholder

\* c.ioTasks <- load: the load is on its way, and so are all the others.
LEMMA PushedInFlight ==
    ASSUME TypeOK, NEW k \in Keys, PushLoad(k)
    PROVE  InFlight(k)' /\ \A j \in Keys : InFlight(j) => InFlight(j)'
<1>1. /\ ioTasks \in Seq(Keys) /\ ioTasks' = Append(ioTasks, k)
      /\ UNCHANGED <<ioReturn, pc, job>>
    BY DEF TypeOK, IOTypes, PushLoad
<1>2. /\ DOMAIN ioTasks' = 1..(Len(ioTasks) + 1) /\ DOMAIN ioTasks = 1..Len(ioTasks)
      /\ Len(ioTasks) \in Nat /\ ioTasks'[Len(ioTasks) + 1] = k
      /\ \A i \in DOMAIN ioTasks : ioTasks'[i] = ioTasks[i]
    BY <1>1, Sends
<1>3. Len(ioTasks) + 1 \in DOMAIN ioTasks' /\ DOMAIN ioTasks \subseteq DOMAIN ioTasks'
    BY <1>2
<1> QED
    BY <1>1, <1>2, <1>3 DEF InFlight

\* A worker passes a load on and never drops one.
LEMMA WorkerKeepsLoads ==
    ASSUME TypeOK, NEW w \in Workers, Worker(w), NEW k \in Keys, InFlight(k)
    PROVE  InFlight(k)'
<1> DEFINE Busy == {"load", "remove", "return"}
<1>1. /\ pc \in [Workers -> {"idle", "load", "remove", "return", "exited"}]
      /\ job \in [Workers -> Load \cup {Idle}]
      /\ ioTasks \in Seq(Keys) /\ ioReturn \in Seq(Load)
      /\ pc[w] \in Busy => job[w] \in Load
    BY DEF TypeOK, IOTypes
<1>2. CASE WorkerTake(w)
    <2>1. /\ ioTasks # <<>> /\ ioTasks' = Tail(ioTasks) /\ ioReturn' = ioReturn
          /\ pc[w] = "idle" /\ pc'[w] = "load" /\ job'[w].loc = Head(ioTasks)
          /\ \A v \in Workers \ {w} : pc'[v] = pc[v] /\ job'[v] = job[v]
        BY <1>1, <1>2 DEF WorkerTake, Idle
    <2>2. CASE \E i \in DOMAIN ioTasks : ioTasks[i] = k
        <3>1. PICK i \in DOMAIN ioTasks : ioTasks[i] = k
            BY <2>2
        <3>2. CASE i = 1
            BY <1>1, <2>1, <3>1, <3>2, Receives DEF InFlight
        <3>3. CASE i # 1
            <4>1. i - 1 \in DOMAIN ioTasks' /\ ioTasks'[i - 1] = k
                BY <1>1, <2>1, <3>1, <3>3, Receives
            <4> QED
                BY <4>1 DEF InFlight
        <3> QED
            BY <3>2, <3>3
    <2> QED
        BY <2>1, <2>2 DEF InFlight
<1>3. CASE WorkerLoads(w) \/ WorkerOpenFails(w) \/ WorkerDecodeFails(w) \/ WorkerRemove(w)
    <2>1. /\ pc[w] \in Busy /\ pc'[w] \in Busy
          /\ job'[w].loc = job[w].loc /\ UNCHANGED <<ioTasks, ioReturn>>
          /\ \A v \in Workers \ {w} : pc'[v] = pc[v] /\ job'[v] = job[v]
        BY <1>1, <1>3 DEF WorkerLoads, WorkerOpenFails, WorkerDecodeFails, WorkerRemove, Load
    <2> QED
        BY <2>1 DEF InFlight
<1>4. CASE WorkerReturns(w)
    <2>1. /\ ioReturn' = Append(ioReturn, job[w]) /\ ioTasks' = ioTasks
          /\ pc[w] = "return" /\ job[w] \in Load
          /\ \A v \in Workers \ {w} : pc'[v] = pc[v] /\ job'[v] = job[v]
        BY <1>1, <1>4 DEF WorkerReturns
    <2>2. /\ DOMAIN ioReturn' = 1..(Len(ioReturn) + 1) /\ DOMAIN ioReturn = 1..Len(ioReturn)
          /\ Len(ioReturn) \in Nat /\ ioReturn'[Len(ioReturn) + 1] = job[w]
          /\ \A i \in DOMAIN ioReturn : ioReturn'[i] = ioReturn[i]
        BY <1>1, <2>1, Sends
    <2>3. Len(ioReturn) + 1 \in DOMAIN ioReturn' /\ DOMAIN ioReturn \subseteq DOMAIN ioReturn'
        BY <2>2
    <2> QED
        BY <2>1, <2>2, <2>3 DEF InFlight
<1>5. CASE WorkerExits(w)
    <2>1. /\ pc[w] = "idle" /\ UNCHANGED <<job, ioTasks, ioReturn>>
          /\ \A v \in Workers \ {w} : pc'[v] = pc[v]
        BY <1>1, <1>5 DEF WorkerExits
    <2> QED
        BY <2>1 DEF InFlight
<1> QED
    BY <1>2, <1>3, <1>4, <1>5 DEF Worker

\* The processor takes the load at the head of ioReturn.
LEMMA ReturnedInFlight ==
    ASSUME TypeOK, ioReturn # <<>>, ioReturn' = Tail(ioReturn),
           UNCHANGED <<ioTasks, pc, job>>,
           NEW k \in Keys, k # Head(ioReturn).loc, InFlight(k)
    PROVE  InFlight(k)'
<1>1. ioReturn \in Seq(Load)
    BY DEF TypeOK, IOTypes
<1>2. CASE \E i \in DOMAIN ioReturn : ioReturn[i].loc = k
    <2>1. PICK i \in DOMAIN ioReturn : ioReturn[i].loc = k
        BY <1>2
    <2>2. i - 1 \in DOMAIN ioReturn' /\ ioReturn'[i - 1] = ioReturn[i]
        BY <1>1, <2>1, Receives
    <2> QED
        BY <2>1, <2>2 DEF InFlight
<1> QED
    BY <1>2 DEF InFlight

LEMMA WaitersHandleTask ==
    ASSUME TypeOK, WaitersHaveIO, NEW r \in Reqs, HandleTask(r), NEW k \in Keys, Needed(k)'
    PROVE  InFlight(k)' \/ k \in failed'
<1>1. cache \in [Keys -> EntryType] /\ cacheReturn \in [Keys -> SUBSET Reqs]
    BY DEF TypeOK, CacheTypes, EntryType
<1>2. CASE GetLarger(r) \/ GetHit(r) \/ SetRefused(r)
    BY <1>2, NeededFrame DEF GetLarger, GetHit, SetRefused, ioVars, histVars, Needed, InFlight
<1>3. CASE GetWait(r)
    <2>1. UNCHANGED <<cache, ioVars, failed>>
        BY <1>3 DEF GetWait, histVars
    <2>2. Needed(k)
        BY <1>1, <1>3, <2>1 DEF GetWait, Needed
    <2> QED
        BY <2>1, <2>2, NeededFrame DEF ioVars, InFlight
<1>4. CASE GetNativeMiss(r) \/ GetSmallerMiss(r)
    <2>1. PICK j \in Keys : /\ PushLoad(j) /\ failed' = failed
                            /\ k # j => UNCHANGED <<cache[k], cacheReturn[k]>>
        <3>1. CASE GetNativeMiss(r)
            <4>1. req[r].loc \in Keys
                BY <3>1, RequestLoc DEF GetNativeMiss, Handling
            <4> QED
                BY <1>1, <3>1, <4>1 DEF GetNativeMiss, histVars
        <3>2. CASE GetSmallerMiss(r)
            <4>1. StorageLevelLoc(req[r].loc) \in Keys
                BY <3>2, RequestLoc DEF GetSmallerMiss, Handling
            <4> QED
                BY <1>1, <3>2, <4>1 DEF GetSmallerMiss, histVars
        <3> QED
            BY <1>4, <3>1, <3>2
    <2> QED
        BY <2>1, PushedInFlight, NeededFrame DEF Needed
<1>5. CASE SetApplied(r)
    <2>1. req[r].loc \in Keys
        BY <1>5, RequestLoc DEF SetApplied, Handling
    <2>2. /\ UNCHANGED <<failed, cacheReturn>>
          /\ cache' = [cache EXCEPT ![req[r].loc] = AfterSet(@, r)]
          /\ IF cache[req[r].loc].present THEN UNCHANGED ioVars ELSE PushLoad(req[r].loc)
        BY <1>5 DEF SetApplied
    <2>3. CASE cache[req[r].loc].present
        <3>1. Needed(k)
            BY <1>1, <2>1, <2>2, <2>3 DEF Needed, Placeholder, AfterSet, Entry
        <3> QED
            BY <2>2, <2>3, <3>1, NeededFrame DEF ioVars, InFlight
    <2>4. CASE ~cache[req[r].loc].present
        <3>1. k # req[r].loc => Needed(k)
            BY <1>1, <2>1, <2>2 DEF Needed
        <3> QED
            BY <2>1, <2>2, <2>4, <3>1, PushedInFlight, NeededFrame
    <2> QED
        BY <2>3, <2>4
<1> QED
    BY <1>2, <1>3, <1>4, <1>5 DEF HandleTask

LEMMA WaitersHandleReturn ==
    ASSUME TypeOK, WaitersHaveIO, HandleReturn, NEW k \in Keys, Needed(k)'
    PROVE  InFlight(k)' \/ k \in failed'
<1> DEFINE j == Head(ioReturn).loc
<1>1. CASE ReturnError
    <2>1. /\ ioReturn # <<>> /\ ioReturn' = Tail(ioReturn) /\ failed' = failed \cup {j}
          /\ UNCHANGED <<cache, cacheReturn, ioTasks, pc, job>>
        BY <1>1 DEF ReturnError
    <2>2. InFlight(k) \/ k \in failed
        BY <2>1 DEF WaitersHaveIO, Needed, Placeholder
    <2> QED
        BY <2>1, <2>2, ReturnedInFlight
<1>2. CASE ReturnLoaded
    <2>1. /\ ioReturn # <<>> /\ ioReturn' = Tail(ioReturn) /\ failed' = failed \ {j}
          /\ UNCHANGED <<ioTasks, pc, job>>
        BY <1>2 DEF ReturnLoaded
    <2>2. /\ j \in Keys /\ ~Placeholder(cache'[j])
          /\ cacheReturn' = [cacheReturn EXCEPT ![j] = {}]
          /\ \A i \in Keys : i # j => cache'[i] = cache[i]
        BY <1>2, Loaded DEF TypeOK, CacheTypes
    <2> HIDE DEF j
    <2>3. k # j
        BY <2>2 DEF Needed, TypeOK, CacheTypes
    <2>4. Needed(k)
        BY <2>2, <2>3 DEF Needed, TypeOK, CacheTypes
    <2> QED
        BY <2>1, <2>3, <2>4, ReturnedInFlight DEF j, WaitersHaveIO, Needed, Placeholder
<1> QED
    BY <1>1, <1>2 DEF HandleReturn

LEMMA NextWaitersHaveIO == TypeOK /\ WaitersHaveIO /\ [Next]_vars => WaitersHaveIO'
<1> SUFFICES ASSUME TypeOK, WaitersHaveIO, [Next]_vars, NEW k \in Keys, Needed(k)'
             PROVE  InFlight(k)' \/ k \in failed'
    BY DEF WaitersHaveIO, Needed, Placeholder, InFlight
<1>1. CASE \E r \in Reqs : HandleTask(r)
    BY <1>1, WaitersHandleTask
<1>2. CASE HandleReturn
    BY <1>2, WaitersHandleReturn
<1>3. CASE \E w \in Workers : Worker(w)
    <2>1. UNCHANGED <<cache, cacheReturn, failed>>
        BY <1>3 DEF Worker, WorkerTake, WorkerLoads, WorkerOpenFails, WorkerDecodeFails,
           WorkerRemove, WorkerReturns, WorkerExits, UnchangedByWorker
    <2> QED
        BY <1>3, <2>1, WorkerKeepsLoads, NeededFrame DEF Needed
<1>4. CASE \E S \in SUBSET Keys : Unload(S)
    <2>1. UNCHANGED <<cacheReturn, ioVars, failed>> /\ (cache'[k] = Absent \/ cache'[k] = cache[k])
        BY <1>4 DEF Unload, histVars
    <2> QED
        BY <2>1, NeededFrame DEF Needed, Placeholder, Absent, ioVars, InFlight
<1>5. CASE SaveEncode
    <2>1. /\ UNCHANGED <<cacheReturn, ioVars, failed>>
          /\ cache' = [cache EXCEPT ![saving].synced = TRUE]
        BY <1>5 DEF SaveEncode
    <2> QED
        BY <2>1, NeededFrame DEF Needed, Placeholder, ioVars, InFlight, TypeOK, CacheTypes
<1>6. CASE \/ \E r \in Reqs, c \in Commands, t \in Tiles : Submit(r, c, t)
           \/ TakeTask \/ Autosave \/ LeaveLoop \/ Exit \/ Cancel \/ UNCHANGED vars
           \/ SaveStep /\ ~SaveEncode
    <2>1. UNCHANGED <<cache, cacheReturn, ioVars, failed>>
        BY <1>6 DEF Submit, TakeTask, Autosave, LeaveLoop, Exit, Cancel, vars, histVars,
           SaveStep, SaveCreate, SaveCreateFails, SavePanics, SaveEncodeFails, SaveDone
    <2> QED
        BY <2>1, NeededFrame DEF Needed, ioVars, InFlight
<1> QED
    BY <1>1, <1>2, <1>3, <1>4, <1>5, <1>6 DEF Next

\* A get that waits, and a placeholder, is never left without a load that will
\* end its wait, unless that load has failed (cache.go:323-326).
THEOREM NoGetWaitsInVain == Spec => []WaitersHaveIO
<1>1. Init => WaitersHaveIO
    BY DEF Init, WaitersHaveIO, Absent
<1>2. TypeOK /\ WaitersHaveIO /\ [Next]_vars => WaitersHaveIO'
    BY NextWaitersHaveIO
<1> QED
    BY <1>1, <1>2, TypeCorrect, PTL DEF Spec

-----------------------------------------------------------------------------
(* The last image set on a key *)

\* It is in the cache, still to be saved, or in the file.
Safe(k) == (Dirty(k) /\ cache[k].img = lastSet[k]) \/ disk[k] = lastSet[k]

LEMMA SafeFrame ==
    ASSUME NEW k \in Keys, Safe(k),
           UNCHANGED <<cache[k], lastSet[k], disk[k]>>
    PROVE  Safe(k)'
BY DEF Safe, Dirty

LEMMA SafeSetApplied ==
    ASSUME TypeOK, SetSurvives, NEW r \in Reqs, SetApplied(r),
           NEW k \in Keys \ lossy', lastSet'[k] # Nil
    PROVE  Safe(k)'
<1>1. /\ cache \in [Keys -> EntryType] /\ lastSet \in [Keys -> Reqs \cup {Nil}]
      /\ req[r].loc \in Keys
    BY RequestLoc DEF TypeOK, CacheTypes, HistTypes, EntryType, SetApplied, Handling
<1>2. /\ cache' = [cache EXCEPT ![req[r].loc] = AfterSet(@, r)]
      /\ lastSet' = [lastSet EXCEPT ![req[r].loc] = r]
      /\ lossy' = lossy \ {req[r].loc} /\ disk' = disk
    BY DEF SetApplied
<1>3. CASE k = req[r].loc
    BY <1>1, <1>2, <1>3 DEF Safe, Dirty, AfterSet, Entry
<1>4. CASE k # req[r].loc
    BY <1>1, <1>2, <1>4, SafeFrame DEF SetSurvives, Safe
<1> QED
    BY <1>3, <1>4

\* A placeholder is only made where there is no entry: the image is in the file.
LEMMA SafeMiss ==
    ASSUME TypeOK, SetSurvives, NEW r \in Reqs, GetSmallerMiss(r),
           NEW k \in Keys \ lossy', lastSet'[k] # Nil
    PROVE  Safe(k)'
<1> DEFINE j == StorageLevelLoc(req[r].loc)
<1>1. /\ cache \in [Keys -> EntryType] /\ j \in Keys
    BY RequestLoc DEF TypeOK, CacheTypes, EntryType, GetSmallerMiss, Handling
<1>2. /\ cache' = [cache EXCEPT ![j] = Entry(Nil, FALSE, TRUE)] /\ ~cache[j].present
      /\ UNCHANGED <<lastSet, lossy, disk>>
    BY DEF GetSmallerMiss, histVars
<1> HIDE DEF j
<1>3. Safe(k) /\ k \in Keys \ lossy
    BY <1>2 DEF SetSurvives, Safe
<1> QED
    BY <1>1, <1>2, <1>3 DEF Safe, Dirty

\* A load that returns either leaves an unsaved image as it is, or marks it
\* saved and the key counts as lossy.
LEMMA SafeLoad ==
    ASSUME TypeOK, SetSurvives, ReturnLoaded,
           NEW k \in Keys \ lossy', lastSet'[k] # Nil
    PROVE  Safe(k)'
<1> DEFINE h == Head(ioReturn)
           e == AfterLoad(cache[h.loc], h.img)
<1>1. /\ cache \in [Keys -> EntryType] /\ h.loc \in Keys /\ h.img \in Images \cup {Nil}
    BY HeadTypes DEF TypeOK, CacheTypes, EntryType, ReturnLoaded, Load
<1>2. /\ cache' = [cache EXCEPT ![h.loc] = e]
      /\ lossy' = IF Dirty(h.loc) /\ cache[h.loc].img # Nil /\ e.synced
                  THEN lossy \cup {h.loc} ELSE lossy
      /\ UNCHANGED <<lastSet, disk>>
    BY DEF ReturnLoaded
<1>3. Safe(k) /\ k \notin lossy
    BY <1>2 DEF SetSurvives, Safe
<1>4. CASE k = h.loc /\ Dirty(k) /\ cache[k].img = lastSet[k]
    <2>1. ~e.synced /\ cache[k].img # Nil
        BY <1>2, <1>4
    <2>2. e.present /\ e.img = cache[k].img
        BY <1>1, <1>4, <2>1 DEF AfterLoad, Entry, Dirty, EntryType
    <2> QED
        BY <1>1, <1>2, <1>4, <2>1, <2>2 DEF Safe, Dirty
<1>5. CASE disk[k] = lastSet[k]
    BY <1>2, <1>5 DEF Safe
<1>6. CASE k # h.loc
    BY <1>1, <1>2, <1>3, <1>6, SafeFrame
<1> QED
    BY <1>3, <1>4, <1>5, <1>6 DEF Safe

\* Only saved entries are dropped.
LEMMA SafeUnload ==
    ASSUME SetSurvives, NEW S \in SUBSET Keys, Unload(S),
           NEW k \in Keys \ lossy', lastSet'[k] # Nil
    PROVE  Safe(k)'
<1>1. /\ UNCHANGED <<lastSet, lossy, disk>>
      /\ cache'[k] = IF k \in S THEN Absent ELSE cache[k]
      /\ k \in S => ~Dirty(k)
    BY DEF Unload, histVars, Dirty
<1>2. Safe(k)
    BY <1>1 DEF SetSurvives, Safe
<1> QED
    BY <1>1, <1>2 DEF Safe, Dirty

\* os.Create truncates the file of an entry that is unsaved.
LEMMA SafeCreate ==
    ASSUME TypeOK, DirtyHoldsLatest, SetSurvives, NEW j \in Keys, SaveCreate(j),
           NEW k \in Keys \ lossy', lastSet'[k] # Nil
    PROVE  Safe(k)'
<1>1. /\ disk' = [disk EXCEPT ![j] = Torn] /\ UNCHANGED <<cache, lastSet>>
      /\ lossy' = IF cache[j].img = Nil THEN lossy \cup {j} ELSE lossy
      /\ disk \in [Keys -> Images \cup {Nil, Torn}]
      /\ Dirty(j)
    BY DEF SaveCreate, TypeOK, IOTypes, ProcTypes
<1>2. Safe(k)
    BY <1>1 DEF SetSurvives, Safe
<1>3. CASE k = j
    BY <1>1, <1>3 DEF DirtyHoldsLatest, Safe, Dirty
<1>4. CASE k # j
    BY <1>1, <1>2, <1>4, SafeFrame
<1> QED
    BY <1>3, <1>4

\* The end of the save: the file holds the image, or the key is lossy.
LEMMA SafeEncode ==
    ASSUME TypeOK, DirtyHoldsLatest, SetSurvives, SaveEncode,
           NEW k \in Keys \ lossy', lastSet'[k] # Nil
    PROVE  Safe(k)'
<1>1. /\ saving \in Keys /\ Dirty(saving) /\ cache[saving].img # Nil
      /\ disk \in [Keys -> Images \cup {Nil, Torn}]
      /\ cache \in [Keys -> EntryType]
    BY DEF SaveEncode, TypeOK, IOTypes, ProcTypes, CacheTypes, EntryType
<1>2. /\ cache' = [cache EXCEPT ![saving].synced = TRUE] /\ lastSet' = lastSet
      /\ IF disk[saving] = Torn
            THEN disk' = [disk EXCEPT ![saving] = cache[saving].img] /\ lossy' = lossy
            ELSE lossy' = lossy \cup {saving} /\ disk' = disk
    BY DEF SaveEncode
<1>3. Safe(k)
    BY <1>2 DEF SetSurvives, Safe
<1>4. CASE k = saving
    BY <1>1, <1>2, <1>4 DEF DirtyHoldsLatest, Safe
<1>5. CASE k # saving
    BY <1>1, <1>2, <1>3, <1>5, SafeFrame
<1> QED
    BY <1>4, <1>5

\* os.Remove of a file that holds an image makes the key lossy.
LEMMA SafeRemove ==
    ASSUME TypeOK, SetSurvives, NEW w \in Workers, WorkerRemove(w),
           NEW k \in Keys \ lossy', lastSet'[k] # Nil
    PROVE  Safe(k)'
<1> DEFINE j == job[w].loc
<1>1. /\ disk' = [disk EXCEPT ![j] = Nil] /\ UNCHANGED <<cache, lastSet>>
      /\ lossy' = IF disk[j] \in Images THEN lossy \cup {j} ELSE lossy
      /\ disk \in [Keys -> Images \cup {Nil, Torn}]
      /\ lastSet \in [Keys -> Reqs \cup {Nil}]
    BY DEF WorkerRemove, UnchangedByWorker, TypeOK, IOTypes, HistTypes
<1>2. Safe(k)
    BY <1>1 DEF SetSurvives, Safe
<1>3. CASE k = j
    BY <1>1, <1>2, <1>3 DEF Safe, Dirty, Images
<1>4. CASE k # j
    BY <1>1, <1>2, <1>4, SafeFrame
<1> QED
    BY <1>3, <1>4

\* Of the steps, only these touch the entries, the files or the losses.
LEMMA SafeElsewhere ==
    ASSUME [Next]_vars,
           ~\E r \in Reqs : SetApplied(r) \/ GetSmallerMiss(r),
           ~ReturnLoaded, ~\E S \in SUBSET Keys : Unload(S),
           ~\E k \in Keys : SaveCreate(k), ~SaveEncode,
           ~\E w \in Workers : WorkerRemove(w)
    PROVE  UNCHANGED <<cache, lastSet, disk, lossy>>
<1>1. CASE \E r \in Reqs : HandleTask(r)
    BY <1>1 DEF HandleTask, GetLarger, GetHit, GetWait, GetNativeMiss, SetRefused, histVars
<1>2. CASE \E w \in Workers : Worker(w)
    BY <1>2 DEF Worker, WorkerTake, WorkerLoads, WorkerOpenFails, WorkerDecodeFails,
       WorkerReturns, WorkerExits, UnchangedByWorker
<1>3. CASE SaveStep \/ HandleReturn
    BY <1>3 DEF SaveStep, SaveCreateFails, SavePanics, SaveEncodeFails, SaveDone,
       HandleReturn, ReturnError, histVars
<1>4. CASE \/ \E r \in Reqs, c \in Commands, t \in Tiles : Submit(r, c, t)
           \/ TakeTask \/ Autosave \/ LeaveLoop \/ Exit \/ Cancel \/ UNCHANGED vars
    BY <1>4 DEF Submit, TakeTask, Autosave, LeaveLoop, Exit, Cancel, vars, histVars
<1> QED
    BY <1>1, <1>2, <1>3, <1>4 DEF Next

LEMMA NextSetSurvives ==
    TypeOK /\ DirtyHoldsLatest /\ SetSurvives /\ [Next]_vars => SetSurvives'
<1> SUFFICES ASSUME TypeOK, DirtyHoldsLatest, SetSurvives, [Next]_vars,
                    NEW k \in Keys \ lossy', lastSet'[k] # Nil
             PROVE  Safe(k)'
    BY DEF SetSurvives, Safe, Dirty
<1>1. UNCHANGED <<cache, lastSet, disk, lossy>> => Safe(k)'
    BY SafeFrame DEF SetSurvives, Safe
<1> QED
    BY <1>1, SafeElsewhere, SafeSetApplied, SafeMiss, SafeLoad, SafeUnload, SafeCreate,
       SafeEncode, SafeRemove

\* Whatever is loaded, evicted, saved or removed in between, the last image set
\* on a key is in the cache as unsaved or in its file, but for the losses that
\* lossy names (cache.go:347-362, 365-404, io.go:59-95).
THEOREM NoSetIsLost == Spec => []SetSurvives
<1>1. Init => SetSurvives
    BY DEF Init, SetSurvives
<1>2. TypeOK /\ DirtyHoldsLatest /\ SetSurvives /\ [Next]_vars => SetSurvives'
    BY NextSetSurvives
<1> QED
    BY <1>1, <1>2, TypeCorrect, UnsavedIsLatest, PTL DEF Spec

-----------------------------------------------------------------------------
(* The cache implements TileStore *)

\* The images set on a key so far, and the one its file held at the start.
DrawnOn(k) == {Old} \cup {s \in Reqs : status[s] = "applied" /\ req[s].loc = k}

\* Whatever the cache, the files and the loads hold was drawn on their key, and
\* only gets at or below the storage level wait.
CachePictured == \A k \in Keys : cache[k].img \in DrawnOn(k) \cup {Nil}
DiskPictured  == \A k \in Keys : disk[k] \in DrawnOn(k) \cup {Nil, Torn}
LoadsPictured == \A k \in Keys :
    /\ \A w \in Workers :
          job[w] # Idle /\ job[w].loc = k => job[w].img \in DrawnOn(k) \cup {Nil}
    /\ \A i \in DOMAIN ioReturn :
          ioReturn[i].loc = k => ioReturn[i].img \in DrawnOn(k) \cup {Nil}
WaitersInside == \A k \in Keys : \A r \in cacheReturn[k] : req[r].loc.scale # "larger"
Pictured == CachePictured /\ DiskPictured /\ LoadsPictured /\ WaitersInside

\* A get of a tile looks at the tile's native key.
LEMMA NativeKey ==
    ASSUME NEW l \in Locs
    PROVE  /\ StorageLevelLoc(l) = [tile |-> l.tile, scale |-> "native"]
           /\ l.tile \in Tiles
           /\ DrawnOn(StorageLevelLoc(l)) = Promise!Drawn(l.tile)
BY DEF Locs, StorageLevelLoc, DrawnOn, Promise!Drawn

LEMMA PromiseSubmit ==
    ASSUME NEW r \in Reqs, NEW c \in Commands, NEW t \in Tiles, Submit(r, c, t)
    PROVE  Promise!Next
<1>1. Promise!Request(r, c, t)
    BY DEF Submit, Promise!Request
<1> QED
    BY <1>1 DEF Promise!Next

\* A single answer.
LEMMA PromiseAnswer ==
    ASSUME TypeOK, OneHome, NEW r \in Reqs, cur = r, req[r].op = "get",
           NEW img \in DrawnOn(StorageLevelLoc(req[r].loc)) \cup {Nil},
           req[r].loc.scale = "larger" => img = Nil,
           Answer(r, img), req' = req
    PROVE  Promise!Next
<1>1. req[r].loc \in Locs /\ status[r] = "sent"
    BY RequestLoc DEF OneHome
<1>2. /\ req[r].loc.tile \in Tiles /\ img \in Promise!Drawn(req[r].loc.tile) \cup {Nil}
    BY <1>1, NativeKey
<1>3. Promise!Reply({r}, req[r].loc.tile, img)
    <2>1. /\ status' = [q \in Reqs |-> IF q \in {r} THEN "answered" ELSE status[q]]
          /\ reply' = [q \in Reqs |-> IF q \in {r} THEN img ELSE reply[q]]
        BY DEF Answer, TypeOK, ClientTypes
    <2> QED
        BY <1>1, <1>2, <2>1 DEF Promise!Reply
<1> QED
    BY <1>2, <1>3 DEF Promise!Next

\* A set is concluded.
LEMMA PromiseConclude ==
    ASSUME OneHome, NEW r \in Reqs, cur = r, req[r].op = "set",
           Finish(r, IF req[r].loc.scale \in {"zero", "native"} THEN "applied" ELSE "refused"),
           req' = req
    PROVE  Promise!Next
<1>1. Promise!Conclude(r)
    BY DEF OneHome, Finish, Promise!Conclude
<1> QED
    BY <1>1 DEF Promise!Next

LEMMA PromiseHandleTask ==
    ASSUME TypeOK, OneHome, Pictured, NEW r \in Reqs, HandleTask(r)
    PROVE  Promise!Next \/ UNCHANGED <<req, status, reply>>
<1>1. CASE GetLarger(r)
    BY <1>1, PromiseAnswer DEF GetLarger, Handling
<1>2. CASE GetHit(r)
    <2>1. StorageLevelLoc(req[r].loc) \in Keys
        BY <1>2, RequestLoc DEF GetHit, Handling
    <2>2. cache[StorageLevelLoc(req[r].loc)].img
            \in DrawnOn(StorageLevelLoc(req[r].loc)) \cup {Nil}
        BY <2>1 DEF Pictured, CachePictured
    <2> QED
        BY <1>2, <2>2, PromiseAnswer DEF GetHit, Handling
<1>3. CASE GetWait(r) \/ GetNativeMiss(r) \/ GetSmallerMiss(r)
    BY <1>3 DEF GetWait, GetNativeMiss, GetSmallerMiss, clientVars
<1>4. CASE SetRefused(r)
    BY <1>4, PromiseConclude DEF SetRefused, Handling
<1>5. CASE SetApplied(r)
    BY <1>5, PromiseConclude DEF SetApplied, Handling
<1> QED
    BY <1>1, <1>2, <1>3, <1>4, <1>5 DEF HandleTask

\* The image a returned load leaves in its entry was drawn on its key.
LEMMA LoadedPicture ==
    ASSUME TypeOK, Pictured, ReturnLoaded, NEW h, h = Head(ioReturn)
    PROVE  cache'[h.loc].img \in DrawnOn(h.loc) \cup {Nil}
<1>1. /\ h.loc \in Keys /\ cache' = [cache EXCEPT ![h.loc] = AfterLoad(@, h.img)]
    BY Loaded
<1>2. h.img \in DrawnOn(h.loc) \cup {Nil}
    <2>1. ioReturn \in Seq(Load) /\ ioReturn # <<>>
        BY DEF TypeOK, IOTypes, ReturnLoaded
    <2> QED
        BY <1>1, <2>1, Receives DEF Pictured, LoadsPictured
<1>3. cache[h.loc].img \in DrawnOn(h.loc) \cup {Nil} /\ cache[h.loc] \in EntryType
    BY <1>1 DEF Pictured, CachePictured, TypeOK, CacheTypes, EntryType
<1>4. AfterLoad(cache[h.loc], h.img).img \in {cache[h.loc].img, h.img}
    BY <1>3 DEF AfterLoad, Entry, EntryType
<1>5. cache'[h.loc] = AfterLoad(cache[h.loc], h.img)
    BY <1>1 DEF TypeOK, CacheTypes
<1> QED
    BY <1>2, <1>3, <1>4, <1>5

\* All waiters of the key are answered at once with the same image.
LEMMA PromiseReturnLoaded ==
    ASSUME TypeOK, OneHome, Pictured, ReturnLoaded
    PROVE  Promise!Next \/ UNCHANGED <<req, status, reply>>
<1> DEFINE k == Head(ioReturn).loc
           S == cacheReturn[k]
           img == cache'[k].img
<1>1. /\ k \in Keys
      /\ \A r \in Reqs : status'[r] = IF r \in S THEN "answered" ELSE status[r]
      /\ \A r \in Reqs : reply'[r] = IF r \in S THEN img ELSE reply[r]
      /\ DOMAIN status' = Reqs /\ DOMAIN reply' = Reqs
      /\ UNCHANGED req
    BY Loaded
<1>2. /\ status' = [r \in Reqs |-> IF r \in S THEN "answered" ELSE status[r]]
      /\ reply' = [r \in Reqs |-> IF r \in S THEN img ELSE reply[r]]
    <2>1. status' = [r \in Reqs |-> status'[r]] /\ reply' = [r \in Reqs |-> reply'[r]]
        BY DEF ReturnLoaded
    <2> QED
        BY <1>1, <2>1
<1>3. S \subseteq Reqs /\ img \in DrawnOn(k) \cup {Nil}
    BY <1>1, LoadedPicture DEF TypeOK, CacheTypes
<1> HIDE DEF k, img
<1>4. CASE S = {}
    <2>1. status = [r \in Reqs |-> status[r]] /\ reply = [r \in Reqs |-> reply[r]]
        BY DEF TypeOK, ClientTypes
    <2> QED
        BY <1>1, <1>2, <1>4, <2>1
<1>5. CASE S # {}
    <2>1. \A r \in S : /\ status[r] = "sent" /\ req[r].op = "get"
                       /\ StorageLevelLoc(req[r].loc) = k /\ req[r].loc.scale # "larger"
        BY <1>1, <1>3 DEF OneHome, Pictured, WaitersInside, Waiting
    <2>2. \A r \in S : req[r].loc.tile = k.tile
        BY <2>1 DEF StorageLevelLoc
    <2>3. k.tile \in Tiles /\ DrawnOn(k) = Promise!Drawn(k.tile)
        <3>1. PICK r \in S : TRUE
            BY <1>5
        <3>2. req[r].loc \in Locs
            BY <1>3, <2>1, <3>1, RequestLoc
        <3> QED
            BY <2>1, <2>2, <3>2, NativeKey
    <2>4. Promise!Reply(S, k.tile, img)
        BY <1>1, <1>2, <1>3, <1>5, <2>1, <2>2, <2>3 DEF Promise!Reply
    <2> QED
        BY <1>3, <2>3, <2>4 DEF Promise!Next
<1> QED
    BY <1>4, <1>5

\* Every step of the cache is a step of TileStore or one its callers do not see.
LEMMA PromiseStep ==
    ASSUME TypeOK, OneHome, Pictured, [Next]_vars
    PROVE  [Promise!Next]_<<req, status, reply>>
<1>1. CASE \E r \in Reqs, c \in Commands, t \in Tiles : Submit(r, c, t)
    BY <1>1, PromiseSubmit
<1>2. CASE TakeTask
    BY <1>2 DEF TakeTask, clientVars
<1>3. CASE \E r \in Reqs : HandleTask(r)
    BY <1>3, PromiseHandleTask
<1>4. CASE ReturnLoaded
    BY <1>4, PromiseReturnLoaded
<1> QED
    BY <1>1, <1>2, <1>3, <1>4, ElsewhereFrame DEF Next, HandleReturn

\* What was drawn stays drawn.
LEMMA DrawnGrows ==
    ASSUME TypeOK, [Promise!Next]_<<req, status, reply>>, NEW k
    PROVE  DrawnOn(k) \subseteq DrawnOn(k)'
<1>1. status \in [Reqs -> {"new", "sent", "answered", "applied", "refused"}]
    BY DEF TypeOK, ClientTypes
<1>2. CASE Promise!Next
    <2>1. ASSUME NEW r \in Reqs, NEW c \in Commands, NEW t \in Tiles, Promise!Request(r, c, t)
          PROVE  DrawnOn(k) \subseteq DrawnOn(k)'
        <3>1. \A s \in Reqs : status[s] = "applied" => status'[s] = "applied" /\ req'[s] = req[s]
            BY <1>1, <2>1 DEF Promise!Request, TypeOK, ClientTypes
        <3> QED
            BY <3>1 DEF DrawnOn
    <2>2. ASSUME NEW S \in SUBSET Reqs, NEW t \in Tiles, NEW img, Promise!Reply(S, t, img)
          PROVE  DrawnOn(k) \subseteq DrawnOn(k)'
        <3>1. \A s \in Reqs : status[s] = "applied" => status'[s] = "applied" /\ req'[s] = req[s]
            BY <2>2 DEF Promise!Reply
        <3> QED
            BY <3>1 DEF DrawnOn
    <2>3. ASSUME NEW r \in Reqs, Promise!Conclude(r)
          PROVE  DrawnOn(k) \subseteq DrawnOn(k)'
        <3>1. \A s \in Reqs : status[s] = "applied" => status'[s] = "applied" /\ req'[s] = req[s]
            BY <1>1, <2>3 DEF Promise!Conclude
        <3> QED
            BY <3>1 DEF DrawnOn
    <2> QED
        BY <1>2, <2>1, <2>2, <2>3 DEF Promise!Next
<1>3. CASE UNCHANGED <<req, status, reply>>
    BY <1>3 DEF DrawnOn
<1> QED
    BY <1>2, <1>3

\* An entry gets its image from a set, from a load or from nowhere.
LEMMA NextCachePictured ==
    ASSUME TypeOK, Pictured, [Next]_vars, NEW k \in Keys, DrawnOn(k) \subseteq DrawnOn(k)'
    PROVE  cache'[k].img \in DrawnOn(k)' \cup {Nil}
<1>1. cache[k].img \in DrawnOn(k) \cup {Nil} /\ cache \in [Keys -> EntryType]
    BY DEF Pictured, CachePictured, TypeOK, CacheTypes, EntryType
<1>2. CASE cache'[k].img = cache[k].img
    BY <1>1, <1>2
<1>3. ASSUME NEW r \in Reqs, SetApplied(r) PROVE cache'[k].img \in DrawnOn(k)' \cup {Nil}
    <2>1. /\ req[r].loc \in Keys /\ cache' = [cache EXCEPT ![req[r].loc] = AfterSet(@, r)]
          /\ status' = [status EXCEPT ![r] = "applied"] /\ req' = req
        BY <1>3, RequestLoc DEF SetApplied, Handling, Finish
    <2>2. r \in DrawnOn(req[r].loc)'
        BY <2>1 DEF DrawnOn, TypeOK, ClientTypes
    <2>3. CASE k = req[r].loc
        BY <1>1, <2>1, <2>2, <2>3 DEF AfterSet, Entry
    <2>4. CASE k # req[r].loc
        BY <1>1, <1>2, <2>1, <2>4
    <2> QED
        BY <2>3, <2>4
<1>4. ASSUME NEW r \in Reqs, GetSmallerMiss(r) PROVE cache'[k].img \in {cache[k].img, Nil}
    <2>1. cache' = [cache EXCEPT ![StorageLevelLoc(req[r].loc)] = Entry(Nil, FALSE, TRUE)]
        BY <1>4 DEF GetSmallerMiss
    <2> QED
        BY <1>1, <2>1 DEF Entry
<1>5. CASE ReturnLoaded
    <2>1. cache' = [cache EXCEPT ![Head(ioReturn).loc] = AfterLoad(@, Head(ioReturn).img)]
        BY <1>5, Loaded
    <2>2. cache'[Head(ioReturn).loc].img \in DrawnOn(Head(ioReturn).loc) \cup {Nil}
        BY <1>5, LoadedPicture
    <2> QED
        BY <1>1, <2>1, <2>2
<1>6. ASSUME NEW S \in SUBSET Keys, Unload(S) PROVE cache'[k].img \in {cache[k].img, Nil}
    BY <1>6 DEF Unload, Absent
<1>7. CASE SaveEncode
    BY <1>1, <1>2, <1>7 DEF SaveEncode
<1> QED
    BY <1>1, <1>2, <1>3, <1>4, <1>5, <1>6, <1>7, SafeElsewhere DEF SaveCreate,
       WorkerRemove, UnchangedByWorker

\* A file gets its image from its entry.
LEMMA NextDiskPictured ==
    ASSUME TypeOK, Pictured, [Next]_vars, NEW k \in Keys, DrawnOn(k) \subseteq DrawnOn(k)'
    PROVE  disk'[k] \in DrawnOn(k)' \cup {Nil, Torn}
<1>1. /\ disk[k] \in DrawnOn(k) \cup {Nil, Torn} /\ cache[k].img \in DrawnOn(k) \cup {Nil}
      /\ disk \in [Keys -> Images \cup {Nil, Torn}]
    BY DEF Pictured, CachePictured, DiskPictured, TypeOK, IOTypes
<1>2. CASE SaveEncode
    BY <1>1, <1>2 DEF SaveEncode
<1>3. ASSUME NEW j \in Keys, SaveCreate(j) PROVE disk'[k] \in {disk[k], Torn}
    BY <1>1, <1>3 DEF SaveCreate
<1>4. ASSUME NEW w \in Workers, WorkerRemove(w) PROVE disk'[k] \in {disk[k], Nil}
    BY <1>1, <1>4 DEF WorkerRemove
<1> QED
    BY <1>1, <1>2, <1>3, <1>4, DiskWriters

\* A load carries no image, or what its file held when it was read.
LEMMA NextLoadsPictured ==
    ASSUME TypeOK, Pictured, [Next]_vars, NEW k \in Keys, DrawnOn(k) \subseteq DrawnOn(k)'
    PROVE  /\ \A w \in Workers :
                 job'[w] # Idle /\ job'[w].loc = k => job'[w].img \in DrawnOn(k)' \cup {Nil}
           /\ \A i \in DOMAIN ioReturn' :
                 ioReturn'[i].loc = k => ioReturn'[i].img \in DrawnOn(k)' \cup {Nil}
<1> DEFINE Ok(l) == l.loc = k => l.img \in DrawnOn(k)' \cup {Nil}
<1>1. /\ pc \in [Workers -> {"idle", "load", "remove", "return", "exited"}]
      /\ job \in [Workers -> Load \cup {Idle}] /\ ioReturn \in Seq(Load)
      /\ \A w \in Workers : pc[w] \in {"load", "remove", "return"} <=> job[w] # Idle
    BY DEF TypeOK, IOTypes
<1>2. /\ \A w \in Workers : job[w] # Idle => Ok(job[w])
      /\ \A i \in DOMAIN ioReturn : Ok(ioReturn[i])
    BY DEF Pictured, LoadsPictured
<1> SUFFICES /\ \A w \in Workers : job'[w] # Idle => Ok(job'[w])
             /\ \A i \in DOMAIN ioReturn' : Ok(ioReturn'[i])
    OBVIOUS
<1>3. CASE UNCHANGED <<ioReturn, job>>
    BY <1>2, <1>3
<1>4. CASE HandleReturn
    <2>1. ioReturn # <<>> /\ ioReturn' = Tail(ioReturn) /\ UNCHANGED job
        BY <1>4 DEF HandleReturn, ReturnError, ReturnLoaded
    <2>2. \A i \in DOMAIN ioReturn' : i + 1 \in DOMAIN ioReturn /\ ioReturn'[i] = ioReturn[i + 1]
        BY <1>1, <2>1, Receives
    <2> QED
        BY <1>2, <2>1, <2>2
<1>5. ASSUME NEW w \in Workers, Worker(w)
      PROVE  /\ \A v \in Workers : job'[v] # Idle => Ok(job'[v])
             /\ \A i \in DOMAIN ioReturn' : Ok(ioReturn'[i])
    <2>1. /\ \A v \in Workers \ {w} : job'[v] = job[v]
          /\ ~WorkerReturns(w) => UNCHANGED ioReturn
        BY <1>1, <1>5 DEF Worker, WorkerTake, WorkerLoads, WorkerOpenFails,
           WorkerDecodeFails, WorkerRemove, WorkerReturns, WorkerExits
    <2>2. CASE WorkerTake(w)
        <3>1. job'[w].img = Nil
            BY <1>1, <2>2 DEF WorkerTake, Idle
        <3> QED
            BY <1>2, <2>1, <2>2, <3>1 DEF WorkerTake
    <2>3. CASE WorkerLoads(w)
        <3>1. /\ job[w] \in Load /\ disk[job[w].loc] # Torn
              /\ job'[w].loc = job[w].loc /\ job'[w].img = disk[job[w].loc]
            BY <1>1, <2>3 DEF WorkerLoads, Load
        <3>2. disk[k] \in DrawnOn(k) \cup {Nil, Torn}
            BY DEF Pictured, DiskPictured
        <3>3. Ok(job'[w])
            BY <3>1, <3>2
        <3> QED
            BY <1>2, <2>1, <2>3, <3>3 DEF WorkerLoads
    <2>4. CASE WorkerOpenFails(w) \/ WorkerDecodeFails(w) \/ WorkerRemove(w)
        <3>1. job[w] # Idle /\ job'[w].loc = job[w].loc /\ job'[w].img = job[w].img
            BY <1>1, <2>4 DEF WorkerOpenFails, WorkerDecodeFails, WorkerRemove, Load
        <3>2. UNCHANGED ioReturn
            BY <2>4 DEF WorkerOpenFails, WorkerDecodeFails, WorkerRemove
        <3> QED
            BY <1>2, <2>1, <3>1, <3>2
    <2>5. CASE WorkerReturns(w)
        <3>1. /\ job[w] # Idle /\ job[w] \in Load /\ ioReturn' = Append(ioReturn, job[w])
              /\ job'[w] = Idle
            BY <1>1, <2>5 DEF WorkerReturns
        <3>2. \A i \in DOMAIN ioReturn' : ioReturn'[i] = job[w] \/
                 (i \in DOMAIN ioReturn /\ ioReturn'[i] = ioReturn[i])
            <4>1. /\ DOMAIN ioReturn' = 1..(Len(ioReturn) + 1) /\ DOMAIN ioReturn = 1..Len(ioReturn)
                  /\ Len(ioReturn) \in Nat /\ ioReturn'[Len(ioReturn) + 1] = job[w]
                  /\ \A i \in DOMAIN ioReturn : ioReturn'[i] = ioReturn[i]
                BY <1>1, <3>1, Sends
            <4> QED
                BY <4>1
        <3> QED
            BY <1>2, <2>1, <3>1, <3>2
    <2>6. CASE WorkerExits(w)
        BY <1>2, <2>6 DEF WorkerExits
    <2> QED
        BY <1>5, <2>2, <2>3, <2>4, <2>5, <2>6 DEF Worker
<1>6. CASE \E r \in Reqs : HandleTask(r)
    <2>1. UNCHANGED <<ioReturn, job>>
        BY <1>6 DEF HandleTask, GetLarger, GetHit, GetWait, GetNativeMiss, GetSmallerMiss,
           SetRefused, SetApplied, PushLoad, ioVars
    <2> QED
        BY <1>3, <2>1
<1>7. CASE \/ \E r \in Reqs, c \in Commands, t \in Tiles : Submit(r, c, t)
           \/ TakeTask \/ \E S \in SUBSET Keys : Unload(S)
           \/ Autosave \/ LeaveLoop \/ SaveStep \/ Exit \/ Cancel \/ UNCHANGED vars
    <2>1. UNCHANGED <<ioReturn, job>>
        BY <1>7 DEF Submit, TakeTask, Unload, Autosave, LeaveLoop, SaveStep, SaveCreate,
           SaveCreateFails, SaveEncode, SavePanics, SaveEncodeFails, SaveDone, Exit, Cancel,
           vars, ioVars
    <2> QED
        BY <1>3, <2>1
<1> QED
    BY <1>4, <1>5, <1>6, <1>7 DEF Next

\* Gets of larger tiles are answered at once.
LEMMA NextWaitersInside ==
    ASSUME TypeOK, Pictured, [Next]_vars
    PROVE  WaitersInside'
<1>1. /\ cacheReturn \in [Keys -> SUBSET Reqs] /\ WaitersInside
      /\ \A k \in Keys : \A r \in cacheReturn[k] : status[r] # "new"
    BY DEF TypeOK, CacheTypes, TaskTypes, Pictured
<1>2. UNCHANGED <<req, cacheReturn>> => WaitersInside'
    BY <1>1 DEF WaitersInside
<1>3. ASSUME NEW r \in Reqs, NEW c \in Commands, NEW t \in Tiles, Submit(r, c, t)
      PROVE  WaitersInside'
    <2>1. /\ cacheReturn' = cacheReturn /\ status[r] = "new"
          /\ \A q \in Reqs \ {r} : req'[q] = req[q]
        BY <1>3 DEF Submit, TypeOK, ClientTypes
    <2> QED
        BY <1>1, <2>1 DEF WaitersInside
<1>4. ASSUME NEW r \in Reqs, HandleTask(r) PROVE WaitersInside'
    <2>1. /\ req' = req
          /\ \A k \in Keys : \A q \in cacheReturn'[k] :
                q \in cacheReturn[k] \/ (q = r /\ req[r].loc.scale # "larger")
        BY <1>1, <1>4 DEF HandleTask, GetLarger, GetHit, GetWait, GetNativeMiss,
           GetSmallerMiss, SetRefused, SetApplied, clientVars
    <2> QED
        BY <1>1, <2>1 DEF WaitersInside
<1>5. CASE ReturnLoaded
    <2>1. req' = req /\ cacheReturn' = [cacheReturn EXCEPT ![Head(ioReturn).loc] = {}]
        BY <1>5, Loaded
    <2> QED
        BY <1>1, <2>1 DEF WaitersInside
<1>6. CASE TakeTask
    BY <1>2, <1>6 DEF TakeTask, clientVars
<1> QED
    BY <1>2, <1>3, <1>4, <1>5, <1>6, ElsewhereFrame DEF Next, HandleReturn

LEMMA NextPictured == TypeOK /\ OneHome /\ Pictured /\ [Next]_vars => Pictured'
<1> SUFFICES ASSUME TypeOK, OneHome, Pictured, [Next]_vars PROVE Pictured'
    OBVIOUS
<1>1. \A k \in Keys : DrawnOn(k) \subseteq DrawnOn(k)'
    BY PromiseStep, DrawnGrows
<1>2. CachePictured' /\ DiskPictured'
    BY <1>1, NextCachePictured, NextDiskPictured DEF CachePictured, DiskPictured
<1>3. LoadsPictured' /\ WaitersInside'
    BY <1>1, NextLoadsPictured, NextWaitersInside DEF LoadsPictured
<1> QED
    BY <1>2, <1>3 DEF Pictured

\* The cache gives its callers what TileStore promises (cache.go:142-346): every
\* step maps to a step of TileStore or to none, since what the cache, the files
\* and the loads hold was drawn on the tile they belong to.
THEOREM ImplementsTileStore == Spec => KeepsPromise
<1>1. Init => Pictured /\ Promise!Init
    BY DEF Init, Pictured, CachePictured, DiskPictured, LoadsPictured, WaitersInside,
           DrawnOn, Absent, Promise!Init, NoReq
<1>2. TypeOK /\ OneHome /\ Pictured /\ [Next]_vars => Pictured'
    BY NextPictured
<1>3. TypeOK /\ OneHome /\ Pictured /\ [Next]_vars => [Promise!Next]_<<req, status, reply>>
    BY PromiseStep
<1> QED
    BY <1>1, <1>2, <1>3, TypeCorrect, EveryRequestHasAHome, PTL
       DEF Spec, KeepsPromise, Promise!Spec, Promise!vars

=============================================================================
