----------------------------- MODULE ImageCache -----------------------------
(***************************************************************************)
(* The tile image cache: src/imageCache/cache.go and src/imageCache/io.go. *)
(*                                                                         *)
(* One processor goroutine owns the maps "cache" and "cacheReturn".  It    *)
(* selects between client tasks, results of the I/O workers, an autosave   *)
(* ticker, an unload ticker and the cancellation of its context.  A fixed  *)
(* set of I/O workers takes file loads from ioTasks and returns results on *)
(* ioReturn; both channels are bounded, and both sides block on a full     *)
(* one.  Saving is done by the processor itself, on the same files.        *)
(*                                                                         *)
(* Images are abstracted to who drew them: the request that set the image, *)
(* or Old for what the file held when the process started.  A cache key    *)
(* holds one drawn value: a native (S=5) set covers the whole tile, and a  *)
(* zero (S=0) set is stored under its own S=0 key, which has one cell.     *)
(***************************************************************************)
EXTENDS Naturals, Sequences, FiniteSets

CONSTANTS
    Reqs,       \* requests the clients may make, each at most once
    Tiles,      \* storage-level tiles (world, dimension, variant, x, z)
    Workers,    \* the I/O goroutines
    TaskCap,    \* capacity of tasks
    IOCap,      \* capacity of ioTasks, and of ioReturn
    Commands,   \* the [op, scale] pairs clients use
    MaxFaults,  \* bound: how many file operations may fail
    Old,        \* the image a file held at start
    Torn,       \* a file that was truncated and not written again
    Nil         \* nil

Scales == {"zero", "smaller", "native", "larger"}   \* S = 0, 1..4, 5, > 5
Images == Reqs \cup {Old}
Locs   == [tile : Tiles, scale : Scales]
Keys   == [tile : Tiles, scale : {"zero", "native"}]

ASSUME CapsPositive == TaskCap \in Nat \ {0} /\ IOCap \in Nat \ {0}
ASSUME FaultsNat    == MaxFaults \in Nat
ASSUME CommandsOK   == Commands \subseteq [op : {"get", "set"}, scale : Scales]
ASSUME Distinct     == /\ Old \notin Reqs
                       /\ {Nil, Torn} \cap Images = {}
                       /\ Nil # Torn
                       /\ Nil \notin Locs

VARIABLES
    req,          \* what each request asks for: op and loc
    status,       \* how far each request got
    reply,        \* the image sent on the request's ret channel
    tasks,        \* channel of requests
    cur,          \* the request the processor took and is handling, or Nil
    cache,        \* the cached images by key
    cacheReturn,  \* the gets waiting for the load of a key
    ioTasks,      \* channel of keys to load
    ioReturn,     \* channel of finished loads
    pc, job,      \* what each I/O worker does, and the load it carries
    disk,         \* the image files: an image, Nil (no file) or Torn
    proc,         \* what the processor does
    toSave,       \* the keys processSave still has to visit
    saving,       \* the key whose file is truncated and not yet written
    cancelled,    \* ctx.Done() is closed
    faults,       \* file operations that failed so far
    failed,       \* history: keys whose last returned load was an error
    lastSet,      \* history: the last set the processor applied to a key
    lossy         \* history: keys that lost their dirty mark or their file

clientVars == <<req, status, reply>>
ioVars     == <<ioTasks, ioReturn, pc, job>>
saveVars   == <<toSave, saving>>
histVars   == <<failed, lastSet, lossy>>
vars == <<clientVars, tasks, cur, cache, cacheReturn, ioVars, disk, proc,
          saveVars, cancelled, faults, histVars>>

NoReq  == [op |-> "none", loc |-> Nil]
Absent == [present |-> FALSE, img |-> Nil, synced |-> FALSE, unloaded |-> FALSE]
Idle   == [loc |-> Nil, img |-> Nil, ok |-> TRUE]

Entry(img, synced, unloaded) ==
    [present |-> TRUE, img |-> img, synced |-> synced, unloaded |-> unloaded]

\* getStorageLevelLoc: the tile a location lies in.
StorageLevelLoc(loc) == [tile |-> loc.tile, scale |-> "native"]

Dirty(k) == cache[k].present /\ ~cache[k].synced

\* A start of the process: the channels and the map are new, the files are what
\* the last process left.  One that was killed or panicked inside cacheSave,
\* between os.Create and the end of png.Encode, left a torn file.
Init ==
    /\ req = [r \in Reqs |-> NoReq]
    /\ status = [r \in Reqs |-> "new"]
    /\ reply = [r \in Reqs |-> Nil]
    /\ tasks = <<>>
    /\ cur = Nil
    /\ cache = [k \in Keys |-> Absent]
    /\ cacheReturn = [k \in Keys |-> {}]
    /\ ioTasks = <<>>
    /\ ioReturn = <<>>
    /\ pc = [w \in Workers |-> "idle"]
    /\ job = [w \in Workers |-> Idle]
    /\ disk \in [Keys -> {Old, Nil, Torn}]
    /\ proc = "run"
    /\ toSave = {}
    /\ saving = Nil
    /\ cancelled = FALSE
    /\ faults = 0
    /\ failed = {}
    /\ lastSet = [k \in Keys |-> Nil]
    /\ lossy = {}

Alive == proc # "panicked"

-----------------------------------------------------------------------------
(* Clients *)

\* SetCachedImage and GetCachedImageBlocking: send a task, blocking when full.
Submit(r, c, t) ==
    /\ Alive
    /\ status[r] = "new"
    /\ Len(tasks) < TaskCap
    /\ req' = [req EXCEPT ![r] = [op |-> c.op,
                                  loc |-> [tile |-> t, scale |-> c.scale]]]
    /\ status' = [status EXCEPT ![r] = "sent"]
    /\ tasks' = Append(tasks, r)
    /\ UNCHANGED <<reply, cur, cache, cacheReturn, ioVars, disk, proc,
                   saveVars, cancelled, faults, histVars>>

-----------------------------------------------------------------------------
(* The processor: select, then a handler that may block on ioTasks *)

Selecting == proc = "run" /\ cur = Nil

\* case task := <-c.tasks
TakeTask ==
    /\ Selecting
    /\ tasks # <<>>
    /\ cur' = Head(tasks)
    /\ tasks' = Tail(tasks)
    /\ UNCHANGED <<clientVars, cache, cacheReturn, ioVars, disk, proc,
                   saveVars, cancelled, faults, histVars>>

Handling(r, op) == proc = "run" /\ cur = r /\ req[r].op = op

\* task.ret <- image: the client is blocked on the receive.
Answer(r, img) ==
    /\ status' = [status EXCEPT ![r] = "answered"]
    /\ reply' = [reply EXCEPT ![r] = img]

Finish(r, outcome) ==
    /\ status' = [status EXCEPT ![r] = outcome]
    /\ UNCHANGED reply

\* processImageGet, S > StorageLevel: an empty reply.
GetLarger(r) ==
    /\ Handling(r, "get")
    /\ req[r].loc.scale = "larger"
    /\ Answer(r, Nil)
    /\ cur' = Nil
    /\ UNCHANGED <<req, tasks, cache, cacheReturn, ioVars, disk, proc,
                   saveVars, cancelled, faults, histVars>>

\* An entry waiting for its load: imageUnloaded.
PlaceholderIsAnyEntry(e) == e.present       \* mutant: the flag is not looked at
Placeholder(e) == e.present /\ e.unloaded

\* A get the cache can answer.  A native get takes any entry, even a
\* placeholder whose load is still under way; a smaller one a loaded entry.
Hit(r) ==
    LET e == cache[StorageLevelLoc(req[r].loc)]
    IN  e.present /\ (req[r].loc.scale = "native" \/ ~Placeholder(e))

\* processNativeImageGet and processSmallerImageGet, cache hit.
GetHit(r) ==
    /\ Handling(r, "get")
    /\ req[r].loc.scale # "larger"
    /\ Hit(r)
    /\ Answer(r, cache[StorageLevelLoc(req[r].loc)].img)
    /\ cur' = Nil
    /\ UNCHANGED <<req, tasks, cache, cacheReturn, ioVars, disk, proc,
                   saveVars, cancelled, faults, histVars>>

\* processSmallerImageGet on a placeholder: wait for the load under way.
GetWait(r) ==
    LET k == StorageLevelLoc(req[r].loc)
    IN  /\ Handling(r, "get")
        /\ req[r].loc.scale \in {"zero", "smaller"}
        /\ Placeholder(cache[k])
        /\ cacheReturn' = [cacheReturn EXCEPT ![k] = @ \cup {r}]
        /\ cur' = Nil
        /\ UNCHANGED <<clientVars, tasks, cache, ioVars, disk, proc,
                       saveVars, cancelled, faults, histVars>>

\* Mutant: a queue without a bound.
PushLoadUnbounded(k) ==
    /\ ioTasks' = Append(ioTasks, k)
    /\ UNCHANGED <<ioReturn, pc, job>>

\* c.ioTasks <- load: blocks while the channel is full.
PushLoad(k) ==
    /\ Len(ioTasks) < IOCap
    /\ ioTasks' = Append(ioTasks, k)
    /\ UNCHANGED <<ioReturn, pc, job>>

\* processNativeImageGet, not cached: wait and load; no placeholder.
GetNativeMiss(r) ==
    LET k == req[r].loc
    IN  /\ Handling(r, "get")
        /\ req[r].loc.scale = "native"
        /\ ~cache[k].present
        /\ cacheReturn' = [cacheReturn EXCEPT ![k] = @ \cup {r}]
        /\ PushLoad(k)
        /\ cur' = Nil
        /\ UNCHANGED <<clientVars, tasks, cache, disk, proc, saveVars,
                       cancelled, faults, histVars>>

\* processSmallerImageGet, not cached: load, and leave a placeholder whose
\* image is nil and whose SyncedToDisk is the zero value, false.
GetSmallerMiss(r) ==
    LET k == StorageLevelLoc(req[r].loc)
    IN  /\ Handling(r, "get")
        /\ req[r].loc.scale \in {"zero", "smaller"}
        /\ ~cache[k].present
        /\ PushLoad(k)
        /\ cache' = [cache EXCEPT ![k] = Entry(Nil, FALSE, TRUE)]
        /\ cacheReturn' = [cacheReturn EXCEPT ![k] = @ \cup {r}]
        /\ cur' = Nil
        /\ UNCHANGED <<clientVars, tasks, disk, proc, saveVars, cancelled,
                       faults, histVars>>

\* processImageSet refuses scales between the chunk and the storage level.
SetRefused(r) ==
    /\ Handling(r, "set")
    /\ req[r].loc.scale \notin {"native", "zero"}
    /\ Finish(r, "refused")
    /\ cur' = Nil
    /\ UNCHANGED <<req, tasks, cache, cacheReturn, ioVars, disk, proc,
                   saveVars, cancelled, faults, histVars>>

\* Mutant: SyncedToDisk is not cleared when the entry exists.
AfterSetStillSynced(e, r) ==
    Entry(r, e.present /\ e.synced, IF e.present THEN e.unloaded ELSE TRUE)

\* The entry after a set: drawn over, dirty, as loaded as it was.
AfterSet(e, r) ==
    Entry(r, FALSE, IF e.present THEN e.unloaded ELSE TRUE)

\* processImageSet: cache a placeholder and load the file on a miss, then draw.
SetApplied(r) ==
    LET k == req[r].loc
    IN  /\ Handling(r, "set")
        /\ req[r].loc.scale \in {"native", "zero"}
        /\ IF cache[k].present THEN UNCHANGED ioVars ELSE PushLoad(k)
        /\ cache' = [cache EXCEPT ![k] = AfterSet(@, r)]
        /\ lastSet' = [lastSet EXCEPT ![k] = r]
        /\ lossy' = lossy \ {k}
        /\ Finish(r, "applied")
        /\ cur' = Nil
        /\ UNCHANGED <<req, tasks, cacheReturn, disk, proc, saveVars,
                       cancelled, faults, failed>>

\* processReturn of a failed load: logged, the waiters stay where they are.
ReturnError ==
    /\ Selecting
    /\ ioReturn # <<>>
    /\ ~Head(ioReturn).ok
    /\ ioReturn' = Tail(ioReturn)
    /\ failed' = failed \cup {Head(ioReturn).loc}
    /\ UNCHANGED <<clientVars, tasks, cur, cache, cacheReturn, ioTasks, pc,
                   job, disk, proc, saveVars, cancelled, faults, lastSet,
                   lossy>>

\* Mutants of AfterLoad: an entry made from a load is not marked saved; the
\* file is drawn over a pending set.
AfterLoadUnsaved(e, img) ==
    IF ~e.present THEN Entry(img, FALSE, FALSE)
    ELSE IF img = Nil THEN [e EXCEPT !.unloaded = FALSE]
    ELSE IF ~e.unloaded THEN e
    ELSE Entry(IF e.img # Nil THEN e.img ELSE img, TRUE, FALSE)
AfterLoadOverSet(e, img) ==
    IF ~e.present THEN Entry(img, TRUE, FALSE)
    ELSE IF img = Nil THEN [e EXCEPT !.unloaded = FALSE]
    ELSE IF ~e.unloaded THEN e
    ELSE Entry(img, e.synced, FALSE)

\* processReturn and processCacheLoad: the entry once a load has come back.
AfterLoad(e, img) ==
    IF ~e.present THEN Entry(img, TRUE, FALSE)
    ELSE IF img = Nil THEN [e EXCEPT !.unloaded = FALSE]
    ELSE IF ~e.unloaded THEN e
    ELSE Entry(IF e.img # Nil THEN e.img ELSE img, TRUE, FALSE)

\* delete(c.cacheReturn, task.loc)
WithoutWaitersForgotten(k) == cacheReturn   \* mutant: the list is kept
WithoutWaiters(k) == [cacheReturn EXCEPT ![k] = {}]

\* processReturn: update the entry, then processTask for every waiter.
ReturnLoaded ==
    /\ Selecting
    /\ ioReturn # <<>>
    /\ Head(ioReturn).ok
    /\ LET k == Head(ioReturn).loc
           e == AfterLoad(cache[k], Head(ioReturn).img)
           served == {r \in cacheReturn[k] :
                         req[r].loc.scale = "native" \/ ~Placeholder(e)}
       IN  /\ cache' = [cache EXCEPT ![k] = e]
           /\ status' = [r \in Reqs |-> IF r \in served THEN "answered"
                                        ELSE status[r]]
           /\ reply' = [r \in Reqs |-> IF r \in served THEN e.img
                                       ELSE reply[r]]
           /\ cacheReturn' = WithoutWaiters(k)
           /\ failed' = failed \ {k}
           /\ lossy' = IF Dirty(k) /\ cache[k].img # Nil /\ e.synced
                       THEN lossy \cup {k} ELSE lossy
    /\ ioReturn' = Tail(ioReturn)
    /\ UNCHANGED <<req, tasks, cur, ioTasks, pc, job, disk, proc, saveVars,
                   cancelled, faults, lastSet>>

\* processUnload: drop saved entries that are old enough; their age is not
\* refreshed by hits, so any saved entry may be among them.
Unload(S) ==
    /\ Selecting
    /\ S # {}
    /\ S \subseteq {k \in Keys : cache[k].present /\ cache[k].synced}
    /\ cache' = [k \in Keys |-> IF k \in S THEN Absent ELSE cache[k]]
    /\ UNCHANGED <<clientVars, tasks, cur, cacheReturn, ioVars, disk, proc,
                   saveVars, cancelled, faults, histVars>>

-----------------------------------------------------------------------------
(* processSave, run by the processor: nothing else happens on it meanwhile *)

StartSave(next) ==
    /\ proc' = next
    /\ toSave' = {k \in Keys : Dirty(k)}
    /\ UNCHANGED saving

\* case <-autosaveTimer.C
Autosave ==
    /\ Selecting
    /\ \E k \in Keys : Dirty(k)
    /\ StartSave("autosave")
    /\ UNCHANGED <<clientVars, tasks, cur, cache, cacheReturn, ioVars, disk,
                   cancelled, faults, histVars>>

\* Mutant: an unlabelled break leaves the select and not the loop.
LeaveLoopBreaksSelect == Selecting /\ cancelled /\ UNCHANGED vars

\* case <-c.ctx.Done(): leave the loop and save a last time.
LeaveLoop ==
    /\ Selecting
    /\ cancelled
    /\ StartSave("finalsave")
    /\ UNCHANGED <<clientVars, tasks, cur, cache, cacheReturn, ioVars, disk,
                   cancelled, faults, histVars>>

\* cacheSave up to os.Create, which truncates the file in place.
SaveCreate(k) ==
    /\ proc \in {"autosave", "finalsave"}
    /\ saving = Nil
    /\ k \in toSave
    /\ saving' = k
    /\ disk' = [disk EXCEPT ![k] = Torn]
    /\ lossy' = IF cache[k].img = Nil THEN lossy \cup {k} ELSE lossy
    /\ UNCHANGED <<clientVars, tasks, cur, cache, cacheReturn, ioVars, proc,
                   toSave, cancelled, faults, failed, lastSet>>

\* cacheSave fails at MkdirAll or os.Create: skip this entry.
SaveCreateFails(k) ==
    /\ proc \in {"autosave", "finalsave"}
    /\ saving = Nil
    /\ k \in toSave
    /\ faults < MaxFaults
    /\ faults' = faults + 1
    /\ toSave' = toSave \ {k}
    /\ UNCHANGED <<clientVars, tasks, cur, cache, cacheReturn, ioVars, disk,
                   proc, saving, cancelled, histVars>>

\* png.Encode and Close succeed; the entry is marked saved.  If a worker
\* removed the file since os.Create, the image went to an unlinked file.
SaveEncode ==
    /\ Alive /\ saving # Nil
    /\ cache[saving].img # Nil
    /\ IF disk[saving] = Torn
          THEN /\ disk' = [disk EXCEPT ![saving] = cache[saving].img]
               /\ UNCHANGED lossy
          ELSE /\ lossy' = lossy \cup {saving}
               /\ UNCHANGED disk
    /\ cache' = [cache EXCEPT ![saving].synced = TRUE]
    /\ toSave' = toSave \ {saving}
    /\ saving' = Nil
    /\ UNCHANGED <<clientVars, tasks, cur, cacheReturn, ioVars, proc,
                   cancelled, faults, failed, lastSet>>

\* png.Encode of a nil image dereferences it: the process panics.
SavePanics ==
    /\ Alive /\ saving # Nil
    /\ cache[saving].img = Nil
    /\ proc' = "panicked"
    /\ UNCHANGED <<clientVars, tasks, cur, cache, cacheReturn, ioVars, disk,
                   saveVars, cancelled, faults, histVars>>

\* png.Encode or Close fails: the file stays torn, the entry dirty.
SaveEncodeFails ==
    /\ Alive /\ saving # Nil
    /\ cache[saving].img # Nil
    /\ faults < MaxFaults
    /\ faults' = faults + 1
    /\ toSave' = toSave \ {saving}
    /\ saving' = Nil
    /\ UNCHANGED <<clientVars, tasks, cur, cache, cacheReturn, ioVars, disk,
                   proc, cancelled, histVars>>

\* The end of processSave; after the last one, close(c.ioTasks).
SaveDone ==
    /\ proc \in {"autosave", "finalsave"}
    /\ toSave = {}
    /\ proc' = IF proc = "autosave" THEN "run" ELSE "closed"
    /\ UNCHANGED <<clientVars, tasks, cur, cache, cacheReturn, ioVars, disk,
                   saveVars, cancelled, faults, histVars>>

\* c.wg.Wait() returns, in the processor and in WaitExit.
Exit ==
    /\ proc = "closed"
    /\ \A w \in Workers : pc[w] = "exited"
    /\ proc' = "exited"
    /\ UNCHANGED <<clientVars, tasks, cur, cache, cacheReturn, ioVars, disk,
                   saveVars, cancelled, faults, histVars>>

\* The owner of the cache cancels its context.
Cancel ==
    /\ Alive
    /\ ~cancelled
    /\ cancelled' = TRUE
    /\ UNCHANGED <<clientVars, tasks, cur, cache, cacheReturn, ioVars, disk,
                   proc, saveVars, faults, histVars>>

-----------------------------------------------------------------------------
(* The I/O workers: processorIO and cacheLoad *)

UnchangedByWorker ==
    UNCHANGED <<clientVars, tasks, cur, cache, cacheReturn, proc, saveVars,
                cancelled, failed, lastSet>>

\* for task := range in
WorkerTake(w) ==
    /\ Alive
    /\ pc[w] = "idle"
    /\ ioTasks # <<>>
    /\ pc' = [pc EXCEPT ![w] = "load"]
    /\ job' = [job EXCEPT ![w] = [Idle EXCEPT !.loc = Head(ioTasks)]]
    /\ ioTasks' = Tail(ioTasks)
    /\ UNCHANGED <<ioReturn, disk, faults, lossy>> /\ UnchangedByWorker

\* cacheLoad of a missing file (a nil image) or of one that decodes.
WorkerLoads(w) ==
    /\ Alive
    /\ pc[w] = "load"
    /\ disk[job[w].loc] # Torn
    /\ pc' = [pc EXCEPT ![w] = "return"]
    /\ job' = [job EXCEPT ![w].img = disk[job[w].loc]]
    /\ UNCHANGED <<ioTasks, ioReturn, disk, faults, lossy>> /\ UnchangedByWorker

\* os.Open fails for another reason than a missing file.
WorkerOpenFails(w) ==
    /\ Alive
    /\ pc[w] = "load"
    /\ faults < MaxFaults
    /\ faults' = faults + 1
    /\ pc' = [pc EXCEPT ![w] = "return"]
    /\ job' = [job EXCEPT ![w].ok = FALSE]
    /\ UNCHANGED <<ioTasks, ioReturn, disk, lossy>> /\ UnchangedByWorker

\* png.Decode fails on a torn file.
WorkerDecodeFails(w) ==
    /\ Alive
    /\ pc[w] = "load"
    /\ disk[job[w].loc] = Torn
    /\ pc' = [pc EXCEPT ![w] = "remove"]
    /\ job' = [job EXCEPT ![w].ok = FALSE]
    /\ UNCHANGED <<ioTasks, ioReturn, disk, faults, lossy>> /\ UnchangedByWorker

\* os.Remove(fp), whatever the file holds by now.
WorkerRemove(w) ==
    /\ Alive
    /\ pc[w] = "remove"
    /\ disk' = [disk EXCEPT ![job[w].loc] = Nil]
    /\ lossy' = IF disk[job[w].loc] \in Images THEN lossy \cup {job[w].loc}
                ELSE lossy
    /\ pc' = [pc EXCEPT ![w] = "return"]
    /\ UNCHANGED <<job, ioTasks, ioReturn, faults>> /\ UnchangedByWorker

\* out <- task: blocks while ioReturn is full.
WorkerReturns(w) ==
    /\ Alive
    /\ pc[w] = "return"
    /\ Len(ioReturn) < IOCap
    /\ ioReturn' = Append(ioReturn, job[w])
    /\ pc' = [pc EXCEPT ![w] = "idle"]
    /\ job' = [job EXCEPT ![w] = Idle]
    /\ UNCHANGED <<ioTasks, disk, faults, lossy>> /\ UnchangedByWorker

\* The range loop ends when the channel is closed and drained.
WorkerExits(w) ==
    /\ pc[w] = "idle"
    /\ proc = "closed"
    /\ ioTasks = <<>>
    /\ pc' = [pc EXCEPT ![w] = "exited"]
    /\ UNCHANGED <<job, ioTasks, ioReturn, disk, faults, lossy>>
    /\ UnchangedByWorker

-----------------------------------------------------------------------------
HandleTask(r) ==
    \/ GetLarger(r) \/ GetHit(r) \/ GetWait(r)
    \/ GetNativeMiss(r) \/ GetSmallerMiss(r)
    \/ SetRefused(r) \/ SetApplied(r)

HandleReturn == ReturnError \/ ReturnLoaded

SaveStep ==
    \/ \E k \in Keys : SaveCreate(k) \/ SaveCreateFails(k)
    \/ SaveEncode \/ SavePanics \/ SaveEncodeFails \/ SaveDone

Worker(w) ==
    \/ WorkerTake(w) \/ WorkerLoads(w) \/ WorkerOpenFails(w)
    \/ WorkerDecodeFails(w) \/ WorkerRemove(w) \/ WorkerReturns(w)
    \/ WorkerExits(w)

Next ==
    \/ \E r \in Reqs, c \in Commands, t \in Tiles : Submit(r, c, t)
    \/ TakeTask
    \/ \E r \in Reqs : HandleTask(r)
    \/ HandleReturn
    \/ \E S \in SUBSET Keys : Unload(S)
    \/ Autosave \/ LeaveLoop \/ SaveStep \/ Exit
    \/ Cancel
    \/ \E w \in Workers : Worker(w)

Spec == Init /\ [][Next]_vars

(* The Go scheduler runs every goroutine that can run, select picks a ready *)
(* case at random, and the autosave ticker keeps firing.  The unload ticker *)
(* fires too but needs entries of a certain age, and nothing obliges a      *)
(* client to ask or the owner to cancel.                                    *)
Fairness ==
    /\ WF_vars(TakeTask)
    /\ WF_vars(\E r \in Reqs : HandleTask(r))
    /\ WF_vars(HandleReturn)
    /\ WF_vars(Autosave)
    /\ WF_vars(LeaveLoop)
    /\ WF_vars(SaveStep)
    /\ WF_vars(Exit)
    /\ \A w \in Workers : WF_vars(Worker(w))

FairSpec == Spec /\ Fairness

-----------------------------------------------------------------------------
(* Properties *)

\* A load of k is somewhere between ioTasks and the processor.
InFlight(k) ==
    \/ \E i \in DOMAIN ioTasks : ioTasks[i] = k
    \/ \E w \in Workers : pc[w] \in {"load", "remove", "return"} /\ job[w].loc = k
    \/ \E i \in DOMAIN ioReturn : ioReturn[i].loc = k

Queued(r) == \E i \in DOMAIN tasks : tasks[i] = r

Waiting(r) == \E k \in Keys : r \in cacheReturn[k]

ClientTypes ==
    /\ req \in [Reqs -> [op : {"get", "set"}, loc : Locs] \cup {NoReq}]
    /\ status \in [Reqs -> {"new", "sent", "answered", "applied", "refused"}]
    /\ reply \in [Reqs -> Images \cup {Nil}]
    /\ \A r \in Reqs : status[r] = "new" <=> req[r] = NoReq

TaskTypes ==
    /\ tasks \in Seq(Reqs) /\ Len(tasks) <= TaskCap
    /\ cur \in Reqs \cup {Nil}
    /\ \A i \in DOMAIN tasks : status[tasks[i]] # "new"
    /\ cur # Nil => status[cur] # "new"
    /\ \A k \in Keys : \A r \in cacheReturn[k] : status[r] # "new"

CacheTypes ==
    /\ cache \in [Keys -> [present : BOOLEAN, img : Images \cup {Nil},
                           synced : BOOLEAN, unloaded : BOOLEAN]]
    /\ cacheReturn \in [Keys -> SUBSET Reqs]

Load == [loc : Keys, img : Images \cup {Nil}, ok : BOOLEAN]

IOTypes ==
    /\ ioTasks \in Seq(Keys) /\ Len(ioTasks) <= IOCap
    /\ ioReturn \in Seq(Load) /\ Len(ioReturn) <= IOCap
    /\ pc \in [Workers -> {"idle", "load", "remove", "return", "exited"}]
    /\ job \in [Workers -> Load \cup {Idle}]
    /\ \A w \in Workers : pc[w] \in {"load", "remove", "return"} <=> job[w] # Idle
    /\ disk \in [Keys -> Images \cup {Nil, Torn}]

\* While the processor saves, toSave holds dirty keys and saving is one of
\* them; otherwise both are empty, except after a panic.
ProcTypes ==
    /\ proc \in {"run", "autosave", "finalsave", "closed", "exited", "panicked"}
    /\ toSave \in SUBSET Keys
    /\ saving \in toSave \cup {Nil}
    /\ proc \in {"run", "closed", "exited"} => toSave = {}
    /\ \A k \in toSave : Dirty(k)
    /\ cancelled \in BOOLEAN
    /\ faults \in 0..MaxFaults

HistTypes ==
    /\ failed \in SUBSET Keys
    /\ lastSet \in [Keys -> Reqs \cup {Nil}]
    /\ lossy \in SUBSET Keys

\* TypeOK: the shape of every variable, the capacity of every channel
\* (make(chan ..., n) in NewImageCache), and what processSave works through.
TypeOK ==
    ClientTypes /\ TaskTypes /\ CacheTypes /\ IOTypes /\ ProcTypes /\ HistTypes

\* A get parked in cacheReturn, and a placeholder (imageUnloaded), has a load on
\* its way, or the last load of its key failed: processReturn answers every
\* waiter of the key it returns and clears the placeholder, and an error return
\* leaves both stranded (cache.go:323-326).  A file torn by a crash is such an
\* error: the first gets of its tile after the restart strand (io.go:95).
WaitersHaveIO ==
    \A k \in Keys :
        cacheReturn[k] # {} \/ (cache[k].present /\ cache[k].unloaded)
            => InFlight(k) \/ k \in failed

\* A request that was sent and not finished is in exactly one place: the task
\* channel, the processor's hands, or the waiters of its own storage-level
\* key.  So no get is forgotten and none can be answered twice, which on the
\* unbuffered ret channel would block the processor for good.
OneHome ==
    /\ \A r \in Reqs : status[r] = "sent" <=> Queued(r) \/ cur = r \/ Waiting(r)
    /\ \A r \in Reqs : cur = r => ~Queued(r) /\ ~Waiting(r)
    /\ \A r \in Reqs : Queued(r) => ~Waiting(r)
    /\ \A i, j \in DOMAIN tasks : tasks[i] = tasks[j] => i = j
    /\ \A k \in Keys : \A r \in cacheReturn[k] :
          req[r].op = "get" /\ StorageLevelLoc(req[r].loc) = k

\* An unsaved image is the last one set on its key, whatever loads came back
\* since: processCacheLoad draws a pending set over the loaded file.
DirtyHoldsLatest ==
    \A k \in Keys : Dirty(k) /\ cache[k].img # Nil => cache[k].img = lastSet[k]

\* The last image set on a key is in the cache, still to be saved, or in the
\* key's file, except on three paths (lossy): a load returning over a pending
\* set marks it saved, a worker that read a file in the middle of a save
\* removes it, and the save of a nil placeholder truncates it before the panic.
SetSurvives ==
    \A k \in Keys \ lossy : lastSet[k] # Nil =>
        \/ Dirty(k) /\ cache[k].img = lastSet[k]
        \/ disk[k] = lastSet[k]

\* The process dies of a nil image only when somebody asked for a tile below
\* the storage level: native traffic never leaves a nil image to save.
NativeTrafficNeverPanics ==
    Alive \/ \E r \in Reqs : req[r].op = "get" /\ req[r].loc.scale \in {"zero", "smaller"}

\* A file is only ever written with the last image set on its key: no stale
\* load is saved over a newer image.
SaveWritesLatest ==
    [][\A k \in Keys : disk'[k] # disk[k] /\ disk'[k] \in Images
                           => disk'[k] = lastSet[k]]_vars

\* The two ways the channels can wedge: the processor blocked on a full
\* ioTasks while every worker is blocked on a full ioReturn, and, once the
\* processor has left its loop, a worker blocked on a full ioReturn.
Wedged ==
    /\ Len(ioReturn) = IOCap
    /\ \/ /\ proc = "run" /\ cur # Nil /\ Len(ioTasks) = IOCap
          /\ \A w \in Workers : pc[w] = "return"
       \/ /\ proc \in {"finalsave", "closed"}
          /\ \E w \in Workers : pc[w] = "return"

\* Every get is answered, unless the process panics, the cache is shut down
\* or the load of its key fails.
GetAnswered ==
    \A r \in Reqs :
        status[r] = "sent" /\ req[r].op = "get"
          ~> \/ status[r] = "answered" \/ ~Alive \/ cancelled
             \/ \E k \in failed : r \in cacheReturn[k]

\* Every set that was applied reaches its file, or is one of the losses
\* SetSurvives names.
SetReachesDisk ==
    \A r \in Reqs :
        status[r] = "applied"
          ~> \/ ~Alive
             \/ \E k \in Keys :
                   /\ req[r].loc = k
                   /\ lastSet[k] # r \/ disk[k] = r \/ k \in lossy

\* Once the context is cancelled, WaitExit returns.
CacheExits == cancelled ~> proc = "exited" \/ ~Alive

\* With channels of any size, nothing but a wedge or the failed load of its key
\* keeps a get from its answer, and nothing but a wedge the cache from shutting
\* down.
OnlyWedgesStop ==
    /\ \A r \in Reqs :
          status[r] = "sent" /\ req[r].op = "get"
            ~> \/ status[r] = "answered" \/ ~Alive \/ cancelled \/ Wedged
               \/ \E k \in failed : r \in cacheReturn[k]
    /\ cancelled ~> proc = "exited" \/ ~Alive \/ Wedged

\* The cache implements the promise made to its callers: one conclusion per
\* request, and only images drawn on the tile that was asked for.
Promise == INSTANCE TileStore
KeepsPromise == Promise!Spec
=============================================================================
