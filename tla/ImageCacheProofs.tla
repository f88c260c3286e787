-------------------------- MODULE ImageCacheProofs --------------------------
(***************************************************************************)
(* Theorems about ImageCache, for every set of requests, tiles and workers *)
(* and every capacity of the channels.                                     *)
(***************************************************************************)
EXTENDS ImageCache, SequenceTheorems, TLAPS

\* The constants are pairwise different, in the form the provers use.
LEMMA Sentinels ==
    /\ Nil \notin Reqs /\ Nil # Old /\ Nil # Torn
    /\ Torn \notin Reqs /\ Torn # Old /\ Nil \notin Keys
<1>1. Keys \subseteq Locs
    BY DEF Keys, Locs, Scales
<1> QED
    BY <1>1, Distinct DEF Images

\* A location has a storage-level key.
LEMMA StorageKey ==
    ASSUME NEW l \in Locs
    PROVE  StorageLevelLoc(l) \in Keys
BY DEF Locs, Keys, StorageLevelLoc, Scales

LEMMA InitTypeOK == Init => TypeOK
<1> SUFFICES ASSUME Init PROVE TypeOK
    OBVIOUS
<1>1. ClientTypes
    BY DEF Init, ClientTypes, NoReq
<1>2. TaskTypes
    BY CapsPositive DEF Init, TaskTypes
<1>3. CacheTypes
    BY DEF Init, CacheTypes, Absent
<1>4. IOTypes
    BY CapsPositive DEF Init, IOTypes, Images
<1>5. ProcTypes
    <2>1. toSave = {} /\ saving = Nil /\ faults \in 0..MaxFaults
        BY FaultsNat DEF Init
    <2> QED
        BY <2>1 DEF Init, ProcTypes
<1>6. HistTypes
    BY DEF Init, HistTypes
<1> QED
    BY <1>1, <1>2, <1>3, <1>4, <1>5, <1>6 DEF TypeOK

\* What a channel gives and what an entry becomes.
LEMMA HeadTypes ==
    ASSUME TypeOK
    PROVE  /\ tasks # <<>> => /\ Head(tasks) \in Reqs
                              /\ Tail(tasks) \in Seq(Reqs)
                              /\ Len(Tail(tasks)) <= TaskCap
           /\ ioTasks # <<>> => /\ Head(ioTasks) \in Keys
                                /\ Tail(ioTasks) \in Seq(Keys)
                                /\ Len(Tail(ioTasks)) <= IOCap
           /\ ioReturn # <<>> => /\ Head(ioReturn) \in Load
                                 /\ Tail(ioReturn) \in Seq(Load)
                                 /\ Len(Tail(ioReturn)) <= IOCap
BY CapsPositive DEF TypeOK, TaskTypes, IOTypes

EntryType == [present : BOOLEAN, img : Images \cup {Nil},
              synced : BOOLEAN, unloaded : BOOLEAN]

LEMMA AfterLoadType ==
    ASSUME NEW e \in EntryType, NEW img \in Images \cup {Nil}
    PROVE  AfterLoad(e, img) \in EntryType
BY DEF EntryType, AfterLoad, Entry

LEMMA AfterSetType ==
    ASSUME NEW e \in EntryType, NEW r \in Reqs
    PROVE  AfterSet(e, r) \in EntryType /\ ~AfterSet(e, r).synced
                                        /\ AfterSet(e, r).present
BY DEF EntryType, AfterSet, Entry, Images

\* Each part of TypeOK reads only some of the variables.
LEMMA Frames ==
    ASSUME TypeOK
    PROVE  /\ UNCHANGED <<req, status, reply>> => ClientTypes'
           /\ UNCHANGED <<tasks, cur, status, cacheReturn>> => TaskTypes'
           /\ UNCHANGED <<cache, cacheReturn>> => CacheTypes'
           /\ UNCHANGED <<ioTasks, ioReturn, pc, job, disk>> => IOTypes'
           /\ UNCHANGED <<proc, toSave, saving, cancelled, faults, cache>> => ProcTypes'
           /\ UNCHANGED <<failed, lastSet, lossy>> => HistTypes'
BY DEF TypeOK, ClientTypes, TaskTypes, CacheTypes, IOTypes, ProcTypes,
       HistTypes, Dirty

\* The location a submitted request names, and when it is a key.
LEMMA RequestLoc ==
    ASSUME TypeOK, NEW r \in Reqs, req[r].op \in {"get", "set"}
    PROVE  /\ req[r].loc \in Locs
           /\ StorageLevelLoc(req[r].loc) \in Keys
           /\ req[r].loc.scale \in {"native", "zero"} => req[r].loc \in Keys
<1>1. req[r] \in [op : {"get", "set"}, loc : Locs]
    BY DEF TypeOK, ClientTypes, NoReq
<1>2. req[r].loc \in Locs
    BY <1>1
<1>3. req[r].loc.scale \in {"native", "zero"} => req[r].loc \in Keys
    BY <1>2 DEF Locs, Keys
<1> QED
    BY <1>2, <1>3, StorageKey

LEMMA TypeSubmit ==
    ASSUME NEW r \in Reqs, NEW c \in Commands, NEW t \in Tiles, TypeOK, Submit(r, c, t)
    PROVE  TypeOK'
<1>1. ClientTypes'
    <2> DEFINE q == [op |-> c.op, loc |-> [tile |-> t, scale |-> c.scale]]
    <2>1. c.op \in {"get", "set"} /\ c.scale \in Scales
        BY CommandsOK
    <2>2. q \in [op : {"get", "set"}, loc : Locs]
        BY <2>1 DEF Locs
    <2>3. q # NoReq
        BY <2>1 DEF NoReq
    <2>4. req' = [req EXCEPT ![r] = q] /\ status' = [status EXCEPT ![r] = "sent"]
          /\ reply' = reply
        BY DEF Submit
    <2> QED
        BY <2>2, <2>3, <2>4 DEF TypeOK, ClientTypes
<1>2. TaskTypes'
    <2>1. tasks' \in Seq(Reqs) /\ Len(tasks') <= TaskCap
        BY CapsPositive DEF TypeOK, TaskTypes, Submit
    <2>2. \A q \in Reqs : status[q] # "new" => status'[q] # "new"
        BY DEF TypeOK, ClientTypes, Submit
    <2>3. status'[r] # "new"
        BY DEF TypeOK, ClientTypes, Submit
    <2>4. \A i \in DOMAIN tasks' : status'[tasks'[i]] # "new"
        BY <2>2, <2>3 DEF TypeOK, TaskTypes, Submit
    <2> QED
        BY <2>1, <2>2, <2>4, Sentinels DEF TypeOK, TaskTypes, CacheTypes, Submit
<1> QED
    BY Frames, <1>1, <1>2 DEF TypeOK, Submit, ioVars, saveVars, histVars

LEMMA TypeTakeTask ==
    ASSUME TypeOK, TakeTask
    PROVE  TypeOK'
<1>1. TaskTypes'
    BY HeadTypes, Sentinels DEF TypeOK, TaskTypes, TakeTask, Selecting,
       clientVars
<1> QED
    BY Frames, <1>1 DEF TypeOK, TakeTask, ioVars, clientVars, saveVars,
       histVars

LEMMA TypeGetLarger ==
    ASSUME NEW r \in Reqs, TypeOK, GetLarger(r)
    PROVE  TypeOK'
<1>1. ClientTypes'
    BY DEF TypeOK, ClientTypes, GetLarger, Handling, Answer, NoReq
<1>2. TaskTypes'
    BY Sentinels DEF TypeOK, TaskTypes, GetLarger, Handling, Answer
<1> QED
    BY Frames, <1>1, <1>2 DEF TypeOK, GetLarger, Answer, ioVars, saveVars,
       histVars

LEMMA TypeGetHit ==
    ASSUME NEW r \in Reqs, TypeOK, GetHit(r)
    PROVE  TypeOK'
<1>1. ClientTypes'
    <2>1. status[r] # "new" /\ StorageLevelLoc(req[r].loc) \in Keys
        BY RequestLoc, Sentinels DEF TypeOK, TaskTypes, GetHit, Handling
    <2>2. cache[StorageLevelLoc(req[r].loc)].img \in Images \cup {Nil}
        BY <2>1 DEF TypeOK, CacheTypes
    <2> QED
        BY <2>1, <2>2 DEF TypeOK, ClientTypes, GetHit, Answer
<1>2. TaskTypes'
    BY Sentinels DEF TypeOK, TaskTypes, GetHit, Handling, Answer, Hit,
       Placeholder
<1> QED
    BY Frames, <1>1, <1>2 DEF TypeOK, GetHit, Answer, ioVars, saveVars,
       histVars

LEMMA TypeGetWait ==
    ASSUME NEW r \in Reqs, TypeOK, GetWait(r)
    PROVE  TypeOK'
<1>1. TaskTypes'
    BY Sentinels DEF TypeOK, TaskTypes, GetWait, Handling, Placeholder,
       clientVars
<1>2. CacheTypes'
    BY RequestLoc DEF TypeOK, CacheTypes, GetWait, Handling, Placeholder
<1> QED
    BY Frames, <1>1, <1>2 DEF TypeOK, GetWait, ioVars, clientVars, saveVars,
       histVars

LEMMA TypeGetNativeMiss ==
    ASSUME NEW r \in Reqs, TypeOK, GetNativeMiss(r)
    PROVE  TypeOK'
<1>1. TaskTypes'
    BY Sentinels, CapsPositive DEF TypeOK, TaskTypes, GetNativeMiss, Handling,
       PushLoad, clientVars
<1>2. CacheTypes'
    BY RequestLoc DEF TypeOK, CacheTypes, GetNativeMiss, Handling
<1>3. IOTypes'
    <2>1. req[r].loc \in Keys
        BY RequestLoc DEF GetNativeMiss, Handling
    <2> QED
        BY <2>1, CapsPositive DEF TypeOK, IOTypes, GetNativeMiss, PushLoad
<1> QED
    BY Frames, <1>1, <1>2, <1>3 DEF TypeOK, GetNativeMiss, PushLoad,
       clientVars, saveVars, histVars

LEMMA TypeGetSmallerMiss ==
    ASSUME NEW r \in Reqs, TypeOK, GetSmallerMiss(r)
    PROVE  TypeOK'
<1>1. TaskTypes'
    BY Sentinels, CapsPositive DEF TypeOK, TaskTypes, GetSmallerMiss,
       Handling, PushLoad, Entry, clientVars
<1>2. CacheTypes'
    BY RequestLoc DEF TypeOK, CacheTypes, GetSmallerMiss, Handling, PushLoad,
       Entry
<1>3. IOTypes'
    BY CapsPositive, RequestLoc DEF TypeOK, IOTypes, GetSmallerMiss, Handling,
       PushLoad, Entry, Idle, Load
<1>4. ProcTypes'
    BY RequestLoc, FaultsNat DEF TypeOK, ProcTypes, GetSmallerMiss, Handling,
       PushLoad, Entry, saveVars, Dirty
<1> QED
    BY Frames, <1>1, <1>2, <1>3, <1>4 DEF TypeOK, GetSmallerMiss, PushLoad,
       clientVars, saveVars, histVars

LEMMA TypeSetRefused ==
    ASSUME NEW r \in Reqs, TypeOK, SetRefused(r)
    PROVE  TypeOK'
<1>1. ClientTypes'
    BY DEF TypeOK, ClientTypes, SetRefused, Handling, Finish, NoReq
<1>2. TaskTypes'
    BY Sentinels DEF TypeOK, TaskTypes, SetRefused, Handling, Finish
<1> QED
    BY Frames, <1>1, <1>2 DEF TypeOK, SetRefused, Finish, ioVars, saveVars,
       histVars

LEMMA TypeSetApplied ==
    ASSUME NEW r \in Reqs, TypeOK, SetApplied(r)
    PROVE  TypeOK'
<1>1. ClientTypes'
    BY DEF TypeOK, ClientTypes, SetApplied, Handling, Finish, PushLoad, NoReq
<1>2. TaskTypes'
    BY Sentinels, CapsPositive DEF TypeOK, TaskTypes, SetApplied, Handling,
       Finish, PushLoad
<1>3. CacheTypes'
    <2>1. req[r].loc \in Keys
        BY RequestLoc DEF SetApplied, Handling
    <2>2. AfterSet(cache[req[r].loc], r) \in EntryType
        BY <2>1, AfterSetType DEF TypeOK, CacheTypes, EntryType
    <2> QED
        BY <2>1, <2>2 DEF TypeOK, CacheTypes, SetApplied, EntryType
<1>4. IOTypes'
    <2>1. req[r].loc \in Keys
        BY RequestLoc DEF SetApplied, Handling
    <2> QED
        <3>1. CASE cache[req[r].loc].present
            BY <3>1 DEF TypeOK, IOTypes, SetApplied, ioVars
        <3>2. CASE ~cache[req[r].loc].present
            <4>1. /\ Len(ioTasks) < IOCap /\ ioTasks' = Append(ioTasks, req[r].loc)
                  /\ UNCHANGED <<ioReturn, pc, job, disk>>
                BY <3>2 DEF SetApplied, PushLoad
            <4> QED
                BY <2>1, <4>1, CapsPositive DEF TypeOK, IOTypes
        <3> QED
            BY <3>1, <3>2
<1>5. ProcTypes'
    BY RequestLoc, FaultsNat DEF TypeOK, ProcTypes, SetApplied, Handling,
       Finish, PushLoad, saveVars, Dirty
<1>6. HistTypes'
    BY RequestLoc DEF TypeOK, HistTypes, SetApplied, Handling, Finish,
       PushLoad
<1> QED
    BY Frames, <1>1, <1>2, <1>3, <1>4, <1>5, <1>6 DEF TypeOK, SetApplied,
       Finish, PushLoad, ioVars, saveVars

LEMMA TypeReturnError ==
    ASSUME TypeOK, ReturnError
    PROVE  TypeOK'
<1>1. IOTypes'
    BY HeadTypes DEF TypeOK, IOTypes, ReturnError, Selecting, Idle, Load
<1>2. HistTypes'
    BY HeadTypes DEF TypeOK, HistTypes, Load, ReturnError, Selecting
<1> QED
    BY Frames, <1>1, <1>2 DEF TypeOK, ReturnError, clientVars, saveVars

LEMMA TypeReturnLoaded ==
    ASSUME TypeOK, ReturnLoaded
    PROVE  TypeOK'
<1>1. ClientTypes'
    <2> DEFINE k == Head(ioReturn).loc
               e == AfterLoad(cache[k], Head(ioReturn).img)
               served == {r \in cacheReturn[k] :
                            req[r].loc.scale = "native" \/ ~Placeholder(e)}
    <2>1. Head(ioReturn) \in Load
        BY HeadTypes DEF ReturnLoaded
    <2>2. e.img \in Images \cup {Nil}
        BY <2>1, AfterLoadType DEF TypeOK, CacheTypes, EntryType, Load
    <2>3. /\ req' = req
          /\ status' = [r \in Reqs |-> IF r \in served THEN "answered" ELSE status[r]]
          /\ reply' = [r \in Reqs |-> IF r \in served THEN e.img ELSE reply[r]]
        BY DEF ReturnLoaded
    <2>4. \A r \in served : status[r] # "new"
        BY <2>1 DEF TypeOK, TaskTypes, Load
    <2> HIDE DEF e, served
    <2> QED
        BY <2>2, <2>3, <2>4 DEF TypeOK, ClientTypes
<1>2. TaskTypes'
    <2>1. \A q \in Reqs : status[q] # "new" => status'[q] # "new"
        BY DEF ReturnLoaded
    <2>2. \A k \in Keys : cacheReturn'[k] \subseteq cacheReturn[k]
        BY DEF TypeOK, CacheTypes, ReturnLoaded, WithoutWaiters
    <2> QED
        BY <2>1, <2>2, Sentinels DEF TypeOK, TaskTypes, CacheTypes, ReturnLoaded
<1>3. CacheTypes'
    <2> DEFINE k == Head(ioReturn).loc
               e == AfterLoad(cache[k], Head(ioReturn).img)
    <2>1. k \in Keys /\ Head(ioReturn).img \in Images \cup {Nil}
        BY HeadTypes DEF ReturnLoaded, Load
    <2>2. e \in EntryType
        BY <2>1, AfterLoadType DEF TypeOK, CacheTypes, EntryType
    <2>3. cache' = [cache EXCEPT ![k] = e] /\ cacheReturn' = [cacheReturn EXCEPT ![k] = {}]
        BY DEF ReturnLoaded, WithoutWaiters
    <2> QED
        BY <2>1, <2>2, <2>3 DEF TypeOK, CacheTypes, EntryType
<1>4. IOTypes'
    BY HeadTypes, RequestLoc DEF TypeOK, IOTypes, ReturnLoaded, Selecting,
       Dirty, WithoutWaiters, Placeholder, Idle, Load
<1>5. ProcTypes'
    BY RequestLoc, FaultsNat DEF TypeOK, ProcTypes, ReturnLoaded, Selecting,
       Dirty, WithoutWaiters, Placeholder, saveVars
<1>6. HistTypes'
    <2>1. Head(ioReturn).loc \in Keys
        BY HeadTypes DEF ReturnLoaded, Load
    <2>2. /\ failed' = failed \ {Head(ioReturn).loc} /\ lastSet' = lastSet
          /\ lossy' \in {lossy, lossy \cup {Head(ioReturn).loc}}
        BY DEF ReturnLoaded
    <2> QED
        BY <2>1, <2>2 DEF TypeOK, HistTypes
<1> QED
    BY Frames, <1>1, <1>2, <1>3, <1>4, <1>5, <1>6 DEF TypeOK, ReturnLoaded,
       saveVars

LEMMA TypeUnload ==
    ASSUME NEW S \in SUBSET Keys, TypeOK, Unload(S)
    PROVE  TypeOK'
<1>1. CacheTypes'
    BY DEF TypeOK, CacheTypes, Unload, Selecting, Absent
<1>2. ProcTypes'
    BY FaultsNat DEF TypeOK, ProcTypes, Unload, Selecting, Absent, saveVars,
       Dirty
<1> QED
    BY Frames, <1>1, <1>2 DEF TypeOK, Unload, ioVars, clientVars, saveVars,
       histVars

LEMMA TypeAutosave ==
    ASSUME TypeOK, Autosave
    PROVE  TypeOK'
<1>1. ProcTypes'
    BY FaultsNat DEF TypeOK, ProcTypes, Autosave, Selecting, StartSave, Dirty
<1> QED
    BY Frames, <1>1 DEF TypeOK, Autosave, StartSave, ioVars, clientVars,
       histVars

LEMMA TypeLeaveLoop ==
    ASSUME TypeOK, LeaveLoop
    PROVE  TypeOK'
<1>1. ProcTypes'
    BY FaultsNat DEF TypeOK, ProcTypes, LeaveLoop, Selecting, StartSave, Dirty
<1> QED
    BY Frames, <1>1 DEF TypeOK, LeaveLoop, StartSave, ioVars, clientVars,
       histVars

LEMMA TypeSaveCreate ==
    ASSUME NEW k \in Keys, TypeOK, SaveCreate(k)
    PROVE  TypeOK'
<1>1. IOTypes'
    BY DEF TypeOK, IOTypes, SaveCreate, ioVars, Idle, Load
<1>2. ProcTypes'
    BY FaultsNat DEF TypeOK, ProcTypes, SaveCreate, Dirty
<1>3. HistTypes'
    BY DEF TypeOK, HistTypes, SaveCreate
<1> QED
    BY Frames, <1>1, <1>2, <1>3 DEF TypeOK, SaveCreate, ioVars, clientVars

LEMMA TypeSaveCreateFails ==
    ASSUME NEW k \in Keys, TypeOK, SaveCreateFails(k)
    PROVE  TypeOK'
<1>1. ProcTypes'
    BY FaultsNat DEF TypeOK, ProcTypes, SaveCreateFails, Dirty
<1> QED
    BY Frames, <1>1 DEF TypeOK, SaveCreateFails, ioVars, clientVars, histVars

LEMMA TypeSaveEncode ==
    ASSUME TypeOK, SaveEncode
    PROVE  TypeOK'
<1>1. CacheTypes'
    BY DEF TypeOK, ProcTypes, CacheTypes, SaveEncode
<1>2. IOTypes'
    BY DEF TypeOK, IOTypes, CacheTypes, ProcTypes, Images, SaveEncode, Alive,
       ioVars, Idle, Load
<1>3. ProcTypes'
    BY FaultsNat DEF TypeOK, ProcTypes, SaveEncode, Alive, Dirty
<1>4. HistTypes'
    BY DEF TypeOK, HistTypes, ProcTypes, SaveEncode, Alive
<1> QED
    BY Frames, <1>1, <1>2, <1>3, <1>4 DEF TypeOK, SaveEncode, ioVars,
       clientVars

LEMMA TypeSavePanics ==
    ASSUME TypeOK, SavePanics
    PROVE  TypeOK'
<1>1. ProcTypes'
    BY FaultsNat DEF TypeOK, ProcTypes, SavePanics, Alive, saveVars, Dirty
<1> QED
    BY Frames, <1>1 DEF TypeOK, SavePanics, ioVars, clientVars, saveVars,
       histVars

LEMMA TypeSaveEncodeFails ==
    ASSUME TypeOK, SaveEncodeFails
    PROVE  TypeOK'
<1>1. ProcTypes'
    BY FaultsNat DEF TypeOK, ProcTypes, SaveEncodeFails, Alive, Dirty
<1> QED
    BY Frames, <1>1 DEF TypeOK, SaveEncodeFails, ioVars, clientVars, histVars

LEMMA TypeSaveDone ==
    ASSUME TypeOK, SaveDone
    PROVE  TypeOK'
<1>1. ProcTypes'
    BY FaultsNat DEF TypeOK, ProcTypes, SaveDone, saveVars, Dirty
<1> QED
    BY Frames, <1>1 DEF TypeOK, SaveDone, ioVars, clientVars, saveVars,
       histVars

LEMMA TypeExit ==
    ASSUME TypeOK, Exit
    PROVE  TypeOK'
<1>1. ProcTypes'
    BY FaultsNat DEF TypeOK, ProcTypes, Exit, saveVars, Dirty
<1> QED
    BY Frames, <1>1 DEF TypeOK, Exit, ioVars, clientVars, saveVars, histVars

LEMMA TypeCancel ==
    ASSUME TypeOK, Cancel
    PROVE  TypeOK'
<1>1. ProcTypes'
    BY FaultsNat DEF TypeOK, ProcTypes, Cancel, Alive, saveVars, Dirty
<1> QED
    BY Frames, <1>1 DEF TypeOK, Cancel, ioVars, clientVars, saveVars, histVars

LEMMA TypeWorkerTake ==
    ASSUME NEW w \in Workers, TypeOK, WorkerTake(w)
    PROVE  TypeOK'
<1>1. IOTypes'
    <2>1. Head(ioTasks) \in Keys /\ Tail(ioTasks) \in Seq(Keys)
          /\ Len(Tail(ioTasks)) <= IOCap
        BY HeadTypes DEF WorkerTake
    <2> DEFINE j == [Idle EXCEPT !.loc = Head(ioTasks)]
    <2>2. j \in Load /\ j # Idle
        BY <2>1, Sentinels DEF Idle, Load
    <2>3. /\ ioTasks' = Tail(ioTasks) /\ pc' = [pc EXCEPT ![w] = "load"]
          /\ job' = [job EXCEPT ![w] = j] /\ UNCHANGED <<ioReturn, disk>>
        BY DEF WorkerTake
    <2> HIDE DEF j
    <2> QED
        BY <2>1, <2>2, <2>3 DEF TypeOK, IOTypes
<1> QED
    BY Frames, <1>1 DEF TypeOK, WorkerTake, UnchangedByWorker, clientVars,
       saveVars

LEMMA TypeWorkerLoads ==
    ASSUME NEW w \in Workers, TypeOK, WorkerLoads(w)
    PROVE  TypeOK'
<1>1. IOTypes'
    <2> DEFINE j == [job[w] EXCEPT !.img = disk[job[w].loc]]
    <2>1. job[w] \in Load
        BY DEF TypeOK, IOTypes, WorkerLoads
    <2>2. j \in Load /\ j # Idle
        BY <2>1, Sentinels DEF Idle, Load, TypeOK, IOTypes, WorkerLoads
    <2>3. /\ pc' = [pc EXCEPT ![w] = "return"] /\ job' = [job EXCEPT ![w] = j]
          /\ UNCHANGED <<ioTasks, ioReturn, disk>>
        BY <2>1 DEF WorkerLoads, TypeOK, IOTypes
    <2> HIDE DEF j
    <2> QED
        BY <2>2, <2>3 DEF TypeOK, IOTypes
<1> QED
    BY Frames, <1>1 DEF TypeOK, WorkerLoads, UnchangedByWorker, clientVars,
       saveVars

LEMMA TypeWorkerOpenFails ==
    ASSUME NEW w \in Workers, TypeOK, WorkerOpenFails(w)
    PROVE  TypeOK'
<1>1. IOTypes'
    <2> DEFINE j == [job[w] EXCEPT !.ok = FALSE]
    <2>1. job[w] \in Load
        BY DEF TypeOK, IOTypes, WorkerOpenFails
    <2>2. j \in Load /\ j # Idle
        BY <2>1 DEF Idle, Load
    <2>3. /\ pc' = [pc EXCEPT ![w] = "return"] /\ job' = [job EXCEPT ![w] = j]
          /\ UNCHANGED <<ioTasks, ioReturn, disk>>
        BY <2>1 DEF WorkerOpenFails, TypeOK, IOTypes
    <2> HIDE DEF j
    <2> QED
        BY <2>2, <2>3 DEF TypeOK, IOTypes
<1>2. ProcTypes'
    BY FaultsNat DEF TypeOK, ProcTypes, WorkerOpenFails, Alive,
       UnchangedByWorker, saveVars, Dirty
<1> QED
    BY Frames, <1>1, <1>2 DEF TypeOK, WorkerOpenFails, UnchangedByWorker,
       clientVars, saveVars

LEMMA TypeWorkerDecodeFails ==
    ASSUME NEW w \in Workers, TypeOK, WorkerDecodeFails(w)
    PROVE  TypeOK'
<1>1. IOTypes'
    <2> DEFINE j == [job[w] EXCEPT !.ok = FALSE]
    <2>1. job[w] \in Load
        BY DEF TypeOK, IOTypes, WorkerDecodeFails
    <2>2. j \in Load /\ j # Idle
        BY <2>1 DEF Idle, Load
    <2>3. /\ pc' = [pc EXCEPT ![w] = "remove"] /\ job' = [job EXCEPT ![w] = j]
          /\ UNCHANGED <<ioTasks, ioReturn, disk>>
        BY <2>1 DEF WorkerDecodeFails, TypeOK, IOTypes
    <2> HIDE DEF j
    <2> QED
        BY <2>2, <2>3 DEF TypeOK, IOTypes
<1> QED
    BY Frames, <1>1 DEF TypeOK, WorkerDecodeFails, UnchangedByWorker,
       clientVars, saveVars

LEMMA TypeWorkerRemove ==
    ASSUME NEW w \in Workers, TypeOK, WorkerRemove(w)
    PROVE  TypeOK'
<1>1. IOTypes'
    BY DEF TypeOK, IOTypes, WorkerRemove, Alive, Idle, Load
<1>2. HistTypes'
    <2>1. job[w].loc \in Keys
        BY DEF TypeOK, IOTypes, WorkerRemove, Load
    <2> QED
        BY <2>1 DEF TypeOK, HistTypes, WorkerRemove, UnchangedByWorker
<1> QED
    BY Frames, <1>1, <1>2 DEF TypeOK, WorkerRemove, UnchangedByWorker,
       clientVars, saveVars

LEMMA TypeWorkerReturns ==
    ASSUME NEW w \in Workers, TypeOK, WorkerReturns(w)
    PROVE  TypeOK'
<1>1. IOTypes'
    BY CapsPositive DEF TypeOK, IOTypes, WorkerReturns, Alive, Idle, Load
<1> QED
    BY Frames, <1>1 DEF TypeOK, WorkerReturns, UnchangedByWorker, clientVars,
       saveVars

LEMMA TypeWorkerExits ==
    ASSUME NEW w \in Workers, TypeOK, WorkerExits(w)
    PROVE  TypeOK'
<1>1. IOTypes'
    BY DEF TypeOK, IOTypes, WorkerExits, Idle, Load
<1> QED
    BY Frames, <1>1 DEF TypeOK, WorkerExits, UnchangedByWorker, clientVars,
       saveVars

\* Every step keeps the types: the step of each action, and stuttering.
LEMMA NextTypeOK == TypeOK /\ [Next]_vars => TypeOK'
<1> SUFFICES ASSUME TypeOK, [Next]_vars PROVE TypeOK'
    OBVIOUS
<1>1. CASE \E r \in Reqs, c \in Commands, t \in Tiles : Submit(r, c, t)
    BY <1>1, TypeSubmit
<1>2. CASE TakeTask
    BY <1>2, TypeTakeTask
<1>3. CASE \E r \in Reqs : HandleTask(r)
    BY <1>3, TypeGetLarger, TypeGetHit, TypeGetWait, TypeGetNativeMiss,
       TypeGetSmallerMiss, TypeSetRefused, TypeSetApplied DEF HandleTask
<1>4. CASE HandleReturn
    BY <1>4, TypeReturnError, TypeReturnLoaded DEF HandleReturn
<1>5. CASE \E S \in SUBSET Keys : Unload(S)
    BY <1>5, TypeUnload
<1>6. CASE Autosave \/ LeaveLoop
    BY <1>6, TypeAutosave, TypeLeaveLoop
<1>7. CASE SaveStep
    BY <1>7, TypeSaveCreate, TypeSaveCreateFails, TypeSaveEncode,
       TypeSavePanics, TypeSaveEncodeFails, TypeSaveDone DEF SaveStep
<1>8. CASE Exit \/ Cancel
    BY <1>8, TypeExit, TypeCancel
<1>9. CASE \E w \in Workers : Worker(w)
    BY <1>9, TypeWorkerTake, TypeWorkerLoads, TypeWorkerOpenFails,
       TypeWorkerDecodeFails, TypeWorkerRemove, TypeWorkerReturns,
       TypeWorkerExits DEF Worker
<1>10. CASE UNCHANGED vars
    BY <1>10, Frames DEF TypeOK, vars, clientVars, ioVars, saveVars, histVars
<1> QED
    BY <1>1, <1>2, <1>3, <1>4, <1>5, <1>6, <1>7, <1>8, <1>9, <1>10 DEF Next

\* Types, channel capacities and the work list of processSave, for any number
\* of clients, tiles and workers (cache.go:72-131).
THEOREM TypeCorrect == Spec => []TypeOK
<1>1. Init => TypeOK
    BY InitTypeOK
<1>2. TypeOK /\ [Next]_vars => TypeOK'
    BY NextTypeOK
<1> QED
    BY <1>1, <1>2, PTL DEF Spec

-----------------------------------------------------------------------------
(* Unsaved images *)

\* Somebody asked for a tile below the storage level.
AskedBelow == \E r \in Reqs : /\ req[r].op = "get"
                              /\ req[r].loc.scale \in {"zero", "smaller"}

\* What can happen to one cached entry in a step: nothing, a placeholder, a
\* set, the return of a load, eviction, or the end of its save.
Placed(k) == /\ cache'[k] = Entry(Nil, FALSE, TRUE) /\ lastSet'[k] = lastSet[k]
             /\ AskedBelow
Set(k) == \E r \in Reqs : cache'[k] = AfterSet(cache[k], r) /\ lastSet'[k] = r
Kept(k) == /\ Dirty(k)' => Dirty(k) /\ cache'[k].img = cache[k].img
           /\ lastSet'[k] = lastSet[k]

\* A load never makes an unsaved entry: what is unsaved after it was unsaved
\* before, with the same image (cache.go:328-336, 347-362).
LEMMA AfterLoadKept ==
    ASSUME NEW e \in EntryType, NEW img \in Images \cup {Nil},
           AfterLoad(e, img).present, ~AfterLoad(e, img).synced
    PROVE  e.present /\ ~e.synced /\ AfterLoad(e, img).img = e.img
BY DEF EntryType, AfterLoad, Entry

LEMMA PlacedStep ==
    ASSUME TypeOK, NEW r \in Reqs, GetSmallerMiss(r), NEW k \in Keys
    PROVE  Placed(k) \/ Kept(k)
BY RequestLoc DEF TypeOK, CacheTypes, GetSmallerMiss, Handling, Placed, Kept,
                  AskedBelow, Dirty, histVars

LEMMA SetStep ==
    ASSUME TypeOK, NEW r \in Reqs, SetApplied(r), NEW k \in Keys
    PROVE  Set(k) \/ Kept(k)
<1>1. req[r].loc \in Keys
    BY RequestLoc DEF SetApplied, Handling
<1>2. /\ cache' = [cache EXCEPT ![req[r].loc] = AfterSet(@, r)]
      /\ lastSet' = [lastSet EXCEPT ![req[r].loc] = r]
    BY DEF SetApplied
<1>3. CASE k = req[r].loc
    BY <1>1, <1>2, <1>3 DEF TypeOK, CacheTypes, HistTypes, Set
<1>4. CASE k # req[r].loc
    BY <1>1, <1>2, <1>4 DEF TypeOK, CacheTypes, HistTypes, Kept, Dirty
<1> QED
    BY <1>3, <1>4

LEMMA LoadStep ==
    ASSUME TypeOK, ReturnLoaded, NEW k \in Keys
    PROVE  Kept(k)
<1> DEFINE h == Head(ioReturn)
           e == AfterLoad(cache[h.loc], h.img)
<1>1. h.loc \in Keys /\ h.img \in Images \cup {Nil}
    BY HeadTypes DEF ReturnLoaded, Load
<1>2. cache' = [cache EXCEPT ![h.loc] = e] /\ lastSet' = lastSet
    BY DEF ReturnLoaded
<1>3. CASE k = h.loc
    <2>1. cache[k] \in EntryType
        BY DEF TypeOK, CacheTypes, EntryType
    <2>2. cache'[k] = AfterLoad(cache[k], h.img)
        BY <1>1, <1>2, <1>3 DEF TypeOK, CacheTypes
    <2> QED
        BY <1>1, <1>2, <2>1, <2>2, AfterLoadKept DEF Kept, Dirty
<1>4. CASE k # h.loc
    BY <1>1, <1>2, <1>4 DEF TypeOK, CacheTypes, Kept, Dirty
<1> QED
    BY <1>3, <1>4

\* Every step of the program does one of the three to every key.
LEMMA EntryStep ==
    ASSUME TypeOK, [Next]_vars, NEW k \in Keys
    PROVE  Placed(k) \/ Set(k) \/ Kept(k)
<1>1. UNCHANGED <<cache, lastSet>> => Kept(k)
    BY DEF Kept, Dirty
<1>2. CASE UNCHANGED vars
    BY <1>1, <1>2 DEF vars, histVars
<1>3. ASSUME NEW r \in Reqs, HandleTask(r) PROVE Placed(k) \/ Set(k) \/ Kept(k)
    <2>1. CASE GetSmallerMiss(r)
        BY <2>1, PlacedStep
    <2>2. CASE SetApplied(r)
        BY <2>2, SetStep
    <2>3. CASE GetLarger(r) \/ GetHit(r) \/ GetWait(r)
        BY <1>1, <2>3 DEF GetLarger, GetHit, GetWait, histVars
    <2>4. CASE GetNativeMiss(r) \/ SetRefused(r)
        BY <1>1, <2>4 DEF GetNativeMiss, SetRefused, histVars
    <2> QED
        BY <1>3, <2>1, <2>2, <2>3, <2>4 DEF HandleTask
<1>4. CASE HandleReturn
    BY <1>1, <1>4, LoadStep DEF HandleReturn, ReturnError
<1>5. ASSUME NEW S \in SUBSET Keys, Unload(S) PROVE Kept(k)
    BY <1>5 DEF Unload, Kept, Dirty, Absent, histVars
<1>6. CASE SaveStep
    <2>1. CASE SaveEncode
        BY <2>1 DEF TypeOK, CacheTypes, SaveEncode, Kept, Dirty
    <2>2. CASE ~SaveEncode
        BY <1>1, <1>6, <2>2 DEF SaveStep, SaveCreate, SaveCreateFails,
           SavePanics, SaveEncodeFails, SaveDone, histVars
    <2> QED
        BY <2>1, <2>2
<1>7. ASSUME NEW w \in Workers, Worker(w) PROVE Kept(k)
    BY <1>1, <1>7 DEF Worker, WorkerTake, WorkerLoads, WorkerOpenFails,
       WorkerDecodeFails, WorkerRemove, WorkerReturns, WorkerExits,
       UnchangedByWorker
<1>8. CASE \/ \E r \in Reqs, c \in Commands, t \in Tiles : Submit(r, c, t)
           \/ TakeTask \/ Autosave \/ LeaveLoop \/ Exit \/ Cancel
    BY <1>1, <1>8 DEF Submit, TakeTask, Autosave, LeaveLoop, Exit, Cancel,
       histVars
<1> QED
    BY <1>2, <1>3, <1>4, <1>5, <1>6, <1>7, <1>8 DEF Next

\* An unsaved image is always the last one set: with TypeOK it is inductive,
\* since Placed has no image, Set has the new one and Kept the old one.
LEMMA NextDirtyHoldsLatest ==
    TypeOK /\ DirtyHoldsLatest /\ [Next]_vars => DirtyHoldsLatest'
<1> SUFFICES ASSUME TypeOK, DirtyHoldsLatest, [Next]_vars, NEW k \in Keys,
                    Dirty(k)', cache'[k].img # Nil
             PROVE  cache'[k].img = lastSet'[k]
    BY DEF DirtyHoldsLatest, Dirty
<1>1. CASE Placed(k)
    BY <1>1 DEF Placed, Entry
<1>2. CASE Set(k)
    BY <1>2 DEF Set, AfterSet, Entry
<1>3. CASE Kept(k)
    BY <1>3 DEF Kept, DirtyHoldsLatest
<1> QED
    BY <1>1, <1>2, <1>3, EntryStep

\* No load that comes back late replaces an image that was set since and is not
\* saved yet (processCacheLoad, cache.go:347-362, draws the set over the file).
THEOREM UnsavedIsLatest == Spec => []DirtyHoldsLatest
<1>1. Init => DirtyHoldsLatest
    BY DEF Init, DirtyHoldsLatest, Dirty, Absent
<1>2. TypeOK /\ DirtyHoldsLatest /\ [Next]_vars => DirtyHoldsLatest'
    BY NextDirtyHoldsLatest
<1> QED
    BY <1>1, <1>2, TypeCorrect, PTL DEF Spec

\* The files are touched by os.Create, by png.Encode and by os.Remove.
LEMMA DiskWriters ==
    ASSUME [Next]_vars, disk' # disk
    PROVE  \/ SaveEncode
           \/ \E k \in Keys : SaveCreate(k)
           \/ \E w \in Workers : WorkerRemove(w)
<1>1. CASE \E r \in Reqs : HandleTask(r)
    BY <1>1 DEF HandleTask, GetLarger, GetHit, GetWait, GetNativeMiss,
       GetSmallerMiss, SetRefused, SetApplied
<1>2. CASE HandleReturn
    BY <1>2 DEF HandleReturn, ReturnError, ReturnLoaded
<1>3. CASE SaveStep
    BY <1>3 DEF SaveStep, SaveCreateFails, SavePanics, SaveEncodeFails, SaveDone
<1>4. CASE \E w \in Workers : Worker(w)
    BY <1>4 DEF Worker, WorkerTake, WorkerLoads, WorkerOpenFails,
       WorkerDecodeFails, WorkerReturns, WorkerExits
<1>5. CASE \/ \E r \in Reqs, c \in Commands, t \in Tiles : Submit(r, c, t)
           \/ TakeTask \/ \E S \in SUBSET Keys : Unload(S)
           \/ Autosave \/ LeaveLoop \/ Exit \/ Cancel \/ UNCHANGED vars
    BY <1>5 DEF Submit, TakeTask, Unload, Autosave, LeaveLoop, Exit, Cancel,
       vars
<1> QED
    BY <1>1, <1>2, <1>3, <1>4, <1>5 DEF Next

\* Of the three only png.Encode puts an image in a file, and what it writes is
\* an unsaved entry.
LEMMA WritesLatest ==
    ASSUME TypeOK, DirtyHoldsLatest, [Next]_vars, NEW k \in Keys,
           disk'[k] # disk[k], disk'[k] \in Images
    PROVE  disk'[k] = lastSet[k]
<1>1. CASE SaveEncode
    <2>1. saving \in Keys /\ Dirty(saving)
        BY <1>1 DEF TypeOK, ProcTypes, SaveEncode
    <2> QED
        BY <1>1, <2>1 DEF TypeOK, IOTypes, SaveEncode, DirtyHoldsLatest
<1>2. ASSUME NEW c \in Keys, SaveCreate(c) PROVE FALSE
    BY <1>2, Distinct DEF TypeOK, IOTypes, SaveCreate
<1>3. ASSUME NEW w \in Workers, WorkerRemove(w) PROVE FALSE
    BY <1>3, Distinct DEF TypeOK, IOTypes, WorkerRemove
<1> QED
    BY <1>1, <1>2, <1>3, DiskWriters

\* No stale load is saved over a newer image (io.go:59-74 after cache.go:361).
THEOREM SavedIsLatest == Spec => SaveWritesLatest
<1>1. TypeOK /\ DirtyHoldsLatest /\ [Next]_vars
        => [\A k \in Keys : disk'[k] # disk[k] /\ disk'[k] \in Images
                                => disk'[k] = lastSet[k]]_vars
    BY WritesLatest
<1> QED
    BY <1>1, TypeCorrect, UnsavedIsLatest, PTL DEF Spec, SaveWritesLatest

-----------------------------------------------------------------------------
(* The nil image *)

\* Only the placeholder of such a get is unsaved without an image.
NilImagesAskedFor ==
    /\ \A k \in Keys : Dirty(k) /\ cache[k].img = Nil => AskedBelow
    /\ Alive \/ AskedBelow

\* What was asked stays asked.
LEMMA AskedStays == TypeOK /\ [Next]_vars /\ AskedBelow => AskedBelow'
<1> SUFFICES ASSUME TypeOK, [Next]_vars, AskedBelow PROVE AskedBelow'
    OBVIOUS
<1>1. ASSUME NEW r \in Reqs, NEW c \in Commands, NEW t \in Tiles, Submit(r, c, t)
      PROVE  AskedBelow'
    <2>1. PICK q \in Reqs : /\ req[q].op = "get"
                            /\ req[q].loc.scale \in {"zero", "smaller"}
        BY DEF AskedBelow
    <2>2. q # r
        BY <1>1, <2>1 DEF TypeOK, ClientTypes, Submit, NoReq
    <2>3. req'[q] = req[q]
        BY <1>1, <2>2 DEF TypeOK, ClientTypes, Submit
    <2> QED
        BY <2>1, <2>3 DEF AskedBelow
<1>2. CASE ~\E r \in Reqs, c \in Commands, t \in Tiles : Submit(r, c, t)
    <2>1. CASE \E r \in Reqs : HandleTask(r)
        BY <2>1 DEF HandleTask, GetLarger, GetHit, GetWait, GetNativeMiss,
           GetSmallerMiss, SetRefused, SetApplied, clientVars, AskedBelow
    <2>2. CASE HandleReturn \/ SaveStep
        BY <2>2 DEF HandleReturn, ReturnError, ReturnLoaded, SaveStep,
           SaveCreate, SaveCreateFails, SaveEncode, SavePanics,
           SaveEncodeFails, SaveDone, clientVars, AskedBelow
    <2>3. CASE \E w \in Workers : Worker(w)
        BY <2>3 DEF Worker, WorkerTake, WorkerLoads, WorkerOpenFails,
           WorkerDecodeFails, WorkerRemove, WorkerReturns, WorkerExits,
           UnchangedByWorker, clientVars, AskedBelow
    <2>4. CASE \/ TakeTask \/ \E S \in SUBSET Keys : Unload(S)
               \/ Autosave \/ LeaveLoop \/ Exit \/ Cancel \/ UNCHANGED vars
        BY <2>4 DEF TakeTask, Unload, Autosave, LeaveLoop, Exit, Cancel, vars,
           clientVars, AskedBelow
    <2> QED
        BY <1>2, <2>1, <2>2, <2>3, <2>4 DEF Next
<1> QED
    BY <1>1, <1>2

\* Only a save panics.
LEMMA OnlySavePanics ==
    ASSUME [Next]_vars, Alive, ~Alive'
    PROVE  SavePanics
<1>1. CASE \E r \in Reqs : HandleTask(r)
    BY <1>1 DEF HandleTask, GetLarger, GetHit, GetWait, GetNativeMiss,
       GetSmallerMiss, SetRefused, SetApplied, Alive
<1>2. CASE HandleReturn
    BY <1>2 DEF HandleReturn, ReturnError, ReturnLoaded, Alive
<1>3. CASE SaveStep
    BY <1>3 DEF SaveStep, SaveCreate, SaveCreateFails, SaveEncode,
       SaveEncodeFails, SaveDone, Alive
<1>4. CASE \E w \in Workers : Worker(w)
    BY <1>4 DEF Worker, WorkerTake, WorkerLoads, WorkerOpenFails,
       WorkerDecodeFails, WorkerRemove, WorkerReturns, WorkerExits,
       UnchangedByWorker, Alive
<1>5. CASE \/ \E r \in Reqs, c \in Commands, t \in Tiles : Submit(r, c, t)
           \/ TakeTask \/ \E S \in SUBSET Keys : Unload(S)
           \/ Autosave \/ LeaveLoop \/ Exit \/ Cancel \/ UNCHANGED vars
    BY <1>5 DEF Submit, TakeTask, Unload, Autosave, LeaveLoop, StartSave,
       Exit, Cancel, vars, Alive
<1> QED
    BY <1>1, <1>2, <1>3, <1>4, <1>5 DEF Next

LEMMA NextNilImages ==
    TypeOK /\ NilImagesAskedFor /\ [Next]_vars => NilImagesAskedFor'
<1> SUFFICES ASSUME TypeOK, NilImagesAskedFor, [Next]_vars
             PROVE  NilImagesAskedFor'
    OBVIOUS
<1>1. ASSUME NEW k \in Keys, Dirty(k)', cache'[k].img = Nil PROVE AskedBelow'
    <2>1. CASE Set(k)
        BY <1>1, <2>1, Sentinels DEF Set, AfterSet, Entry
    <2>2. CASE Kept(k)
        BY <1>1, <2>2, AskedStays DEF Kept, NilImagesAskedFor
    <2> QED
        BY <2>1, <2>2, EntryStep, AskedStays DEF Placed
<1>2. Alive' \/ AskedBelow'
    <2>1. CASE SavePanics
        <3>1. Dirty(saving) /\ saving \in Keys /\ cache[saving].img = Nil
            BY <2>1 DEF TypeOK, ProcTypes, SavePanics
        <3> QED
            BY <3>1, AskedStays DEF NilImagesAskedFor
    <2>2. CASE ~SavePanics
        BY <2>2, AskedStays, OnlySavePanics DEF NilImagesAskedFor
    <2> QED
        BY <2>1, <2>2
<1> QED
    BY <1>1, <1>2 DEF NilImagesAskedFor, Dirty

\* However many native gets and sets, autosaves and shutdowns there are, the
\* png encoder is never handed a nil image (io.go:38, 69).
THEOREM NativeTrafficIsSafe == Spec => []NativeTrafficNeverPanics
<1>1. Init => NilImagesAskedFor
    BY DEF Init, NilImagesAskedFor, Dirty, Absent, Alive
<1>2. TypeOK /\ NilImagesAskedFor /\ [Next]_vars => NilImagesAskedFor'
    BY NextNilImages
<1>3. NilImagesAskedFor => NativeTrafficNeverPanics
    BY DEF NilImagesAskedFor, NativeTrafficNeverPanics, AskedBelow
<1> QED
    BY <1>1, <1>2, <1>3, TypeCorrect, PTL DEF Spec

=============================================================================
