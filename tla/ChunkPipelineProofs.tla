------------------------- MODULE ChunkPipelineProofs -------------------------
(***************************************************************************)
(* Theorems about ChunkPipeline, for all sets of chunks, requests, readers, *)
(* storages and dimensions, every capacity of the channel and every bound  *)
(* on what goes wrong: the variables keep their types, and the pipeline    *)
(* implements ChunkFate.                                                   *)
(***************************************************************************)
EXTENDS ChunkPipeline, SequenceTheorems, TLAPS

Job == [at : Places, chunk : Proxied \cup {None}, left : SUBSET Storages,
        s : Storages \cup {None}, g : Nat]

-----------------------------------------------------------------------------
(* Type correctness *)

LEMMA IdleIsJob == Idle \in Job /\ Over \in Job
BY DEF Idle, Over, Job, Places

LEMMA InitTypeOK == Init => TypeOK
<1> SUFFICES ASSUME Init PROVE TypeOK
    OBVIOUS
<1>1. work \in [Actors -> Job]
    BY IdleIsJob DEF Init
<1>2. \A o \in Orders : work[o].at \in {"add", "level"} <=> lock = o
    <2> SUFFICES ASSUME NEW o \in Orders
                 PROVE  work[o].at \notin {"add", "level"} /\ lock # o
        OBVIOUS
    <2> QED
        BY Apart DEF Init, Idle, Actors
<1>3. driver \in [Storages -> Nat]
    BY DEF Init, Opened
<1>4. chan \in Seq(Proxied) /\ Len(chan) <= ChanCap
    BY ConstantsOK DEF Init
<1> QED
    BY <1>1, <1>2, <1>3, <1>4 DEF Init, TypeOK, Job, Fates

\* The conjuncts of TypeOK that most steps leave alone.
TypeRest ==
    /\ stored \subseteq Chunks \X Storages
    /\ world \in [Storages -> {"none", "part", "whole"}]
    /\ dims \in [Storages -> SUBSET Dims]
    /\ driver \in [Storages -> Nat] /\ shut \subseteq Storages \X Nat
    /\ scene \in Scenes
    /\ ic \in {"nil", "up", "down"} /\ drawing \subseteq Proxied
    /\ main \in {"run", "web", "clients", "proxy", "cache", "consumer", "storages"}
    /\ blocked \subseteq {"web", "clients", "proxy", "cache", "storages"}
    /\ quit \in {"no", "told", "gone"}
    /\ dead \in {"no", "kill", "exit", "fatal", "race", "cache", "save", "tiles",
                    "noworld"}
    /\ faults \in Nat /\ restarts \in Nat /\ reinits \in Nat

Flags == overlapped \in BOOLEAN /\ hidden \in BOOLEAN

Locked == \A o \in Orders : work[o].at \in {"add", "level"} <=> lock = o

Queue == chan \in Seq(Proxied) /\ Len(chan) <= ChanCap

LEMMA TypeParts ==
    TypeOK <=> /\ fate \in [Chunks -> Fates] /\ Queue /\ work \in [Actors -> Job]
               /\ lock \in {None} \cup Orders \cup Storages /\ Locked /\ TypeRest /\ Flags
BY DEF TypeOK, TypeRest, Flags, Locked, Queue, Job

LEMMA TypePartsNext ==
    /\ fate' \in [Chunks -> Fates] /\ Queue' /\ work' \in [Actors -> Job]
    /\ lock' \in {None} \cup Orders \cup Storages /\ Locked' /\ TypeRest' /\ Flags'
    => TypeOK'
BY DEF TypeOK, TypeRest, Flags, Locked, Queue, Job

LEMMA DieTypeOK ==
    ASSUME TypeOK, NEW why \in {"kill", "exit", "fatal", "race", "cache", "save", "tiles",
                    "noworld"},
           Die(why)
    PROVE  TypeOK'
<1> USE DEF Die
<1>1. fate' \in [Chunks -> Fates]
    BY DEF TypeOK, Fates, Lost
<1>2. Queue'
    BY ConstantsOK DEF Queue
<1>3. work' \in [Actors -> Job] /\ Locked'
    BY IdleIsJob, Apart DEF Actors, Locked, Idle, Over
<1>4. lock' = None /\ TypeRest' /\ Flags'
    BY TypeParts DEF TypeRest, Flags, history, stores
<1> QED
    BY <1>1, <1>2, <1>3, <1>4, TypePartsNext

-----------------------------------------------------------------------------
(* What ties the actors to the chunks *)

Resting == {"idle", "done"}
AtStorage == {"add", "level", "dim", "mkdim", "save", "read", "hung"}

\* Who may be where, and that whoever is at a storage has one.
Stations ==
    /\ \A o \in Orders : work[o].at \in Resting \cup {"add", "level"}
    /\ \A r \in Readers : work[r].at \in Resting \cup {"lookup", "read"}
    /\ \A a \in Actors : work[a].at \in AtStorage => work[a].s \in Storages

\* Whoever works on a chunk holds it, and a handler has not begun before.
Carriers ==
    /\ work[Consumer].at \notin Resting =>
          work[Consumer].chunk \in Proxied /\ fate[work[Consumer].chunk] = "held"
    /\ \A c \in Posted : work[c].at \notin Resting => fate[c] = "held"
    /\ \A c \in Posted : work[c].at = "idle" => fate[c] = "new"

\* The channel holds each of its chunks once, and these are queued.
Queued ==
    /\ \A i \in 1..Len(chan) : fate[chan[i]] = "queued"
    /\ \A i, j \in 1..Len(chan) : chan[i] = chan[j] => i = j

IInv == TypeOK /\ Stations /\ Carriers /\ Queued

\* An actor goes on with what it has.
Advance(a, x) ==
    /\ Goes(a, x) /\ x.chunk = work[a].chunk
    /\ x.at \notin Resting
    /\ x.at \in AtStorage => x.s \in Storages
    /\ a \in Orders => x.at = "level" /\ lock' = lock
    /\ a \in Readers => x.at \in {"lookup", "read"}
    /\ UNCHANGED <<fate, stored>>

\* An actor's turn ends, and with it that of its chunk.
Closes(a) ==
    /\ \E f \in {"kept", "lost"} : Ends(a, f)
    /\ a \in Orders => lock' # a
    /\ \/ UNCHANGED stored
       \/ /\ a \in Posted \cup {Consumer}
          /\ \E s \in Storages : stored' = stored \cup {<<ChunkOf(a), s>>}

\* What every step of a call is.
Turn(a) ==
    /\ work[a].at \notin Resting
    /\ (\E x \in Job : Advance(a, x)) \/ Closes(a)
    /\ lock' = lock \/ (lock = a /\ lock' = None)
    /\ UNCHANGED chan
    /\ TypeRest' /\ Flags'

LEMMA JobTypes ==
    ASSUME TypeOK, NEW a \in Actors
    PROVE  /\ work[a] \in Job
           /\ \A p \in Places : [work[a] EXCEPT !.at = p] \in Job
           /\ \A S \in SUBSET Storages : [work[a] EXCEPT !.left = S] \in Job
BY DEF TypeOK, Job

LEMMA LookupTurn ==
    ASSUME IInv, NEW a \in Actors, NEW s \in Storages, LookupStep(a, s)
    PROVE  Turn(a)
<1> USE DEF LookupStep, At, IInv, NoFault, Fault
<1>1. work[a].at = "lookup" /\ work[a] \in Job /\ a \notin Orders
    BY JobTypes DEF Stations, Resting
<1>2. TypeRest' /\ Flags'
    <2>1. UNCHANGED <<world, dims, driver, shut, scene, ic, drawing, main, blocked, quit, dead,
                      restarts, reinits>>
        BY DEF stores, registry, control
    <2>2. faults' \in Nat /\ stored' = stored
        BY TypeParts DEF TypeRest, GivesUp
    <2>3. overlapped' = overlapped /\ hidden' \in BOOLEAN
        BY TypeParts, Zenon DEF Flags
    <2> QED
        BY <2>1, <2>2, <2>3, TypeParts DEF TypeRest, Flags
<1>3. CASE Goes(a, [work[a] EXCEPT !.left = @ \ {s}]) /\ UNCHANGED <<fate, stored>>
    <2> DEFINE x == [work[a] EXCEPT !.left = @ \ {s}]
    <2>1. x \in Job /\ Advance(a, x)
        BY <1>1, <1>3 DEF Advance, Job, Resting, AtStorage
    <2> QED
        BY <1>1, <1>2, <2>1 DEF Turn, Resting, registry
<1>4. CASE /\ Goes(a, [work[a] EXCEPT !.at = IF a \in Readers THEN "read" ELSE "dim",
                                     !.left = {}, !.s = s, !.g = driver[s]])
           /\ UNCHANGED <<fate, stored>>
    <2> DEFINE x == [work[a] EXCEPT !.at = IF a \in Readers THEN "read" ELSE "dim",
                                    !.left = {}, !.s = s, !.g = driver[s]]
    <2>1. driver[s] \in Nat
        BY DEF TypeOK
    <2>2. x \in Job /\ Advance(a, x)
        BY <1>1, <1>4, <2>1 DEF Advance, Job, Places, Resting, AtStorage
    <2> QED
        BY <1>1, <1>2, <2>2 DEF Turn, Resting, registry
<1>5. CASE GivesUp(a)
    BY <1>1, <1>2, <1>5 DEF Turn, Closes, GivesUp, Resting, registry
<1> QED
    BY <1>3, <1>4, <1>5

\* The two common ways a step of a call ends, for an actor at a storage.
LEMMA GoingOn ==
    ASSUME IInv, NEW a \in Actors \ Readers, NEW where \in AtStorage \ {"read"},
           work[a].at \in AtStorage, To(a, where), a \in Orders => where = "level" /\ lock' = lock,
           lock' = lock \/ (lock = a /\ lock' = None), UNCHANGED <<fate, stored, chan>>,
           TypeRest', Flags'
    PROVE  Turn(a)
<1> DEFINE x == [work[a] EXCEPT !.at = where]
<1>1. work[a].s \in Storages /\ work[a] \in Job
    BY JobTypes DEF IInv, Stations
<1>2. x \in Job /\ x.chunk = work[a].chunk /\ x.at = where /\ x.s = work[a].s
    BY <1>1 DEF Job, Places, AtStorage
<1>3. Advance(a, x)
    BY <1>1, <1>2 DEF Advance, To, AtStorage, Resting
<1> QED
    BY <1>2, <1>3 DEF Turn, AtStorage, Resting

LEMMA GivingUp ==
    ASSUME NEW a \in Actors, work[a].at \notin Resting, GivesUp(a), a \in Orders => lock' # a,
           lock' = lock \/ (lock = a /\ lock' = None), UNCHANGED chan, TypeRest', Flags'
    PROVE  Turn(a)
BY DEF Turn, Closes, GivesUp

\* Orders keep the lock while they are at work, and give it back at the end.
LEMMA Unlocking ==
    ASSUME IInv, NEW a \in Actors, Unlocks(a)
    PROVE  /\ a \in Orders => lock' # a
           /\ lock' = lock \/ (lock = a /\ lock' = None)
BY Apart DEF Unlocks

\* The types of a step that changes at most faults, and one that makes a world.
LEMMA QuietTypes ==
    ASSUME TypeOK, NoFault \/ Fault, stored' \subseteq Chunks \X Storages,
           drawing' \subseteq Proxied, UNCHANGED <<stores, registry, control, history>>
    PROVE  TypeRest' /\ Flags'
<1>1. UNCHANGED <<world, dims, driver, shut, scene, ic, main, blocked, quit, dead, restarts, reinits,
                  overlapped, hidden>>
    BY DEF stores, registry, control, history
<1>2. faults' \in Nat
    BY TypeParts DEF TypeRest, NoFault, Fault
<1> QED
    BY <1>1, <1>2, TypeParts DEF TypeRest, Flags

LEMMA MakingTypes ==
    ASSUME TypeOK, NoFault \/ Fault, UNCHANGED <<stored, drawing>>,
           world' \in [Storages -> {"none", "part", "whole"}],
           overlapped' \in BOOLEAN,
           UNCHANGED <<dims, driver, shut, reinits, control, hidden>>
    PROVE  TypeRest' /\ Flags'
<1>1. UNCHANGED <<scene, ic, main, blocked, quit, dead, restarts>>
    BY DEF control
<1>2. faults' \in Nat
    BY TypeParts DEF TypeRest, NoFault, Fault
<1> QED
    BY <1>1, <1>2, TypeParts DEF TypeRest, Flags

LEMMA ChooseTurn ==
    ASSUME IInv, NEW a \in Actors, Choose(a)
    PROVE  Turn(a)
<1> USE DEF Choose, At, IInv, NoFault
<1>1. work[a].at = "lookup" /\ work[a] \in Job /\ a \notin Orders
    BY JobTypes DEF Stations, Resting
<1>2. TypeRest' /\ Flags'
    <2>1. stored' = stored
        BY DEF GivesUp
    <2> QED
        BY <2>1, QuietTypes, TypeParts DEF TypeRest
<1>3. ASSUME a \notin Readers, UNCHANGED <<fate, stored>>, NEW s \in Choice, driver[s] # 0,
             Goes(a, [work[a] EXCEPT !.at = "add", !.s = s, !.g = driver[s]])
      PROVE  Turn(a)
    <2> DEFINE x == [work[a] EXCEPT !.at = "add", !.s = s, !.g = driver[s]]
    <2>1. s \in Storages /\ driver[s] \in Nat
        BY <1>3, ConstantsOK DEF Choice, TypeOK
    <2>2. x \in Job /\ Advance(a, x)
        BY <1>1, <1>3, <2>1 DEF Advance, Job, Places, Resting, AtStorage
    <2> QED
        BY <1>1, <1>2, <2>2 DEF Turn, Resting, registry
<1>4. CASE GivesUp(a)
    BY <1>1, <1>2, <1>4, GivingUp DEF Resting, registry
<1> QED
    BY <1>3, <1>4

LEMMA MakeWorldTurn ==
    ASSUME IInv, NEW a \in Actors, MakeWorld(a)
    PROVE  Turn(a)
<1> USE DEF MakeWorld, At, IInv
<1>1. work[a].at = "add" /\ work[a].s \in Storages /\ a \notin Readers
    BY JobTypes DEF Stations, Resting, AtStorage
<1>2. overlapped' \in BOOLEAN
    BY Zenon
<1>3. world' \in [Storages -> {"none", "part", "whole"}]
    BY DEF TypeOK
<1>4. TypeRest' /\ Flags'
    BY <1>2, <1>3, MakingTypes DEF GivesUp
<1>5. CASE To(a, "level") /\ UNCHANGED <<fate, stored, lock>>
    BY <1>1, <1>4, <1>5, GoingOn DEF AtStorage
<1>6. CASE GivesUp(a) /\ Unlocks(a)
    BY <1>1, <1>4, <1>6, GivingUp, Unlocking DEF Resting
<1> QED
    BY <1>5, <1>6

LEMMA Creation ==
    ASSUME IInv, NEW a \in Actors \ Readers, work[a].at \in {"add", "level"},
           Created(a), Unlocks(a), UNCHANGED <<stored, chan>>, TypeRest', Flags'
    PROVE  Turn(a)
<1>1. CASE a \in Orders
    BY <1>1, Unlocking DEF Created, Turn, Closes, Resting
<1>2. CASE a \notin Orders
    BY <1>2, GoingOn, Unlocking DEF Created, AtStorage
<1> QED
    BY <1>1, <1>2

LEMMA WriteLevelTurn ==
    ASSUME IInv, NEW a \in Actors, WriteLevel(a)
    PROVE  Turn(a)
<1> USE DEF WriteLevel, At, IInv
<1>1. work[a].at = "level" /\ work[a].s \in Storages /\ a \notin Readers
    BY JobTypes DEF Stations, Resting, AtStorage
<1>2. world' \in [Storages -> {"none", "part", "whole"}]
    BY DEF TypeOK
<1>3. overlapped' = overlapped /\ hidden' = hidden
    BY DEF history
<1>4. TypeRest' /\ Flags'
    BY <1>2, <1>3, MakingTypes, TypeParts DEF GivesUp, Flags
<1>5. CASE Created(a) /\ UNCHANGED stored
    BY <1>1, <1>4, <1>5, Creation
<1>6. CASE GivesUp(a)
    BY <1>1, <1>4, <1>6, GivingUp, Unlocking DEF Resting
<1> QED
    BY <1>5, <1>6

LEMMA InsertWorldTurn ==
    ASSUME IInv, NEW a \in Actors, InsertWorld(a)
    PROVE  Turn(a)
<1> USE DEF InsertWorld, At, IInv
<1>1. work[a].at = "add" /\ work[a].s \in Storages /\ a \notin Readers
    BY JobTypes DEF Stations, Resting, AtStorage
<1>2. world' \in [Storages -> {"none", "part", "whole"}]
    BY DEF TypeOK, GivesUp
<1>3. overlapped' \in BOOLEAN
    BY Zenon
<1>4. TypeRest' /\ Flags'
    BY <1>2, <1>3, MakingTypes DEF GivesUp
<1>5. CASE Created(a) /\ UNCHANGED stored
    BY <1>1, <1>4, <1>5, Creation
<1>6. CASE GivesUp(a)
    BY <1>1, <1>4, <1>6, GivingUp, Unlocking DEF Resting
<1> QED
    BY <1>5, <1>6

\* Who is at a dimension or saves carries a chunk.
LEMMA Carrying ==
    ASSUME IInv, NEW a \in Actors, work[a].at \in {"dim", "mkdim", "save"}
    PROVE  /\ a \in Posted \cup {Consumer} /\ a \notin Orders /\ a \notin Readers
           /\ work[a].s \in Storages
           /\ ChunkOf(a) \in Chunks
           /\ a = Consumer => ChunkOf(a) \in Proxied
           /\ work[a].at \notin Resting
<1>1. work[a].at \notin Resting
    BY DEF Resting
<1>2. a \notin Orders /\ a \notin Readers
    BY <1>1 DEF IInv, Stations
<1>3. work[a].s \in Storages
    BY DEF IInv, Stations, AtStorage
<1>4. a = Consumer => ChunkOf(a) \in Proxied
    BY <1>1 DEF IInv, Carriers, ChunkOf
<1> QED
    BY <1>1, <1>2, <1>3, <1>4 DEF Actors, Chunks, ChunkOf

LEMMA GetDimensionTurn ==
    ASSUME IInv, NEW a \in Actors, GetDimension(a)
    PROVE  Turn(a)
<1> USE DEF GetDimension, At, IInv
<1>1. work[a].at = "dim" /\ a \notin Orders /\ a \notin Readers /\ work[a].at \notin Resting
    BY Carrying
<1>2. lock' = lock
    BY DEF registry
<1>3. TypeRest' /\ Flags'
    <2>1. stored' = stored /\ (NoFault \/ Fault)
        BY DEF GivesUp, Errs
    <2> QED
        BY <2>1, QuietTypes, TypeParts DEF TypeRest
<1>4. ASSUME NEW where \in {"save", "mkdim"}, To(a, where), UNCHANGED <<fate, stored>>
      PROVE  Turn(a)
    BY <1>1, <1>2, <1>3, <1>4, GoingOn DEF AtStorage
<1>5. CASE GivesUp(a)
    BY <1>1, <1>2, <1>3, <1>5, GivingUp
<1> QED
    BY <1>4, <1>5

LEMMA AddDimensionTurn ==
    ASSUME IInv, NEW a \in Actors, AddDimension(a)
    PROVE  Turn(a)
<1> USE DEF AddDimension, At, IInv
<1>1. /\ work[a].at = "mkdim" /\ a \notin Orders /\ a \notin Readers
      /\ work[a].at \notin Resting /\ ChunkOf(a) \in Chunks
    BY Carrying
<1>2. lock' = lock
    BY DEF registry
<1>3. TypeRest' /\ Flags'
    <2>1. UNCHANGED <<world, driver, shut, scene, ic, main, blocked, quit, dead, restarts, reinits,
                      drawing>>
        BY DEF registry, control
    <2>2. stored' = stored /\ faults' \in Nat
        BY TypeParts DEF GivesUp, Errs, NoFault, Fault, TypeRest
    <2>3. dims' \in [Storages -> SUBSET Dims]
        BY <1>1, ConstantsOK DEF TypeOK
    <2>4. overlapped' \in BOOLEAN /\ hidden' = hidden
        BY TypeParts, Zenon DEF Flags
    <2> QED
        BY <2>1, <2>2, <2>3, <2>4, TypeParts DEF TypeRest, Flags
<1>4. CASE To(a, "save") /\ UNCHANGED <<fate, stored>>
    BY <1>1, <1>2, <1>3, <1>4, GoingOn DEF AtStorage
<1>5. CASE GivesUp(a)
    BY <1>1, <1>2, <1>3, <1>5, GivingUp
<1> QED
    BY <1>4, <1>5

LEMMA SaveTurn ==
    ASSUME IInv, NEW a \in Actors, Save(a)
    PROVE  Turn(a)
<1> USE DEF Save, At, IInv
<1>1. /\ a \in Posted \cup {Consumer} /\ a \notin Orders /\ work[a].s \in Storages
      /\ work[a].at \notin Resting /\ ChunkOf(a) \in Chunks
      /\ a = Consumer => ChunkOf(a) \in Proxied
    BY Carrying
<1>2. lock' = lock
    BY DEF registry
<1>3. stored' = stored \/ stored' = stored \cup {<<ChunkOf(a), work[a].s>>}
    BY DEF Copy
<1>4. TypeRest' /\ Flags'
    <2>1. drawing' \subseteq Proxied
        BY <1>1, TypeParts DEF Renders, TypeRest
    <2>2. stored' \subseteq Chunks \X Storages
        BY <1>1, <1>3, TypeParts DEF TypeRest
    <2> QED
        BY <2>1, <2>2, QuietTypes
<1>5. \E f \in {"kept", "lost"} : Ends(a, f)
    OBVIOUS
<1> QED
    BY <1>1, <1>2, <1>3, <1>4, <1>5 DEF Turn, Closes

LEMMA SaveFailsTurn ==
    ASSUME IInv, NEW a \in Actors, SaveFails(a)
    PROVE  Turn(a) \/ Die("save")
<1> USE DEF SaveFails, At, IInv
<1>1. CASE Die("save")
    BY <1>1
<1>2. CASE /\ NoFault /\ GivesUp(a) /\ Renders(a)
           /\ UNCHANGED <<chan, stores, registry, control, history>>
    <2>1. /\ work[a].at \notin Resting /\ a \notin Orders
          /\ a = Consumer => ChunkOf(a) \in Proxied
        BY Carrying
    <2>2. lock' = lock /\ stored' = stored
        BY <1>2 DEF registry, GivesUp
    <2>3. drawing' \subseteq Proxied
        BY <1>2, <2>1, TypeParts DEF Renders, TypeRest
    <2>4. TypeRest' /\ Flags'
        BY <1>2, <2>2, <2>3, QuietTypes, TypeParts DEF TypeRest
    <2> QED
        BY <1>2, <2>1, <2>2, <2>4, GivingUp
<1> QED
    BY <1>1, <1>2

LEMMA SaveForgottenTurn ==
    ASSUME IInv, NEW a \in Actors, SaveForgotten(a)
    PROVE  Turn(a)
<1> USE DEF SaveForgotten, At, IInv
<1>1. work[a].at = "save" /\ a \notin Orders /\ a \notin Readers
    BY Carrying
<1>2. UNCHANGED <<fate, stored, chan, lock>>
    BY DEF chunkVars, registry
<1>3. TypeRest' /\ Flags'
    BY <1>2, QuietTypes, TypeParts DEF TypeRest
<1> QED
    BY <1>1, <1>2, <1>3, GoingOn DEF AtStorage

LEMMA CallTurn ==
    ASSUME IInv, NEW a \in Actors, CallStep(a)
    PROVE  Turn(a) \/ Die("save")
BY LookupTurn, ChooseTurn, MakeWorldTurn, WriteLevelTurn, InsertWorldTurn, GetDimensionTurn,
   AddDimensionTurn, SaveTurn, SaveFailsTurn, SaveForgottenTurn DEF CallStep, Lookup

-----------------------------------------------------------------------------
(* The invariant is inductive *)

LEMMA InitIInv == Init => IInv
<1> SUFFICES ASSUME Init PROVE IInv
    OBVIOUS
<1>1. \A a \in Actors : work[a].at = "idle"
    BY DEF Init, Idle
<1>2. Orders \subseteq Actors /\ Readers \subseteq Actors /\ Posted \subseteq Actors
      /\ Consumer \in Actors /\ Posted \subseteq Chunks
    BY DEF Actors, Chunks
<1>3. Stations
    BY <1>1, <1>2 DEF Stations, Resting, AtStorage
<1>4. Carriers
    BY <1>1, <1>2 DEF Init, Carriers, Resting
<1>5. Queued
    BY DEF Init, Queued
<1> QED
    BY <1>3, <1>4, <1>5, InitTypeOK DEF IInv

\* The chunk of an actor at work is held; two such actors have two chunks.
LEMMA Holding ==
    ASSUME IInv, NEW a \in Posted \cup {Consumer}, work[a].at \notin Resting
    PROVE  /\ ChunkOf(a) \in Chunks /\ fate[ChunkOf(a)] = "held"
           /\ a = Consumer => ChunkOf(a) \in Proxied /\ ChunkOf(a) \notin Posted
           /\ a # Consumer => ChunkOf(a) = a
BY Apart DEF IInv, Carriers, ChunkOf, Chunks

LEMMA AdvanceIInv ==
    ASSUME IInv, NEW a \in Actors, Turn(a), NEW x \in Job, Advance(a, x)
    PROVE  IInv'
<1> USE DEF Turn, Advance, Goes
<1>1. work \in [Actors -> Job] /\ lock \in {None} \cup Orders \cup Storages /\ Locked
    BY TypeParts DEF IInv
<1>2. work' = [work EXCEPT ![a] = x] /\ work'[a] = x
    BY <1>1
<1>3. /\ \A b \in Actors \ {a} : work'[b] = work[b]
      /\ Orders \subseteq Actors /\ Readers \subseteq Actors /\ Posted \subseteq Actors
      /\ Consumer \in Actors
    BY <1>1 DEF Actors
<1>4. TypeOK'
    <2>1. fate' \in [Chunks -> Fates] /\ Queue' /\ work' \in [Actors -> Job]
          /\ lock' \in {None} \cup Orders \cup Storages
        BY <1>1, TypeParts DEF IInv, Queue
    <2>2. Locked'
        <3> SUFFICES ASSUME NEW o \in Orders
                     PROVE  work'[o].at \in {"add", "level"} <=> lock' = o
            BY DEF Locked
        <3>1. CASE o = a
            BY <1>1, <1>2, <3>1 DEF Locked, IInv, Stations
        <3>2. CASE o # a
            BY <1>1, <1>3, <3>2, Apart DEF Locked
        <3> QED
            BY <3>1, <3>2
    <2> QED
        BY <2>1, <2>2, TypePartsNext
<1>5. Stations'
    BY <1>2, <1>3 DEF IInv, Stations
<1>6. Carriers'
    BY <1>2, <1>3 DEF IInv, Carriers, Resting
<1>7. Queued'
    BY DEF IInv, Queued
<1> QED
    BY <1>4, <1>5, <1>6, <1>7 DEF IInv

LEMMA ClosesIInv ==
    ASSUME IInv, NEW a \in Actors, Turn(a), Closes(a)
    PROVE  IInv'
<1> USE DEF Turn, Closes, Goes, Ends
<1>1. work \in [Actors -> Job] /\ lock \in {None} \cup Orders \cup Storages /\ Locked
      /\ fate \in [Chunks -> Fates] /\ Queue
    BY TypeParts DEF IInv
<1>2. work' = [work EXCEPT ![a] = Rest(a)] /\ work'[a] = Rest(a)
    BY <1>1
<1>3. /\ \A b \in Actors \ {a} : work'[b] = work[b]
      /\ Orders \subseteq Actors /\ Readers \subseteq Actors /\ Posted \subseteq Actors
      /\ Consumer \in Actors
    BY <1>1 DEF Actors
<1>4. Rest(a) \in Job /\ Rest(a).at \in Resting /\ (a # Consumer => Rest(a).at = "done")
    BY IdleIsJob DEF Rest, Idle, Over, Resting
<1>5. ASSUME a \in Posted \cup {Consumer}
      PROVE  fate' \in [Chunks -> Fates] /\ Carriers' /\ Queued'
    <2>1. PICK f \in {"kept", "lost"} : fate' = [fate EXCEPT ![ChunkOf(a)] = f]
        BY <1>5
    <2>2. \A c \in Chunks \ {ChunkOf(a)} : fate'[c] = fate[c]
        BY <1>1, <2>1
    <2>3. \A b \in (Posted \cup {Consumer}) \ {a} :
              work[b].at \notin Resting => ChunkOf(b) # ChunkOf(a)
        BY <1>5, Holding
    <2>4. Carriers'
        <3>1. work'[Consumer].at \notin Resting =>
                  work'[Consumer].chunk \in Proxied /\ fate'[work'[Consumer].chunk] = "held"
            BY <1>2, <1>3, <1>4, <2>2, <2>3, Holding DEF ChunkOf
        <3>2. \A c \in Posted : work'[c].at \notin Resting => fate'[c] = "held"
            BY <1>2, <1>3, <1>4, <2>2, <2>3, Holding, Apart DEF ChunkOf, Chunks
        <3>3. \A c \in Posted : work'[c].at = "idle" => fate'[c] = "new"
            <4> SUFFICES ASSUME NEW c \in Posted, work'[c].at = "idle"
                         PROVE  fate'[c] = "new"
                OBVIOUS
            <4>1. c # a /\ work[c].at = "idle"
                BY <1>2, <1>3, <1>4, Apart
            <4>2. c # ChunkOf(a) /\ c \in Chunks
                BY <1>5, <4>1, Holding DEF Chunks
            <4> QED
                BY <2>2, <4>1, <4>2 DEF IInv, Carriers
        <3> QED
            BY <3>1, <3>2, <3>3 DEF Carriers
    <2>5. Queued'
        <3>1. \A i \in 1..Len(chan) : chan[i] \in Chunks /\ chan[i] # ChunkOf(a)
            BY <1>1, <1>5, Holding DEF IInv, Queued, Queue, Chunks
        <3> QED
            BY <2>2, <3>1 DEF IInv, Queued
    <2>6. fate' \in [Chunks -> Fates]
        BY <1>1, <2>1 DEF Fates
    <2> QED
        BY <2>4, <2>5, <2>6
<1>6. ASSUME a \notin Posted \cup {Consumer}
      PROVE  fate' \in [Chunks -> Fates] /\ Carriers' /\ Queued'
    <2>1. fate' = fate
        BY <1>6
    <2>2. Carriers'
        BY <1>3, <1>6, <2>1 DEF IInv, Carriers
    <2> QED
        BY <1>1, <2>1, <2>2 DEF IInv, Queued
<1>7. fate' \in [Chunks -> Fates] /\ Carriers' /\ Queued'
    BY <1>1, <1>5, <1>6
<1>8. TypeOK'
    <2>1. Queue' /\ work' \in [Actors -> Job] /\ lock' \in {None} \cup Orders \cup Storages
        BY <1>1, <1>2, <1>4 DEF Queue
    <2>2. Locked'
        <3> SUFFICES ASSUME NEW o \in Orders
                     PROVE  work'[o].at \in {"add", "level"} <=> lock' = o
            BY DEF Locked
        <3>1. CASE o = a
            BY <1>2, <1>4, <3>1 DEF Resting
        <3>2. CASE o # a
            BY <1>1, <1>3, <3>2, Apart DEF Locked
        <3> QED
            BY <3>1, <3>2
    <2> QED
        BY <1>7, <2>1, <2>2, TypePartsNext
<1>9. Stations'
    BY <1>2, <1>3, <1>4 DEF IInv, Stations, Resting, AtStorage
<1> QED
    BY <1>7, <1>8, <1>9 DEF IInv

LEMMA DieIInv ==
    ASSUME IInv, NEW why \in {"kill", "exit", "fatal", "race", "cache", "save", "tiles",
                    "noworld"},
           Die(why)
    PROVE  IInv'
<1> USE DEF Die
<1>1. TypeOK'
    BY DieTypeOK DEF IInv
<1>2. \A a \in Actors : work'[a].at = IF work[a].at = "idle" THEN "idle" ELSE "done"
    BY DEF Idle, Over
<1>3. Orders \subseteq Actors /\ Readers \subseteq Actors /\ Posted \subseteq Actors
      /\ Consumer \in Actors /\ Posted \subseteq Chunks
    BY DEF Actors, Chunks
<1>4. Stations'
    BY <1>2, <1>3 DEF Stations, Resting, AtStorage
<1>5. Carriers'
    <2>1. \A c \in Posted : work[c].at = "idle" => fate'[c] = "new"
        BY <1>3 DEF IInv, Carriers, Lost
    <2> QED
        BY <1>2, <1>3, <2>1 DEF Carriers, Resting
<1>6. Queued'
    BY DEF Queued
<1> QED
    BY <1>1, <1>4, <1>5, <1>6 DEF IInv

LEMMA TurnIInv ==
    ASSUME IInv, NEW a \in Actors, Turn(a)
    PROVE  IInv'
BY AdvanceIInv, ClosesIInv DEF Turn

\* A step beside the chunks: of main, of the cache or of a storage's handler.
LEMMA AsideIInv ==
    ASSUME IInv, UNCHANGED <<fate, chan, work>>, TypeRest', Flags',
           lock' = lock \/ (lock \in Storages \cup {None} /\ lock' \in Storages \cup {None})
    PROVE  IInv'
<1>1. TypeOK'
    <2>1. fate' \in [Chunks -> Fates] /\ Queue' /\ work' \in [Actors -> Job]
          /\ lock' \in {None} \cup Orders \cup Storages
        BY TypeParts DEF IInv, Queue
    <2>2. Locked'
        BY Apart, TypeParts DEF IInv, Locked
    <2> QED
        BY <2>1, <2>2, TypePartsNext
<1> QED
    BY <1>1 DEF IInv, Stations, Carriers, Queued

\* The steps of the others that only change what main waits for.
Waits == ClientConnects \/ ClientLeaves \/ SessionStays \/ CacheWedges \/ StorageWedges

LEMMA WaitsChange ==
    ASSUME Waits
    PROVE  /\ blocked' \subseteq blocked \cup {"clients", "proxy", "cache", "storages"}
           /\ Alive
           /\ UNCHANGED <<fate, stored, chan, work, world, dims, driver, shut, lock, reinits, ic,
                          main, quit, dead, restarts, scene, overlapped, hidden, drawing, faults>>
BY DEF Waits, ClientConnects, ClientLeaves, SessionStays, CacheWedges, StorageWedges, Blocks,
       chunkVars, stores, registry, history

LEMMA WaitsIInv ==
    ASSUME IInv, Waits
    PROVE  IInv'
<1>1. TypeRest' /\ Flags'
    BY WaitsChange, TypeParts DEF IInv, TypeRest, Flags
<1> QED
    BY <1>1, WaitsChange, AsideIInv

\* The steps of main that do not end the process.
MainStep ==
    \/ Interrupt \/ TokenTaken \/ WebStopped \/ ClientsDropped \/ ProxyStopped \/ CacheStopped
    \/ CloseStorages

\* A step of main changes main, and at most what it waits for, the cache, quit
\* and shut.
LEMMA MainChange ==
    ASSUME MainStep
    PROVE  /\ UNCHANGED <<fate, stored, chan, work, world, dims, driver, lock, reinits, dead,
                          restarts, scene, overlapped, hidden, drawing, faults>>
           /\ Alive
           /\ main' \in {"web", "clients", "proxy", "cache", "consumer", "storages"}
           /\ blocked' \subseteq blocked \cup {"web"}
BY DEF MainStep, Interrupt, TokenTaken, WebStopped, ClientsDropped, ProxyStopped, CacheStopped,
       CloseStorages, Stops, Stopping, chunkVars, stores, registry, history

LEMMA MainIInv ==
    ASSUME IInv, MainStep
    PROVE  IInv'
<1>1. (ic' = ic \/ ic' = "down") /\ (quit' = quit \/ quit' = "told")
    BY DEF MainStep, Interrupt, TokenTaken, WebStopped, ClientsDropped, ProxyStopped,
           CacheStopped, CloseStorages
<1>2. shut' \subseteq Storages \X Nat
    BY TypeParts DEF IInv, TypeRest, MainStep, Interrupt, TokenTaken, WebStopped, ClientsDropped,
           ProxyStopped, CacheStopped, CloseStorages, Stopping, registry, Instance
<1>3. TypeRest' /\ Flags'
    BY <1>1, <1>2, MainChange, TypeParts DEF IInv, TypeRest, Flags
<1> QED
    BY <1>3, MainChange, AsideIInv

LEMMA ExitIInv ==
    ASSUME IInv, ConsumerExit \/ CacheUp
    PROVE  IInv'
<1>1. UNCHANGED <<fate, stored, chan, work, world, dims, driver, shut, lock, reinits, main, blocked, dead,
                  restarts, scene, overlapped, hidden, faults>>
    BY DEF ConsumerExit, CacheUp, chunkVars, stores, registry, history
<1>2. quit' \in {quit, "gone"} /\ ic' \in {ic, "up"} /\ drawing' \in {drawing, {}}
    BY DEF ConsumerExit, CacheUp
<1>3. TypeRest' /\ Flags'
    BY <1>1, <1>2, TypeParts DEF IInv, TypeRest, Flags
<1> QED
    BY <1>1, <1>3, AsideIInv

LEMMA ReinitIInv ==
    ASSUME IInv, NEW s \in Storages, ReinitClose(s) \/ ReinitOpen(s)
    PROVE  IInv'
<1>1. UNCHANGED <<fate, stored, chan, work, world, dims, ic, main, blocked, quit, dead, restarts, scene,
                  overlapped, hidden, drawing, faults>>
    BY DEF ReinitClose, ReinitOpen, chunkVars, stores, control, history, NoFault
<1>2. lock \in Storages \cup {None} /\ lock' \in Storages \cup {None}
    BY DEF ReinitClose, ReinitOpen
<1>3. reinits' \in Nat /\ shut' \subseteq Storages \X Nat /\ driver' \in [Storages -> Nat]
    BY TypeParts DEF IInv, TypeRest, ReinitClose, ReinitOpen, Instance
<1>4. TypeRest' /\ Flags'
    BY <1>1, <1>3, TypeParts DEF IInv, TypeRest, Flags
<1> QED
    BY <1>1, <1>2, <1>4, AsideIInv

LEMMA RestartIInv ==
    ASSUME IInv, Restart
    PROVE  IInv'
<1> USE DEF Restart
<1>1. UNCHANGED <<fate, stored, chan, world, dims, lock, reinits, scene, overlapped, hidden,
                  drawing, faults>>
    BY DEF chunkVars, stores, history
<1>2. /\ work' = [work EXCEPT ![Consumer] = Idle]
      /\ work \in [Actors -> Job] /\ Consumer \in Actors
      /\ Orders \subseteq Actors /\ Readers \subseteq Actors /\ Posted \subseteq Actors
    BY TypeParts DEF IInv, Actors
<1>3. work'[Consumer].at = "idle" /\ \A a \in Actors \ {Consumer} : work'[a] = work[a]
    BY <1>2 DEF Idle
<1>4. TypeRest' /\ Flags'
    <2>1. driver' \in [Storages -> Nat] /\ restarts' \in Nat
        BY TypeParts DEF IInv, TypeRest, Opened
    <2> QED
        BY <1>1, <2>1, TypeParts DEF IInv, TypeRest, Flags
<1>5. TypeOK'
    <2>1. fate' \in [Chunks -> Fates] /\ Queue' /\ work' \in [Actors -> Job]
          /\ lock' \in {None} \cup Orders \cup Storages
        BY <1>1, <1>2, TypeParts, IdleIsJob DEF IInv, Queue
    <2>2. Locked'
        BY <1>1, <1>2, <1>3, Apart, TypeParts DEF IInv, Locked
    <2> QED
        BY <1>4, <2>1, <2>2, TypePartsNext
<1>6. Stations'
    BY <1>2, <1>3, Apart DEF IInv, Stations, AtStorage
<1>7. Carriers'
    BY <1>1, <1>2, <1>3, Apart DEF IInv, Carriers, Resting
<1>8. Queued'
    BY <1>1 DEF IInv, Queued
<1> QED
    BY <1>5, <1>6, <1>7, <1>8 DEF IInv

\* What the lemmas on the chunks' own steps start from.
LEMMA Facts ==
    ASSUME IInv
    PROVE  /\ fate \in [Chunks -> Fates] /\ work \in [Actors -> Job] /\ chan \in Seq(Proxied)
           /\ Len(chan) <= ChanCap /\ Locked /\ lock \in {None} \cup Orders \cup Storages
           /\ TypeRest /\ Flags
           /\ Orders \subseteq Actors /\ Readers \subseteq Actors /\ Posted \subseteq Actors
           /\ Consumer \in Actors /\ Posted \subseteq Chunks /\ Proxied \subseteq Chunks
           /\ Consumer \notin Posted
BY TypeParts, Apart DEF IInv, Actors, Chunks, Queue

\* An acceptor hands a chunk on: only fate and chan change.
LEMMA CollectIInv ==
    ASSUME IInv, NEW c \in Proxied, Collect(c)
    PROVE  IInv'
<1> USE Facts DEF Collect
<1>1. UNCHANGED <<stored, chan, work, world, dims, driver, shut, lock, reinits, ic, main, blocked, quit,
                  dead, restarts, scene, overlapped, hidden, drawing, faults>>
    BY DEF stores, registry, control, history
<1>2. fate' \in [Chunks -> Fates] /\ (\A d \in Chunks \ {c} : fate'[d] = fate[d])
    BY DEF Fates
<1>3. TypeOK'
    BY <1>1, <1>2, TypePartsNext DEF Queue, Locked, TypeRest, Flags
<1>4. Carriers'
    BY <1>1, <1>2, Apart DEF IInv, Carriers
<1>5. Queued'
    <2>1. \A i \in 1..Len(chan) : chan[i] \in Chunks /\ chan[i] # c
        BY DEF IInv, Queued
    <2> QED
        BY <1>1, <1>2, <2>1 DEF IInv, Queued
<1> QED
    BY <1>1, <1>3, <1>4, <1>5 DEF IInv, Stations

LEMMA SendIInv ==
    ASSUME IInv, NEW c \in Proxied, Send(c)
    PROVE  IInv'
<1> USE Facts DEF Send
<1>1. UNCHANGED <<stored, work, world, dims, driver, shut, lock, reinits, ic, main, blocked, quit,
                  dead, restarts, scene, overlapped, hidden, drawing, faults>>
    BY DEF stores, registry, control, history
<1>2. /\ fate' \in [Chunks -> Fates] /\ fate'[c] = "queued"
      /\ \A d \in Chunks \ {c} : fate'[d] = fate[d]
    BY DEF Fates
<1>3. /\ chan' \in Seq(Proxied) /\ Len(chan') = Len(chan) + 1 /\ Len(chan') <= ChanCap
      /\ chan'[Len(chan) + 1] = c
      /\ \A i \in 1..Len(chan) : chan'[i] = chan[i] /\ chan[i] \in Chunks
    BY ConstantsOK
<1>4. TypeOK'
    BY <1>1, <1>2, <1>3, TypePartsNext DEF Queue, Locked, TypeRest, Flags
<1>5. Carriers'
    BY <1>1, <1>2, Apart DEF IInv, Carriers
<1>6. Queued'
    <2>1. \A i \in 1..Len(chan) : chan[i] # c
        BY DEF IInv, Queued
    <2>2. \A i \in 1..Len(chan') : i \in 1..Len(chan) \/ i = Len(chan) + 1
        BY <1>3
    <2> QED
        BY <1>2, <1>3, <2>1, <2>2 DEF IInv, Queued
<1> QED
    BY <1>1, <1>4, <1>5, <1>6 DEF IInv, Stations

LEMMA TakeIInv ==
    ASSUME IInv, Take
    PROVE  IInv'
<1> USE Facts DEF Take, At, Starts, Goes
<1> DEFINE c == Head(chan)
           x == [Idle EXCEPT !.at = "lookup", !.chunk = c, !.left = Storages]
<1>1. UNCHANGED <<stored, world, dims, driver, shut, lock, reinits, ic, main, blocked, quit,
                  dead, restarts, scene, hidden, drawing, faults>>
    BY DEF stores, registry, control
<1>2. overlapped' \in BOOLEAN
    BY Zenon
<1>3. /\ c \in Proxied /\ c = chan[1] /\ Len(chan) \in Nat \ {0}
      /\ chan' \in Seq(Proxied) /\ Len(chan') = Len(chan) - 1
      /\ \A i \in 1..Len(chan') : chan'[i] = chan[i + 1] /\ i + 1 \in 1..Len(chan)
    OBVIOUS
<1>4. /\ fate' \in [Chunks -> Fates] /\ fate'[c] = "held"
      /\ \A d \in Chunks \ {c} : fate'[d] = fate[d]
    BY <1>3 DEF Fates
<1>5. x \in Job /\ x.at = "lookup" /\ x.chunk = c
    BY <1>3 DEF Job, Idle, Places
<1>6. /\ work' \in [Actors -> Job] /\ work'[Consumer] = x
      /\ \A a \in Actors \ {Consumer} : work'[a] = work[a]
    BY <1>5
<1>7. TypeOK'
    <2>1. Locked'
        BY <1>1, <1>6, Apart DEF Locked
    <2>2. TypeRest' /\ Flags'
        BY <1>1, <1>2 DEF TypeRest, Flags
    <2> QED
        BY <1>1, <1>3, <1>4, <1>6, <2>1, <2>2, TypePartsNext, ConstantsOK DEF Queue
<1>8. Stations'
    BY <1>5, <1>6, Apart DEF IInv, Stations, AtStorage
<1>9. Carriers'
    <2>1. \A d \in Posted : work'[d] = work[d] /\ fate'[d] = fate[d]
        BY <1>3, <1>4, <1>6, Apart
    <2> QED
        BY <1>3, <1>4, <1>5, <1>6, <2>1 DEF IInv, Carriers
<1>10. Queued'
    <2>1. \A i \in 2..Len(chan) : chan[i] # c /\ chan[i] \in Chunks
        BY <1>3 DEF IInv, Queued
    <2> QED
        BY <1>3, <1>4, <2>1 DEF IInv, Queued
<1> QED
    BY <1>7, <1>8, <1>9, <1>10 DEF IInv

LEMMA PostIInv ==
    ASSUME IInv, NEW c \in Posted, Post(c)
    PROVE  IInv'
<1> USE Facts DEF Post, At, Starts, Goes
<1> DEFINE x == [Idle EXCEPT !.at = "lookup", !.left = Storages]
<1>1. UNCHANGED <<stored, chan, world, dims, driver, shut, lock, reinits, ic, main, blocked, quit,
                  dead, restarts, scene, hidden, drawing, faults>>
    BY DEF stores, registry, control
<1>2. overlapped' \in BOOLEAN
    BY Zenon
<1>3. /\ fate' \in [Chunks -> Fates] /\ fate'[c] = "held"
      /\ \A d \in Chunks \ {c} : fate'[d] = fate[d]
    BY DEF Fates
<1>4. x \in Job /\ x.at = "lookup"
    BY DEF Job, Idle, Places
<1>5. /\ work' \in [Actors -> Job] /\ work'[c] = x
      /\ \A a \in Actors \ {c} : work'[a] = work[a]
    BY <1>4
<1>6. TypeOK'
    <2>1. Locked'
        BY <1>1, <1>5, Apart DEF Locked
    <2>2. TypeRest' /\ Flags'
        BY <1>1, <1>2 DEF TypeRest, Flags
    <2> QED
        BY <1>1, <1>3, <1>5, <2>1, <2>2, TypePartsNext DEF Queue
<1>7. Stations'
    BY <1>4, <1>5, Apart DEF IInv, Stations, AtStorage
<1>8. Carriers'
    <2>1. \A d \in Proxied : fate'[d] = fate[d]
        BY <1>3, Apart
    <2>2. work'[Consumer] = work[Consumer]
        BY <1>5
    <2>3. \A d \in Posted \ {c} : work'[d] = work[d] /\ fate'[d] = fate[d]
        BY <1>3, <1>5
    <2> QED
        BY <1>3, <1>4, <1>5, <2>1, <2>2, <2>3 DEF IInv, Carriers, Resting
<1>9. Queued'
    <2>1. \A i \in 1..Len(chan) : chan[i] \in Chunks /\ chan[i] # c
        BY Apart
    <2> QED
        BY <1>1, <1>3, <2>1 DEF IInv, Queued
<1> QED
    BY <1>6, <1>7, <1>8, <1>9 DEF IInv

\* A tile goroutine moves, or an order begins: no chunk is concerned.
LEMMA BystanderIInv ==
    ASSUME IInv, NEW a \in Orders \cup Readers, NEW x \in Job, Goes(a, x),
           a \in Readers => x.at \in {"lookup", "done"} /\ lock' = lock,
           a \in Orders => x.at = "add" /\ lock = None /\ lock' = a,
           x.at \in AtStorage => x.s \in Storages,
           UNCHANGED <<fate, chan>>, TypeRest', Flags'
    PROVE  IInv'
<1> USE Facts DEF Goes
<1>1. /\ work' \in [Actors -> Job] /\ work'[a] = x /\ a \notin Posted \cup {Consumer}
      /\ \A b \in Actors \ {a} : work'[b] = work[b]
    BY Apart
<1>2. TypeOK'
    <2>1. Locked'
        BY <1>1, Apart DEF Locked
    <2> QED
        BY <1>1, <2>1, TypePartsNext DEF Queue
<1>3. Stations'
    BY <1>1, Apart DEF IInv, Stations, Resting, AtStorage
<1>4. Carriers' /\ Queued'
    BY <1>1 DEF IInv, Carriers, Queued
<1> QED
    BY <1>2, <1>3, <1>4 DEF IInv

LEMMA ReadIInv ==
    ASSUME IInv, NEW r \in Readers, Read(r)
    PROVE  IInv'
<1> DEFINE x == [Idle EXCEPT !.at = "lookup", !.left = Storages]
<1>1. x \in Job /\ x.at = "lookup" /\ x.at \notin AtStorage
    BY DEF Job, Idle, Places, AtStorage
<1>2. UNCHANGED <<fate, stored, chan, world, dims, driver, shut, lock, reinits, ic, main, blocked, quit,
                  dead, restarts, scene, overlapped, hidden, drawing, faults>> /\ Goes(r, x)
    BY DEF Read, chunkVars, stores, registry, control, history
<1>3. TypeRest' /\ Flags'
    BY <1>2, Facts DEF TypeRest, Flags
<1> QED
    BY <1>1, <1>2, <1>3, BystanderIInv, Apart

LEMMA ReadTilesIInv ==
    ASSUME IInv, NEW r \in Readers, ReadTiles(r)
    PROVE  IInv'
<1>1. CASE Die("tiles")
    BY <1>1, DieIInv
<1>2. CASE /\ Goes(r, Over)
           /\ UNCHANGED <<chunkVars, stores, registry, control, history, drawing, faults>>
    <2>1. UNCHANGED <<fate, stored, chan, world, dims, driver, shut, lock, reinits, ic, main, blocked,
                      quit, dead, restarts, scene, overlapped, hidden, drawing, faults>>
        BY <1>2 DEF chunkVars, stores, registry, control, history
    <2>2. TypeRest' /\ Flags'
        BY <2>1, Facts DEF TypeRest, Flags
    <2>3. Over \in Job /\ Over.at = "done" /\ Over.at \notin AtStorage
        BY IdleIsJob DEF Over, Idle, AtStorage
    <2> QED
        BY <1>2, <2>1, <2>2, <2>3, BystanderIInv, Apart
<1> QED
    BY <1>1, <1>2 DEF ReadTiles

LEMMA OrderIInv ==
    ASSUME IInv, NEW o \in Orders, NEW s \in Storages, Order(o, s)
    PROVE  IInv'
<1> USE DEF Order, Starts
<1> DEFINE x == [Idle EXCEPT !.at = "add", !.s = s, !.g = driver[s]]
<1>1. x \in Job /\ x.at = "add" /\ x.s = s
    BY Facts DEF Job, Idle, Places, TypeRest
<1>2. UNCHANGED <<fate, stored, chan, world, dims, driver, shut, reinits, ic, main, blocked, quit,
                  dead, restarts, scene, hidden, drawing, faults>>
    BY DEF chunkVars, stores, control
<1>3. overlapped' \in BOOLEAN
    BY Zenon
<1>4. TypeRest' /\ Flags'
    BY <1>2, <1>3, Facts DEF TypeRest, Flags
<1> QED
    BY <1>1, <1>2, <1>4, BystanderIInv, Apart

LEMMA StepIInv == IInv /\ [Next]_vars => IInv'
<1> SUFFICES ASSUME IInv, [Next]_vars
             PROVE  IInv'
    OBVIOUS
<1>1. CASE \E c \in Proxied : Collect(c) \/ Send(c)
    BY <1>1, CollectIInv, SendIInv
<1>2. CASE \E c \in Posted : Post(c)
    BY <1>2, PostIInv
<1>3. CASE \E r \in Readers : Read(r) \/ ReadTooEarly(r) \/ ReadNowhere(r) \/ ReadTiles(r)
    BY <1>3, ReadIInv, ReadTilesIInv, DieIInv DEF ReadTooEarly, ReadNowhere
<1>4. CASE \E o \in Orders, s \in Storages : Order(o, s)
    BY <1>4, OrderIInv
<1>5. CASE \E s \in Storages : ReinitClose(s) \/ ReinitOpen(s) \/ MapRace(s)
    BY <1>5, ReinitIInv, DieIInv DEF MapRace
<1>6. CASE \E c \in Chunks : Render(c)
    BY <1>6, DieIInv DEF Render
<1>7. CASE \E a \in Actors : CallStep(a)
    BY <1>7, CallTurn, TurnIInv, DieIInv
<1>8. CASE Take
    BY <1>8, TakeIInv
<1>9. CASE ConsumerExit \/ CacheUp
    BY <1>9, ExitIInv
<1>10. CASE MainStep
    BY <1>10, MainIInv
<1>13. CASE WebFatal \/ Exit
    BY <1>13, DieIInv DEF WebFatal, Exit
<1>14. CASE Waits
    BY <1>14, WaitsIInv
<1>11. CASE Kill \/ Restart
    BY <1>11, RestartIInv, DieIInv DEF Kill
<1>12. CASE UNCHANGED vars
    <2>1. UNCHANGED <<fate, stored, chan, world, dims, driver, shut, lock, reinits, ic, main, blocked,
                      quit, dead, restarts, scene, overlapped, hidden, work, drawing, faults>>
        BY <1>12 DEF vars, chunkVars, stores, registry, control, history
    <2>2. TypeRest' /\ Flags'
        BY <2>1, Facts DEF TypeRest, Flags
    <2> QED
        BY <2>1, <2>2, AsideIInv
<1> QED
    BY <1>1, <1>2, <1>3, <1>4, <1>5, <1>6, <1>7, <1>8, <1>9, <1>10, <1>11, <1>12,
       <1>13, <1>14 DEF Next, Shutdown, MainStep, Waits

\* Every actor is at a place of its own kind, and every chunk that is held has
\* one actor that holds it (chunkConsumer.go, api.go).
THEOREM Invariance == Spec => []IInv
BY InitIInv, StepIInv, PTL DEF Spec

\* Every variable keeps its type and the channel its capacity.
THEOREM TypeCorrect == Spec => []TypeOK
<1>1. IInv => TypeOK
    BY DEF IInv
<1> QED
    BY <1>1, Invariance, PTL

-----------------------------------------------------------------------------
(* The pipeline implements ChunkFate *)

\* Chunk c, which was moving, is concluded, and at most it is copied.
LEMMA ConcludeStep ==
    ASSUME NEW c \in Chunks, NEW f \in {"kept", "lost"}, Outcome(c) = "moving",
           fate \in [Chunks -> Fates], fate' = [fate EXCEPT ![c] = f],
           stored' = stored \/ \E s \in Storages : stored' = stored \cup {<<c, s>>}
    PROVE  Fate!Next
<1>1. [d \in Chunks |-> Outcome(d)]' = [[d \in Chunks |-> Outcome(d)] EXCEPT ![c] = f]
    BY DEF Outcome
<1>2. Fate!Conclude(c)
    BY <1>1 DEF Fate!Conclude
<1> QED
    BY <1>2 DEF Fate!Next

LEMMA BeginStep ==
    ASSUME NEW c \in Chunks, Outcome(c) = "new", fate \in [Chunks -> Fates],
           NEW f \in {"sending", "held"}, fate' = [fate EXCEPT ![c] = f], UNCHANGED stored
    PROVE  Fate!Next
<1>1. [d \in Chunks |-> Outcome(d)]' = [[d \in Chunks |-> Outcome(d)] EXCEPT ![c] = "moving"]
    BY DEF Outcome
<1>2. Fate!Begin(c)
    BY <1>1 DEF Fate!Begin
<1> QED
    BY <1>2 DEF Fate!Next

LEMMA HaltStep ==
    ASSUME NEW why, Die(why), fate \in [Chunks -> Fates]
    PROVE  Fate!Next
<1>1. [d \in Chunks |-> Outcome(d)]' =
          [d \in Chunks |-> IF Outcome(d) = "moving" THEN "lost" ELSE Outcome(d)]
    BY DEF Die, Outcome, Lost, Fates
<1>2. Fate!Halt
    BY <1>1 DEF Fate!Halt, Die
<1> QED
    BY <1>2 DEF Fate!Next

\* A chunk is handed on between acceptor, channel and consumer.
LEMMA HandOn ==
    ASSUME NEW c \in Chunks, Outcome(c) = "moving", fate \in [Chunks -> Fates],
           NEW f \in {"queued", "held"}, fate' = [fate EXCEPT ![c] = f], UNCHANGED stored
    PROVE  UNCHANGED Fate!fateVars
<1>1. [d \in Chunks |-> Outcome(d)]' = [d \in Chunks |-> Outcome(d)]
    BY DEF Outcome
<1> QED
    BY <1>1 DEF Fate!fateVars

LEMMA Unmoved ==
    ASSUME UNCHANGED <<fate, stored>>
    PROVE  UNCHANGED Fate!fateVars
BY DEF Fate!fateVars, Outcome

LEMMA TurnRefines ==
    ASSUME IInv, NEW a \in Actors, Turn(a)
    PROVE  [Fate!Next]_(Fate!fateVars)
<1>1. CASE \E x \in Job : Advance(a, x)
    BY <1>1, Unmoved DEF Advance
<1>2. CASE Closes(a) /\ a \in Posted \cup {Consumer}
    <2>1. ChunkOf(a) \in Chunks /\ Outcome(ChunkOf(a)) = "moving"
        BY <1>2, Holding DEF Turn, Outcome
    <2>2. PICK f \in {"kept", "lost"} : fate' = [fate EXCEPT ![ChunkOf(a)] = f]
        BY <1>2 DEF Closes, Ends
    <2>3. stored' = stored \/ \E s \in Storages : stored' = stored \cup {<<ChunkOf(a), s>>}
        BY <1>2 DEF Closes
    <2> QED
        BY <2>1, <2>2, <2>3, ConcludeStep, Facts
<1>3. CASE Closes(a) /\ a \notin Posted \cup {Consumer}
    BY <1>3, Unmoved DEF Closes, Ends
<1> QED
    BY <1>1, <1>2, <1>3 DEF Turn

LEMMA InitRefines == Init => Fate!Init
BY DEF Init, Fate!Init, Outcome

LEMMA StepRefines == IInv /\ [Next]_vars => [Fate!Next]_(Fate!fateVars)
<1> SUFFICES ASSUME IInv, [Next]_vars
             PROVE  [Fate!Next]_(Fate!fateVars)
    OBVIOUS
<1> USE Facts
<1>1. ASSUME NEW c \in Proxied, Collect(c)
      PROVE  [Fate!Next]_(Fate!fateVars)
    BY <1>1, BeginStep DEF Collect, Outcome
<1>2. ASSUME NEW c \in Proxied, Send(c)
      PROVE  [Fate!Next]_(Fate!fateVars)
    BY <1>2, HandOn DEF Send, Outcome
<1>3. ASSUME NEW c \in Posted, Post(c)
      PROVE  [Fate!Next]_(Fate!fateVars)
    <2>1. Outcome(c) = "new"
        BY <1>3 DEF IInv, Carriers, Post, At, Outcome
    <2> QED
        BY <1>3, <2>1, BeginStep DEF Post
<1>4. ASSUME NEW r \in Readers,
             Read(r) \/ ReadTooEarly(r) \/ ReadNowhere(r) \/ ReadTiles(r)
      PROVE  [Fate!Next]_(Fate!fateVars)
    BY <1>4, Unmoved, HaltStep DEF Read, ReadTooEarly, ReadNowhere, ReadTiles, chunkVars
<1>5. ASSUME NEW s \in Storages, (\E o \in Orders : Order(o, s)) \/ ReinitClose(s)
                                 \/ ReinitOpen(s) \/ MapRace(s)
      PROVE  [Fate!Next]_(Fate!fateVars)
    BY <1>5, Unmoved, HaltStep DEF Order, ReinitClose, ReinitOpen, MapRace, chunkVars
<1>6. ASSUME NEW a \in Actors, CallStep(a)
      PROVE  [Fate!Next]_(Fate!fateVars)
    BY <1>6, CallTurn, TurnRefines, HaltStep
<1>7. CASE Take
    <2>1. Head(chan) = chan[1] /\ 1 \in 1..Len(chan) /\ Head(chan) \in Chunks
        BY <1>7 DEF Take
    <2>2. Outcome(Head(chan)) = "moving"
        BY <2>1 DEF IInv, Queued, Outcome
    <2> QED
        BY <1>7, <2>1, <2>2, HandOn DEF Take
<1>8. CASE ConsumerExit \/ CacheUp \/ Restart
    BY <1>8, Unmoved DEF ConsumerExit, CacheUp, Restart, chunkVars
<1>9. CASE MainStep \/ Waits
    BY <1>9, Unmoved, MainChange, WaitsChange
<1>12. CASE WebFatal \/ Exit
    BY <1>12, HaltStep DEF WebFatal, Exit
<1>10. CASE Kill \/ \E c \in Chunks : Render(c)
    BY <1>10, HaltStep DEF Kill, Render
<1>11. CASE UNCHANGED vars
    BY <1>11, Unmoved DEF vars, chunkVars
<1> QED
    BY <1>1, <1>2, <1>3, <1>4, <1>5, <1>6, <1>7, <1>8, <1>9, <1>10, <1>11, <1>12
       DEF Next, Shutdown, MainStep, Waits

\* The pipeline keeps the promise of ChunkFate.
THEOREM Refinement == Spec => KeepsFate
BY InitRefines, StepRefines, Invariance, PTL DEF Spec, KeepsFate, Fate!Spec

-----------------------------------------------------------------------------
(* The storages outlive whoever uses them *)

\* A driver is closed by a reinit or after the consumer has gone for good.
CloseOrder ==
    /\ shut # {} => reinits > 0 \/ main = "storages"
    /\ main = "storages" => quit = "gone"
    /\ quit = "gone" => work[Consumer].at \in Resting

\* What DeathsNamed says of the deaths themselves.
DeathsOwed ==
    /\ dead = "save" => reinits > 0
    /\ dead = "tiles" => reinits > 0 \/ main = "storages"

DInv == CloseOrder /\ DeathsOwed

LEMMA InitDInv == Init => DInv
BY DEF Init, DInv, CloseOrder, DeathsOwed, Resting, Idle, Actors

\* A step that closes nothing, ends nothing and leaves a resting consumer alone.
LEMMA CalmDInv ==
    ASSUME DInv, UNCHANGED <<shut, reinits, main, quit, dead>>,
           quit = "gone" => work'[Consumer].at \in Resting
    PROVE  DInv'
BY DEF DInv, CloseOrder, DeathsOwed

LEMMA DieDInv ==
    ASSUME DInv, NEW why, Die(why),
           why = "save" => reinits > 0,
           why = "tiles" => reinits > 0 \/ main = "storages"
    PROVE  DInv'
<1>1. UNCHANGED <<shut, reinits, main, quit>> /\ dead' = why
    BY DEF Die
<1>2. work'[Consumer].at \in Resting
    BY DEF Die, Actors, Idle, Over, Resting
<1> QED
    BY <1>1, <1>2 DEF DInv, CloseOrder, DeathsOwed

LEMMA CallDInv ==
    ASSUME IInv, DInv, NEW a \in Actors, CallStep(a)
    PROVE  DInv'
<1> USE Facts
<1>1. CASE SaveFails(a) /\ Die("save")
    <2>1. a = Consumer /\ shut # {} /\ work[Consumer].at = "save"
        BY <1>1 DEF SaveFails, IsClosed, At, Alive, Die, control
    <2>2. reinits > 0
        BY <2>1 DEF DInv, CloseOrder, Resting
    <2> QED
        BY <1>1, <2>2, DieDInv
<1>2. CASE ~(SaveFails(a) /\ Die("save"))
    <2>1. UNCHANGED <<shut, reinits, main, quit, dead>>
        BY <1>2 DEF CallStep, Lookup, LookupStep, Choose, MakeWorld, WriteLevel, InsertWorld,
           GetDimension, AddDimension, Save, SaveFails, SaveForgotten, registry, control
    <2>2. work[a].at \notin Resting
        BY DEF CallStep, Lookup, LookupStep, Choose, MakeWorld, WriteLevel, InsertWorld,
           GetDimension, AddDimension, Save, SaveFails, SaveForgotten, At, Resting
    <2>3. a # Consumer => work'[Consumer] = work[Consumer]
        <3>1. Turn(a)
            BY <1>2, CallTurn, <2>1, <2>2 DEF Die, IInv, CallStep, Lookup, LookupStep, Choose,
               MakeWorld, WriteLevel, InsertWorld, GetDimension, AddDimension, Save, SaveFails,
               SaveForgotten, At, Alive
        <3> QED
            BY <3>1 DEF Turn, Advance, Closes, Ends, Goes
    <2> QED
        BY <2>1, <2>2, <2>3, CalmDInv DEF DInv, CloseOrder
<1> QED
    BY <1>1, <1>2

LEMMA StepDInv == IInv /\ DInv /\ [Next]_vars => DInv'
<1> SUFFICES ASSUME IInv, DInv, [Next]_vars
             PROVE  DInv'
    OBVIOUS
<1> USE Facts
<1>1. ASSUME NEW c \in Proxied, Collect(c) \/ Send(c)
      PROVE  DInv'
    BY <1>1, CalmDInv DEF Collect, Send, registry, control, DInv, CloseOrder
<1>2. ASSUME NEW c \in Posted, Post(c)
      PROVE  DInv'
    <2>1. work'[Consumer] = work[Consumer]
        BY <1>2 DEF Post, Starts, Goes
    <2> QED
        BY <1>2, <2>1, CalmDInv DEF Post, registry, control, DInv, CloseOrder
<1>3. ASSUME NEW r \in Readers, Read(r)
      PROVE  DInv'
    <2>1. work'[Consumer] = work[Consumer]
        BY <1>3, Apart DEF Read, Goes
    <2> QED
        BY <1>3, <2>1, CalmDInv DEF Read, registry, control, DInv, CloseOrder
<1>4. ASSUME NEW r \in Readers, ReadTiles(r)
      PROVE  DInv'
    <2>1. CASE Die("tiles") /\ IsClosed(r)
        BY <2>1, DieDInv DEF DInv, CloseOrder, IsClosed
    <2>2. CASE Goes(r, Over) /\ UNCHANGED <<registry, control>>
        <3>1. work'[Consumer] = work[Consumer]
            BY <2>2, Apart DEF Goes
        <3> QED
            BY <2>2, <3>1, CalmDInv DEF registry, control, DInv, CloseOrder
    <2> QED
        BY <1>4, <2>1, <2>2 DEF ReadTiles
<1>5. ASSUME NEW o \in Orders, NEW s \in Storages, Order(o, s)
      PROVE  DInv'
    <2>1. work'[Consumer] = work[Consumer]
        BY <1>5, Apart DEF Order, Starts, Goes
    <2> QED
        BY <1>5, <2>1, CalmDInv DEF Order, control, DInv, CloseOrder
<1>6. ASSUME NEW s \in Storages, ReinitClose(s)
      PROVE  DInv'
    <2>1. reinits' > 0 /\ UNCHANGED <<main, quit, dead, work>>
        BY <1>6 DEF ReinitClose, control, TypeRest
    <2> QED
        BY <2>1 DEF DInv, CloseOrder, DeathsOwed
<1>7. ASSUME NEW s \in Storages, ReinitOpen(s)
      PROVE  DInv'
    BY <1>7, CalmDInv DEF ReinitOpen, DInv, CloseOrder
<1>8. ASSUME NEW a \in Actors, CallStep(a)
      PROVE  DInv'
    BY <1>8, CallDInv
<1>9. CASE Take
    BY <1>9, CalmDInv DEF Take, registry, control
<1>10. CASE ConsumerExit
    BY <1>10 DEF ConsumerExit, At, registry, DInv, CloseOrder, DeathsOwed, Resting
<1>11. CASE CacheUp
    BY <1>11, CalmDInv DEF CacheUp, registry, DInv, CloseOrder
<1>12. CASE MainStep /\ ~CloseStorages
    <2>1. UNCHANGED shut /\ main # "storages" /\ main' # "storages"
          /\ (quit' = "gone" => quit = "gone")
        BY <1>12 DEF MainStep, Interrupt, TokenTaken, WebStopped, ClientsDropped, ProxyStopped,
           CacheStopped, Stops, Stopping, registry
    <2>2. UNCHANGED <<reinits, work>> /\ dead' = "no"
        BY <1>12, MainChange DEF Alive
    <2> QED
        BY <2>1, <2>2 DEF DInv, CloseOrder, DeathsOwed
<1>13. CASE CloseStorages
    BY <1>13 DEF CloseStorages, Stops, Alive, DInv, CloseOrder, DeathsOwed
<1>14. CASE Restart
    BY <1>14 DEF Restart, DInv, CloseOrder, DeathsOwed
<1>15. ASSUME NEW why \in {"fatal", "exit", "kill", "race", "cache", "noworld"}, Die(why)
       PROVE  DInv'
    BY <1>15, DieDInv
<1>16. CASE UNCHANGED vars
    BY <1>16, CalmDInv DEF vars, registry, control, DInv, CloseOrder
<1>17. CASE Waits
    BY <1>17, WaitsChange, CalmDInv DEF DInv, CloseOrder
<1> QED
    BY <1>1, <1>2, <1>3, <1>4, <1>5, <1>6, <1>7, <1>8, <1>9, <1>10, <1>11, <1>12, <1>13, <1>14,
       <1>15, <1>16, <1>17 DEF Next, Shutdown, MainStep, Waits, WebFatal, Exit, Kill, Render,
       MapRace, ReadTooEarly, ReadNowhere

\* A chunk that is held is in the hands of an actor at work.  main has left the
\* web server behind only with every handler done, and the proxy with nothing to
\* send; it never leaves a web server whose token was taken.
Held ==
    /\ \A c \in Posted : fate[c] # "sending" /\ (fate[c] = "held" => work[c].at \notin Resting)
    /\ \A c \in Proxied : fate[c] = "held" =>
          work[Consumer].chunk = c /\ work[Consumer].at \notin Resting
Served == main \notin {"run", "web"} => \A c \in Posted : work[c].at \in Resting
Handed == main \in {"cache", "consumer", "storages"} => \A c \in Proxied : fate[c] # "sending"
Unheard == "web" \in blocked => main = "web" /\ dead = "no"
Ended == dead # "no" => work[Consumer].at \in Resting

HInv == Held /\ Served /\ Handed /\ Unheard /\ Ended

LEMMA InitHInv == Init => HInv
<1> SUFFICES ASSUME Init PROVE HInv
    OBVIOUS
<1>1. \A c \in Chunks : fate[c] = "new"
    BY DEF Init
<1> QED
    BY <1>1 DEF Init, HInv, Held, Served, Handed, Unheard, Ended, Chunks

\* A step that concerns no chunk and nobody who may have one.
LEMMA CalmHInv ==
    ASSUME HInv, UNCHANGED <<fate, main, blocked, dead>>,
           \A b \in Posted \cup {Consumer} : work'[b] = work[b]
    PROVE  HInv'
BY DEF HInv, Held, Served, Handed, Unheard, Ended

LEMMA DieHInv ==
    ASSUME HInv, NEW why, Die(why)
    PROVE  HInv'
<1> USE Apart DEF Die
<1>1. \A c \in Chunks : fate'[c] \notin {"sending", "held"}
    BY DEF Lost
<1>2. \A c \in Posted \cup {Consumer} : work'[c].at \in Resting
    BY DEF Actors, Idle, Over, Resting
<1> QED
    BY <1>1, <1>2 DEF HInv, Held, Served, Handed, Unheard, Ended, Chunks

LEMMA TurnHInv ==
    ASSUME IInv, HInv, NEW a \in Actors, Turn(a), UNCHANGED <<main, blocked, dead>>
    PROVE  HInv'
<1> USE Facts
<1>1. work[a].at \notin Resting
    BY DEF Turn
<1>2. a \in Posted => main \in {"run", "web"}
    BY <1>1 DEF HInv, Served
<1>3. CASE \E x \in Job : Advance(a, x)
    <2>1. PICK x \in Job : Advance(a, x)
        BY <1>3
    <2>2. /\ work'[a] = x /\ x.chunk = work[a].chunk /\ x.at \notin Resting
          /\ \A b \in Actors \ {a} : work'[b] = work[b]
          /\ fate' = fate
        BY <2>1 DEF Advance, Goes
    <2> QED
        BY <1>1, <1>2, <2>2 DEF HInv, Held, Served, Handed, Unheard, Ended
<1>4. CASE Closes(a) /\ a \in Posted \cup {Consumer}
    <2>1. PICK f \in {"kept", "lost"} : fate' = [fate EXCEPT ![ChunkOf(a)] = f]
        BY <1>4 DEF Closes, Ends
    <2>2. /\ \A b \in Actors \ {a} : work'[b] = work[b]
          /\ work'[a].at \in Resting
        BY <1>4 DEF Closes, Ends, Goes, Rest, Over, Idle, Resting
    <2>3. \A c \in Chunks : fate'[c] = IF c = ChunkOf(a) THEN f ELSE fate[c]
        BY <2>1
    <2>4. Held'
        <3>1. \A c \in Posted : fate'[c] # "sending"
            BY <2>3 DEF HInv, Held
        <3>2. ASSUME NEW c \in Posted, fate'[c] = "held"
              PROVE  work'[c].at \notin Resting
            <4>1. fate[c] = "held" /\ c # ChunkOf(a)
                BY <2>3, <3>2
            <4>2. c # a
                BY <4>1 DEF ChunkOf
            <4> QED
                BY <2>2, <4>1, <4>2 DEF HInv, Held
        <3>3. ASSUME NEW c \in Proxied, fate'[c] = "held"
              PROVE  work'[Consumer].chunk = c /\ work'[Consumer].at \notin Resting
            <4>1. fate[c] = "held" /\ c # ChunkOf(a)
                BY <2>3, <3>3
            <4>2. work[Consumer].chunk = c /\ work[Consumer].at \notin Resting
                BY <4>1 DEF HInv, Held
            <4>3. a # Consumer
                BY <4>1, <4>2 DEF ChunkOf
            <4> QED
                BY <2>2, <4>2, <4>3
        <3> QED
            BY <3>1, <3>2, <3>3 DEF Held
    <2>5. Served'
        BY <1>2, <2>2 DEF HInv, Served
    <2>6. Handed'
        BY <2>3 DEF HInv, Handed
    <2>7. Ended'
        BY <2>2 DEF HInv, Ended
    <2> QED
        BY <2>4, <2>5, <2>6, <2>7 DEF HInv, Unheard
<1>5. CASE Closes(a) /\ a \notin Posted \cup {Consumer}
    <2>1. fate' = fate /\ \A b \in Actors \ {a} : work'[b] = work[b]
        BY <1>5 DEF Closes, Ends, Goes
    <2> QED
        BY <1>5, <2>1, CalmHInv
<1> QED
    BY <1>3, <1>4, <1>5 DEF Turn

LEMMA StepHInv == IInv /\ HInv /\ [Next]_vars => HInv'
<1> SUFFICES ASSUME IInv, HInv, [Next]_vars
             PROVE  HInv'
    OBVIOUS
<1> USE Facts
<1>1. ASSUME NEW c \in Proxied, Collect(c)
      PROVE  HInv'
    <2>1. fate' = [fate EXCEPT ![c] = "sending"] /\ UNCHANGED <<main, blocked, dead, work>>
          /\ main \notin {"cache", "consumer", "storages"}
        BY <1>1 DEF Collect, Collecting, control
    <2> QED
        BY <2>1, Apart DEF HInv, Held, Served, Handed, Unheard, Ended
<1>2. ASSUME NEW c \in Proxied, Send(c)
      PROVE  HInv'
    <2>1. fate' = [fate EXCEPT ![c] = "queued"] /\ UNCHANGED <<main, blocked, dead, work>>
        BY <1>2 DEF Send, control
    <2> QED
        BY <2>1, Apart DEF HInv, Held, Served, Handed, Unheard, Ended
<1>3. CASE Take
    <2> DEFINE c == Head(chan)
    <2>1. c \in Proxied /\ fate' = [fate EXCEPT ![c] = "held"]
          /\ UNCHANGED <<main, blocked, dead>> /\ dead = "no"
        BY <1>3 DEF Take, At, Alive, control
    <2>2. /\ work'[Consumer].chunk = c /\ work'[Consumer].at \notin Resting
          /\ \A b \in Posted : work'[b] = work[b]
          /\ work[Consumer].at \in Resting
        BY <1>3, Apart DEF Take, At, Starts, Goes, Idle, Resting
    <2>3. \A d \in Chunks : fate'[d] = IF d = c THEN "held" ELSE fate[d]
        BY <2>1
    <2>4. \A d \in Posted : d # c
        BY <2>1, Apart
    <2>5. Held'
        <3>1. \A d \in Posted : fate'[d] = fate[d]
            BY <2>3, <2>4
        <3>2. \A d \in Proxied : fate'[d] = "held" => d = c
            BY <2>2, <2>3 DEF HInv, Held
        <3> QED
            BY <2>2, <3>1, <3>2 DEF HInv, Held
    <2> QED
        BY <2>1, <2>2, <2>3, <2>5 DEF HInv, Served, Handed, Unheard, Ended
<1>4. ASSUME NEW c \in Posted, Post(c)
      PROVE  HInv'
    <2>1. /\ fate' = [fate EXCEPT ![c] = "held"] /\ UNCHANGED <<main, blocked, dead>>
          /\ main \in {"run", "web"}
        BY <1>4 DEF Post, Listening, control, HInv, Unheard
    <2>2. /\ work'[c].at \notin Resting
          /\ \A b \in Actors \ {c} : work'[b] = work[b]
        BY <1>4 DEF Post, Starts, Goes, Idle, Resting
    <2>3. \A d \in Chunks : fate'[d] = IF d = c THEN "held" ELSE fate[d]
        BY <2>1
    <2>4. Held'
        <3>1. \A d \in Proxied : fate'[d] = fate[d]
            BY <2>3, Apart
        <3>2. \A d \in Posted \ {c} : fate'[d] = fate[d] /\ work'[d] = work[d]
            BY <2>2, <2>3
        <3> QED
            BY <2>2, <2>3, <3>1, <3>2 DEF HInv, Held
    <2> QED
        BY <2>1, <2>2, <2>3, <2>4, Apart DEF HInv, Served, Handed, Unheard, Ended
<1>5. ASSUME NEW r \in Readers, Read(r)
      PROVE  HInv'
    BY <1>5, Apart, CalmHInv DEF Read, Goes, chunkVars, control
<1>6. ASSUME NEW r \in Readers, ReadTiles(r)
      PROVE  HInv'
    BY <1>6, Apart, CalmHInv, DieHInv DEF ReadTiles, Goes, chunkVars, control
<1>7. ASSUME NEW o \in Orders, NEW s \in Storages, Order(o, s)
      PROVE  HInv'
    BY <1>7, Apart, CalmHInv DEF Order, Starts, Goes, chunkVars, control
<1>8. ASSUME NEW s \in Storages, ReinitClose(s) \/ ReinitOpen(s)
      PROVE  HInv'
    BY <1>8, CalmHInv DEF ReinitClose, ReinitOpen, chunkVars, control
<1>9. ASSUME NEW a \in Actors, CallStep(a)
      PROVE  HInv'
    <2>1. CASE \E why \in {"save"} : Die(why)
        BY <2>1, DieHInv
    <2>2. CASE ~Die("save")
        <3>1. UNCHANGED <<main, blocked, dead>>
            BY <1>9, <2>2 DEF CallStep, Lookup, LookupStep, Choose, MakeWorld, WriteLevel,
               InsertWorld, GetDimension, AddDimension, Save, SaveFails, SaveForgotten, control
        <3>2. Turn(a)
            BY <1>9, <2>2, CallTurn
        <3> QED
            BY <3>1, <3>2, TurnHInv
    <2> QED
        BY <2>1, <2>2
<1>10. CASE ConsumerExit \/ CacheUp
    BY <1>10, CalmHInv DEF ConsumerExit, CacheUp, chunkVars
<1>11. CASE Waits
    BY <1>11, WaitsChange DEF HInv, Held, Served, Handed, Unheard, Ended
<1>12. CASE MainStep
    <2>1. Held'
        BY <1>12, MainChange DEF HInv, Held
    <2>2. Served'
        <3>1. CASE WebStopped
            <4>1. \A c \in Posted : work[c].at \in Resting
                BY <3>1 DEF WebStopped, Serving, Requests, Resting
            <4> QED
                BY <1>12, <4>1, MainChange DEF Served
        <3>2. CASE ~WebStopped
            <4>1. main' \notin {"run", "web"} => main \notin {"run", "web"}
                BY <1>12, <3>2 DEF MainStep, Interrupt, TokenTaken, ClientsDropped, ProxyStopped,
                   CacheStopped, CloseStorages, Stops
            <4> QED
                BY <1>12, <4>1, MainChange DEF HInv, Served
        <3> QED
            BY <3>1, <3>2
    <2>3. Handed'
        <3>1. CASE ProxyStopped
            BY <1>12, <3>1, MainChange DEF ProxyStopped, Handed
        <3>2. CASE ~ProxyStopped
            <4>1. main' \in {"cache", "consumer", "storages"} =>
                      main \in {"cache", "consumer", "storages"}
                BY <1>12, <3>2 DEF MainStep, Interrupt, TokenTaken, WebStopped, ClientsDropped,
                   CacheStopped, CloseStorages, Stops
            <4> QED
                BY <1>12, <4>1, MainChange DEF HInv, Handed
        <3> QED
            BY <3>1, <3>2
    <2>4. Unheard'
        <3>1. CASE TokenTaken
            BY <1>12, <3>1, MainChange DEF TokenTaken, Unheard, Alive
        <3>2. CASE ~TokenTaken
            <4>1. blocked' = blocked /\ main \notin blocked
                BY <1>12, <3>2 DEF MainStep, Interrupt, WebStopped, ClientsDropped, ProxyStopped,
                   CacheStopped, CloseStorages, Stops, Stopping
            <4> QED
                BY <4>1 DEF HInv, Unheard
        <3> QED
            BY <3>1, <3>2
    <2> QED
        BY <1>12, <2>1, <2>2, <2>3, <2>4, MainChange DEF HInv, Ended
<1>13. CASE Restart
    <2>1. /\ UNCHANGED <<fate, blocked>> /\ main' = "run" /\ dead # "no"
          /\ \A b \in Posted : work'[b] = work[b]
        BY <1>13, Apart DEF Restart, chunkVars
    <2>2. Held'
        <3>1. \A c \in Proxied : fate[c] # "held"
            BY <2>1 DEF HInv, Held, Ended
        <3> QED
            BY <2>1, <3>1 DEF HInv, Held
    <2>3. dead' = "no"
        BY <1>13 DEF Restart
    <2> QED
        BY <2>1, <2>2, <2>3 DEF HInv, Served, Handed, Unheard, Ended
<1>14. ASSUME NEW why \in {"fatal", "exit", "kill", "race", "cache", "noworld"}, Die(why)
       PROVE  HInv'
    BY <1>14, DieHInv
<1>15. CASE UNCHANGED vars
    BY <1>15, CalmHInv DEF vars, chunkVars, control
<1> QED
    BY <1>1, <1>2, <1>3, <1>4, <1>5, <1>6, <1>7, <1>8, <1>9, <1>10, <1>11, <1>12, <1>13, <1>14,
       <1>15 DEF Next, Shutdown, MainStep, Waits, WebFatal, Exit, Kill, Render, MapRace,
       ReadTooEarly, ReadNowhere

\* Nobody dies of a closed driver, but for a reinitialised storage or a tile
\* goroutine that outlived the shutdown, and an orderly end finds no chunk in
\* anybody's hands.
THEOREM DeathsAreNamed == Spec => []DeathsNamed
<1>1. DInv /\ HInv => DeathsNamed
    <2> SUFFICES ASSUME DInv, HInv, main = "storages", NEW c \in Chunks
                 PROVE  fate[c] \notin {"sending", "held"}
        BY DEF DInv, DeathsOwed, DeathsNamed
    <2>1. work[Consumer].at \in Resting
        BY DEF DInv, CloseOrder
    <2>2. c \in Proxied \/ (c \in Posted /\ work[c].at \in Resting)
        BY DEF HInv, Served, Chunks
    <2> QED
        BY <2>1, <2>2 DEF HInv, Held, Handed
<1> QED
    BY <1>1, InitDInv, StepDInv, InitHInv, StepHInv, Invariance, PTL DEF Spec

-----------------------------------------------------------------------------
(* A stored chunk is found *)

WithWorld == {"level", "dim", "mkdim", "save", "read", "hung"}

\* A world that is partly made has its maker, as long as nothing went wrong.
Makers ==
    Interrupted \/ \A s \in Storages : world[s] = "part" =>
                      \E a \in Actors : work[a].at = "level" /\ work[a].s = s

\* Whoever is past AddWorld or a lookup, and every copy, is where a world is.
Based ==
    /\ \A a \in Actors : work[a].at \in WithWorld => world[work[a].s] # "none"
    /\ \A c \in Chunks, s \in Storages : <<c, s>> \in stored => world[s] # "none"

FInv == Makers /\ Based

LEMMA InitFInv == Init => FInv
BY DEF Init, FInv, Makers, Based, WithWorld, Idle

\* A step that makes no world and moves nobody but a, which makes none either.
LEMMA CalmFInv ==
    ASSUME IInv, FInv, NEW a \in Actors, UNCHANGED world, Interrupted => Interrupted',
           \A b \in Actors \ {a} : work'[b] = work[b],
           work[a].at = "level" => Interrupted' \/ work'[a] = work[a],
           work'[a].at \in WithWorld => work'[a].s \in Storages /\ world[work'[a].s] # "none",
           \/ stored' = stored
           \/ \E c \in Chunks, s \in Storages : world[s] # "none" /\ stored' = stored \cup {<<c, s>>}
    PROVE  FInv'
<1>1. Makers'
    <2>1. CASE Interrupted'
        BY <2>1 DEF Makers
    <2>2. CASE ~Interrupted'
        <3>1. ~Interrupted
            BY <2>2
        <3>2. \A b \in Actors : work[b].at = "level" => work'[b] = work[b]
            BY <2>2
        <3> QED
            BY <3>1, <3>2 DEF FInv, Makers
    <2> QED
        BY <2>1, <2>2
<1>2. Based'
    BY DEF FInv, Based
<1> QED
    BY <1>1, <1>2 DEF FInv

LEMMA DieFInv ==
    ASSUME IInv, FInv, NEW why, why # "no", Die(why)
    PROVE  FInv'
BY DEF Die, FInv, Makers, Based, Interrupted, WithWorld, Idle, Over, stores

\* A call that leaves the worlds alone.
LEMMA SameWorldFInv ==
    ASSUME IInv, FInv, NEW a \in Actors,
           \/ Lookup(a) \/ Choose(a) \/ GetDimension(a) \/ AddDimension(a)
           \/ Save(a) \/ SaveFails(a) \/ SaveForgotten(a)
    PROVE  FInv'
<1> USE Facts
<1>1. CASE SaveFails(a) /\ Die("save")
    BY <1>1, DieFInv
<1>2. CASE ~(SaveFails(a) /\ Die("save"))
    <2>1. world' = world /\ restarts' = restarts /\ dead' = dead
        BY <1>2 DEF Lookup, LookupStep, Choose, GetDimension, AddDimension, Save, SaveFails,
           SaveForgotten, stores, control
    <2>2. Interrupted => Interrupted'
        <3>1. NoFault \/ Fault
            BY <1>2 DEF Lookup, LookupStep, Choose, GetDimension, AddDimension, Save, SaveFails,
               SaveForgotten, Errs, NoFault
        <3> QED
            BY <2>1, <3>1 DEF NoFault, Fault, Interrupted, TypeRest
    <2>3. work[a].at \notin Resting \cup {"level"} /\ dead = "no"
        BY DEF Lookup, LookupStep, Choose, GetDimension, AddDimension, Save, SaveFails,
           SaveForgotten, At, Alive, Resting
    <2>4. Turn(a)
        BY <2>1, <2>3, CallTurn DEF Die, CallStep
    <2>5. \A b \in Actors \ {a} : work'[b] = work[b]
        BY <2>4 DEF Turn, Advance, Closes, Ends, Goes
    <2>6. work'[a].at \in WithWorld => work'[a].s \in Storages /\ world[work'[a].s] # "none"
        <3>1. ASSUME NEW s \in Storages, LookupStep(a, s)
              PROVE  work'[a].at \in WithWorld => work'[a].s \in Storages /\ world[work'[a].s] # "none"
            <4>1. CASE Goes(a, [work[a] EXCEPT !.left = @ \ {s}])
                BY <3>1, <4>1, JobTypes DEF LookupStep, At, Goes, WithWorld, Job
            <4>2. CASE /\ world[s] = "whole"
                       /\ Goes(a, [work[a] EXCEPT !.at = IF a \in Readers THEN "read" ELSE "dim",
                                                  !.left = {}, !.s = s, !.g = driver[s]])
                BY <4>2, JobTypes DEF Goes, Job
            <4>3. CASE GivesUp(a)
                BY <4>3 DEF GivesUp, Ends, Goes, Rest, Idle, Over, WithWorld
            <4> QED
                BY <3>1, <4>1, <4>2, <4>3 DEF LookupStep
        <3>2. CASE Choose(a)
            <4>1. CASE \E s \in Choice :
                          Goes(a, [work[a] EXCEPT !.at = "add", !.s = s, !.g = driver[s]])
                BY <4>1, JobTypes DEF Goes, WithWorld, Job
            <4>2. CASE GivesUp(a)
                BY <4>2 DEF GivesUp, Ends, Goes, Rest, Idle, Over, WithWorld
            <4> QED
                BY <3>2, <4>1, <4>2 DEF Choose
        <3>3. CASE GetDimension(a) \/ AddDimension(a) \/ Save(a) \/ SaveFails(a) \/ SaveForgotten(a)
            <4>1. work[a].s \in Storages /\ world[work[a].s] # "none"
                BY <3>3, Carrying DEF FInv, Based, WithWorld, GetDimension, AddDimension, Save,
                   SaveFails, SaveForgotten, At
            <4>2. (\E f \in {"kept", "lost"} : Ends(a, f)) \/ (\E p \in Places : To(a, p))
                BY <1>2, <3>3 DEF GetDimension, AddDimension, Save, SaveFails, SaveForgotten,
                   GivesUp, Places
            <4>3. work'[a].s = work[a].s \/ work'[a] = Rest(a)
                BY <4>2, JobTypes DEF To, Goes, Ends, Job
            <4> QED
                BY <4>1, <4>3 DEF Rest, Idle, Over, WithWorld
        <3> QED
            BY <3>1, <3>2, <3>3 DEF Lookup
    <2>7. \/ stored' = stored
          \/ \E c \in Chunks, s \in Storages : world[s] # "none" /\ stored' = stored \cup {<<c, s>>}
        <3>1. CASE Save(a)
            <4>1. ChunkOf(a) \in Chunks /\ work[a].s \in Storages /\ world[work[a].s] # "none"
                BY <3>1, Carrying DEF Save, At, FInv, Based, WithWorld
            <4>2. stored' = stored \/ stored' = stored \cup {<<ChunkOf(a), work[a].s>>}
                BY <3>1 DEF Save, Copy
            <4> QED
                BY <4>1, <4>2
        <3>2. CASE ~Save(a)
            BY <1>2, <3>2 DEF Lookup, LookupStep, Choose, GetDimension, AddDimension, SaveFails,
               SaveForgotten, GivesUp, chunkVars
        <3> QED
            BY <3>1, <3>2
    <2> QED
        BY <2>1, <2>2, <2>3, <2>5, <2>6, <2>7, CalmFInv
<1> QED
    BY <1>1, <1>2

\* A call that makes a world: a step of a at storage s, which is never left
\* without one, and is partly made only by a maker or after a fault.
LEMMA WorldFInv ==
    ASSUME IInv, FInv, NEW a \in Actors, NEW w \in {"none", "part", "whole"},
           work[a].at \in {"add", "level"}, work[a].s \in Storages,
           world' = [world EXCEPT ![work[a].s] = w], UNCHANGED stored,
           world[work[a].s] # "none" => w # "none",
           Interrupted => Interrupted',
           \A b \in Actors \ {a} : work'[b] = work[b],
           w = "part" => Interrupted' \/ (work'[a].at = "level" /\ work'[a].s = work[a].s),
           work'[a].at \in WithWorld => work'[a].s = work[a].s /\ w # "none"
    PROVE  FInv'
<1> USE Facts
<1>1. world \in [Storages -> {"none", "part", "whole"}] /\ stored \subseteq Chunks \X Storages
    BY DEF TypeRest
<1>2. world'[work[a].s] = w /\ \A s \in Storages \ {work[a].s} : world'[s] = world[s]
    BY <1>1
<1>3. Makers'
    <2>1. CASE Interrupted'
        BY <2>1 DEF Makers
    <2>2. CASE ~Interrupted'
        <3> SUFFICES ASSUME NEW s \in Storages, world'[s] = "part"
                     PROVE  \E b \in Actors : work'[b].at = "level" /\ work'[b].s = s
            BY DEF Makers
        <3>1. CASE s = work[a].s
            BY <1>2, <2>2, <3>1
        <3>2. CASE s # work[a].s
            <4>1. PICK b \in Actors : work[b].at = "level" /\ work[b].s = s
                BY <1>2, <2>2, <3>2 DEF FInv, Makers
            <4> QED
                BY <3>2, <4>1
        <3> QED
            BY <3>1, <3>2
    <2> QED
        BY <2>1, <2>2
<1>4. \A s \in Storages : world[s] # "none" => world'[s] # "none"
    BY <1>2
<1>5. Based'
    <2>1. \A b \in Actors : work'[b].at \in WithWorld => world'[work'[b].s] # "none"
        <3> SUFFICES ASSUME NEW b \in Actors, work'[b].at \in WithWorld
                     PROVE  world'[work'[b].s] # "none"
            OBVIOUS
        <3>1. CASE b = a
            BY <1>2, <3>1
        <3>2. CASE b # a
            <4>1. work[b].s \in Storages /\ world[work[b].s] # "none"
                BY <3>2 DEF IInv, Stations, FInv, Based, WithWorld, AtStorage
            <4> QED
                BY <1>4, <3>2, <4>1
        <3> QED
            BY <3>1, <3>2
    <2>2. \A c \in Chunks, s \in Storages : <<c, s>> \in stored' => world'[s] # "none"
        BY <1>4 DEF FInv, Based
    <2> QED
        BY <2>1, <2>2 DEF Based
<1> QED
    BY <1>3, <1>5 DEF FInv

\* What a maker does next: it goes on at its storage or is done.
LEMMA MakerNext ==
    ASSUME IInv, NEW a \in Actors,
           (\E p \in Places : To(a, p)) \/ (\E f \in {"kept", "lost"} : Ends(a, f))
    PROVE  /\ \A b \in Actors \ {a} : work'[b] = work[b]
           /\ work'[a].at \in WithWorld => work'[a].s = work[a].s
           /\ \A p \in Places : To(a, p) => work'[a].at = p /\ work'[a].s = work[a].s
<1> USE Facts
<1>1. \A b \in Actors \ {a} : work'[b] = work[b]
    BY DEF To, Ends, Goes
<1>2. \A p \in Places : To(a, p) => work'[a].at = p /\ work'[a].s = work[a].s
    BY JobTypes DEF To, Goes, Job
<1>3. (\E f \in {"kept", "lost"} : Ends(a, f)) => work'[a].at \notin WithWorld
    BY DEF Ends, Goes, Rest, Idle, Over, WithWorld
<1> QED
    BY <1>1, <1>2, <1>3

\* Nothing but a fault or a death adds to what went wrong in a call.
LEMMA CallInterrupts ==
    ASSUME IInv, NoFault \/ Fault, UNCHANGED <<restarts, dead>>
    PROVE  (Interrupted => Interrupted') /\ (Fault => Interrupted')
BY Facts DEF NoFault, Fault, Interrupted, TypeRest

LEMMA MakeWorldFInv ==
    ASSUME IInv, FInv, NEW a \in Actors, MakeWorld(a)
    PROVE  FInv'
<1> USE Facts DEF MakeWorld, At
<1>1. work[a].at = "add" /\ work[a].s \in Storages
    BY DEF IInv, Stations, AtStorage
<1>2. UNCHANGED <<restarts, dead>> /\ (NoFault \/ Fault) /\ UNCHANGED stored
    BY DEF control, GivesUp
<1>3. CASE NoFault /\ world' = [world EXCEPT ![work[a].s] = "part"] /\ To(a, "level")
    BY <1>1, <1>2, <1>3, CallInterrupts, MakerNext, WorldFInv DEF Places
<1>4. ASSUME Fault, GivesUp(a), NEW w \in {world[work[a].s]} \cup {"part"},
             world[work[a].s] = "whole" => w = "whole",
             world' = [world EXCEPT ![work[a].s] = w]
      PROVE  FInv'
    <2>1. w \in {"none", "part", "whole"} /\ (world[work[a].s] # "none" => w # "none")
        BY <1>1, <1>4 DEF TypeRest
    <2>2. work'[a].at \notin WithWorld /\ \A b \in Actors \ {a} : work'[b] = work[b]
        BY <1>4 DEF GivesUp, Ends, Goes, Rest, Idle, Over, WithWorld
    <2> QED
        BY <1>1, <1>2, <1>4, <2>1, <2>2, CallInterrupts, WorldFInv
<1> QED
    BY <1>3, <1>4

LEMMA WriteLevelFInv ==
    ASSUME IInv, FInv, NEW a \in Actors, WriteLevel(a)
    PROVE  FInv'
<1> USE Facts DEF WriteLevel, At
<1>1. work[a].at = "level" /\ work[a].s \in Storages
    BY DEF IInv, Stations, AtStorage
<1>2. UNCHANGED <<restarts, dead>> /\ (NoFault \/ Fault) /\ UNCHANGED stored
    BY DEF control, GivesUp
<1>3. (\E p \in Places : To(a, p)) \/ (\E f \in {"kept", "lost"} : Ends(a, f))
    BY DEF Created, GivesUp, Places
<1>4. CASE NoFault /\ world' = [world EXCEPT ![work[a].s] = "whole"]
    BY <1>1, <1>2, <1>3, <1>4, CallInterrupts, MakerNext, WorldFInv
<1>5. CASE Fault /\ world' = [world EXCEPT ![work[a].s] = "part"]
    BY <1>1, <1>2, <1>3, <1>5, CallInterrupts, MakerNext, WorldFInv
<1> QED
    BY <1>4, <1>5

LEMMA InsertWorldFInv ==
    ASSUME IInv, FInv, NEW a \in Actors, InsertWorld(a)
    PROVE  FInv'
<1> USE Facts DEF InsertWorld, At
<1>1. work[a].at = "add" /\ work[a].s \in Storages
    BY DEF IInv, Stations, AtStorage
<1>2. UNCHANGED <<restarts, dead>> /\ (NoFault \/ Fault) /\ UNCHANGED stored
    BY DEF control, GivesUp
<1>3. (\E p \in Places : To(a, p)) \/ (\E f \in {"kept", "lost"} : Ends(a, f))
    BY DEF Created, GivesUp, Places
<1>4. CASE NoFault /\ world' = [world EXCEPT ![work[a].s] = "whole"]
    BY <1>1, <1>2, <1>3, <1>4, CallInterrupts, MakerNext, WorldFInv
<1>5. CASE GivesUp(a) /\ UNCHANGED world
    <2>1. work'[a].at \notin WithWorld /\ \A b \in Actors \ {a} : work'[b] = work[b]
        BY <1>5 DEF GivesUp, Ends, Goes, Rest, Idle, Over, WithWorld
    <2> QED
        BY <1>1, <1>2, <1>5, <2>1, CallInterrupts, CalmFInv
<1>6. ASSUME Fault, GivesUp(a), NEW w \in {world[work[a].s], "whole"},
             world' = [world EXCEPT ![work[a].s] = w]
      PROVE  FInv'
    <2>1. w \in {"none", "part", "whole"} /\ (world[work[a].s] # "none" => w # "none")
        BY <1>1, <1>6 DEF TypeRest
    <2>2. work'[a].at \notin WithWorld /\ \A b \in Actors \ {a} : work'[b] = work[b]
        BY <1>6 DEF GivesUp, Ends, Goes, Rest, Idle, Over, WithWorld
    <2> QED
        BY <1>1, <1>2, <1>6, <2>1, <2>2, CallInterrupts, WorldFInv
<1> QED
    BY <1>4, <1>5, <1>6

\* A step of somebody who is not at a storage and makes no world.
LEMMA BeginFInv ==
    ASSUME IInv, FInv, NEW a \in Actors, NEW x \in Job, Goes(a, x), x.at \notin WithWorld,
           work[a].at # "level", UNCHANGED <<world, stored, faults, restarts, dead>>
    PROVE  FInv'
<1> USE Facts
<1>1. work'[a] = x /\ (\A b \in Actors \ {a} : work'[b] = work[b]) /\ (Interrupted => Interrupted')
    BY DEF Goes, Interrupted
<1> QED
    BY <1>1, CalmFInv

\* A step that moves nobody.
LEMMA StillFInv ==
    ASSUME FInv, UNCHANGED <<world, stored, work, faults, restarts, dead>>
    PROVE  FInv'
BY DEF FInv, Makers, Based, Interrupted

LEMMA StepFInv == IInv /\ FInv /\ [Next]_vars => FInv'
<1> SUFFICES ASSUME IInv, FInv, [Next]_vars
             PROVE  FInv'
    OBVIOUS
<1> USE Facts
<1>1. ASSUME NEW c \in Proxied, Collect(c) \/ Send(c)
      PROVE  FInv'
    BY <1>1, StillFInv DEF Collect, Send, stores, control
<1>2. CASE Take \/ \E c \in Posted : Post(c)
    <2> DEFINE x == [Idle EXCEPT !.at = "lookup", !.chunk = Head(chan), !.left = Storages]
               y == [Idle EXCEPT !.at = "lookup", !.left = Storages]
    <2>1. ASSUME Take
          PROVE  x \in Job /\ x.at \notin WithWorld /\ Goes(Consumer, x)
        <3>1. Head(chan) \in Proxied /\ Goes(Consumer, x)
            BY <2>1 DEF Take, Starts
        <3> QED
            BY <3>1 DEF Job, Idle, Places, WithWorld
    <2>2. y \in Job /\ y.at \notin WithWorld
        BY DEF Job, Idle, Places, WithWorld
    <2>3. CASE Take
        BY <2>1, <2>3, BeginFInv DEF Take, At, stores, control
    <2>4. ASSUME NEW c \in Posted, Post(c)
          PROVE  FInv'
        BY <2>2, <2>4, BeginFInv DEF Post, At, Starts, stores, control
    <2> QED
        BY <1>2, <2>3, <2>4
<1>3. ASSUME NEW r \in Readers, Read(r)
      PROVE  FInv'
    <2> DEFINE x == [Idle EXCEPT !.at = "lookup", !.left = Storages]
    <2>1. x \in Job /\ x.at \notin WithWorld
        BY DEF Job, Idle, Places, WithWorld
    <2> QED
        BY <1>3, <2>1, BeginFInv DEF Read, At, chunkVars, stores, control
<1>4. ASSUME NEW r \in Readers, ReadTiles(r)
      PROVE  FInv'
    <2>1. CASE Die("tiles")
        BY <2>1, DieFInv
    <2>2. CASE Goes(r, Over) /\ UNCHANGED <<chunkVars, stores, control, faults>>
        <3>1. Over \in Job /\ Over.at \notin WithWorld /\ work[r].at # "level"
            BY <1>4, IdleIsJob DEF Over, Idle, WithWorld, ReadTiles, At
        <3> QED
            BY <2>2, <3>1, BeginFInv DEF chunkVars, stores, control
    <2> QED
        BY <1>4, <2>1, <2>2 DEF ReadTiles
<1>5. ASSUME NEW o \in Orders, NEW s \in Storages, Order(o, s)
      PROVE  FInv'
    <2> DEFINE x == [Idle EXCEPT !.at = "add", !.s = s, !.g = driver[s]]
    <2>1. x \in Job /\ x.at \notin WithWorld
        BY DEF Job, Idle, Places, WithWorld, TypeRest
    <2> QED
        BY <1>5, <2>1, BeginFInv DEF Order, At, Starts, chunkVars, stores, control
<1>6. ASSUME NEW s \in Storages, ReinitClose(s) \/ ReinitOpen(s)
      PROVE  FInv'
    BY <1>6, StillFInv DEF ReinitClose, ReinitOpen, chunkVars, stores, control, NoFault
<1>7. ASSUME NEW a \in Actors, CallStep(a)
      PROVE  FInv'
    BY <1>7, SameWorldFInv, MakeWorldFInv, WriteLevelFInv, InsertWorldFInv DEF CallStep
<1>8. CASE ConsumerExit \/ CacheUp
    BY <1>8, StillFInv DEF ConsumerExit, CacheUp, chunkVars, stores
<1>12. CASE MainStep \/ Waits
    BY <1>12, MainChange, WaitsChange, StillFInv
<1>9. CASE Restart
    <2>1. UNCHANGED <<world, stored>> /\ restarts' > 0
        BY <1>9 DEF Restart, chunkVars, stores, TypeRest
    <2>2. Makers'
        BY <2>1 DEF Makers, Interrupted
    <2>3. Based'
        BY <1>9, <2>1 DEF Restart, FInv, Based, WithWorld, Idle
    <2> QED
        BY <2>2, <2>3 DEF FInv
<1>10. ASSUME NEW why \in {"fatal", "exit", "kill", "race", "cache", "noworld"}, Die(why)
       PROVE  FInv'
    BY <1>10, DieFInv
<1>11. CASE UNCHANGED vars
    BY <1>11, StillFInv DEF vars, chunkVars, stores, control
<1> QED
    BY <1>1, <1>2, <1>3, <1>4, <1>5, <1>6, <1>7, <1>8, <1>9, <1>10, <1>11, <1>12
       DEF Next, Shutdown, MainStep, Waits, WebFatal, Exit, Kill, Render, MapRace, ReadTooEarly,
           ReadNowhere

\* A stored chunk is found by the next lookup of its world, unless its AddWorld
\* is under way or something went wrong before.
THEOREM StoredChunksAreFound == Spec => []StoredIsFound
<1>1. IInv /\ FInv => StoredIsFound
    BY Facts DEF FInv, Makers, Based, StoredIsFound, TypeRest
<1> QED
    BY <1>1, InitFInv, StepFInv, Invariance, PTL DEF Spec
=============================================================================
