--------------------------- MODULE ChunkLossProofs ---------------------------
(***************************************************************************)
(* Theorems about ChunkPipeline, for all values of its constants: a world   *)
(* has one storage, and a chunk is lost only for a cause that is named.     *)
(***************************************************************************)
EXTENDS ChunkPipelineProofs, FiniteSetTheorems

-----------------------------------------------------------------------------
(* A world has one storage *)

\* What may give a world a second storage.
Excused == overlapped \/ hidden \/ \E o \in Orders : work[o].at # "idle"

\* A lookup that has not found the world has passed no storage that has it, and
\* whoever adds the world knows of none.
Sought ==
    /\ \A s, t \in Homes : s = t
    /\ \A a \in Actors \ Readers :
          /\ work[a].at = "lookup" => \A s \in Storages \ work[a].left : world[s] = "none"
          /\ work[a].at = "add" => Homes = {}

WInv == Excused \/ Sought

LEMMA InitWInv == Init => WInv
<1> SUFFICES ASSUME Init PROVE WInv
    OBVIOUS
<1>1. Homes = {} /\ \A a \in Actors : work[a].at = "idle"
    BY DEF Init, Homes, Idle
<1> QED
    BY <1>1 DEF WInv, Sought

\* An excuse stays.
LEMMA ExcuseStays ==
    ASSUME IInv, overlapped => overlapped', hidden => hidden',
           \A o \in Orders : work[o].at # "idle" => work'[o].at # "idle"
    PROVE  Excused => Excused'
BY DEF Excused

LEMMA TurnExcuse ==
    ASSUME IInv, NEW a \in Actors, Turn(a), overlapped => overlapped', hidden => hidden'
    PROVE  Excused => Excused'
<1>1. a \in Orders => work'[a].at # "idle"
    BY Facts, Apart DEF Turn, Advance, Closes, Ends, Goes, Rest, Over, Idle, Resting
<1>2. \A b \in Actors \ {a} : work'[b] = work[b]
    BY Facts DEF Turn, Advance, Closes, Ends, Goes
<1> QED
    BY <1>1, <1>2, Facts, ExcuseStays

\* A step that makes no world and moves at most a.
LEMMA CalmWInv ==
    ASSUME WInv, NEW a, Excused => Excused', UNCHANGED world,
           \A b \in Actors \ {a} : work'[b] = work[b],
           a \in Actors \ Readers =>
              \/ Excused'
              \/ /\ work'[a].at = "lookup" =>
                       \A s \in Storages \ work'[a].left : world[s] = "none"
                 /\ work'[a].at = "add" => Homes = {}
    PROVE  WInv'
<1>1. CASE Excused'
    BY <1>1 DEF WInv
<1>2. CASE ~Excused'
    <2>1. Sought /\ Homes' = Homes
        BY <1>2 DEF WInv, Homes
    <2>2. \A b \in Actors \ Readers :
             /\ work'[b].at = "lookup" => \A s \in Storages \ work'[b].left : world[s] = "none"
             /\ work'[b].at = "add" => Homes = {}
        <3> SUFFICES ASSUME NEW b \in Actors \ Readers
                     PROVE  /\ work'[b].at = "lookup" =>
                                  \A s \in Storages \ work'[b].left : world[s] = "none"
                            /\ work'[b].at = "add" => Homes = {}
            OBVIOUS
        <3>1. CASE b = a
            BY <1>2, <3>1
        <3>2. CASE b # a
            BY <2>1, <3>2 DEF Sought
        <3> QED
            BY <3>1, <3>2
    <2> QED
        BY <2>1, <2>2 DEF WInv, Sought
<1> QED
    BY <1>1, <1>2

LEMMA DieWInv ==
    ASSUME IInv, WInv, NEW why, Die(why)
    PROVE  WInv'
<1>1. \A a \in Actors : work'[a] \in {Idle, Over} /\ (work[a].at # "idle" => work'[a].at # "idle")
    BY DEF Die, Idle, Over
<1>2. Excused => Excused'
    BY <1>1, ExcuseStays, Facts DEF Die, history
<1>3. \A a \in Actors : work'[a].at \notin {"lookup", "add"}
    BY <1>1 DEF Idle, Over
<1>4. Homes' = Homes
    BY DEF Die, stores, Homes
<1> QED
    BY <1>2, <1>3, <1>4 DEF WInv, Sought

\* Somebody at its storage makes the world there, or goes on making it.
LEMMA MakingWInv ==
    ASSUME IInv, FInv, WInv, NEW a \in Actors \ Readers, work[a].at \in {"add", "level"},
           Turn(a), hidden' = hidden, overlapped => overlapped',
           work[a].at = "add" => overlapped' = (overlapped \/ OthersCreating(a)),
           \A s \in Storages \ {work[a].s} : world'[s] = world[s],
           work'[a].at \notin {"lookup", "add"}
    PROVE  WInv'
<1>1. Excused => Excused'
    BY TurnExcuse
<1>2. CASE Excused'
    BY <1>2 DEF WInv
<1>3. CASE ~Excused'
    <2>1. Sought
        BY <1>1, <1>3 DEF WInv
    <2>2. \A b \in Actors \ {a} : work'[b] = work[b]
        BY Facts DEF Turn, Advance, Closes, Ends, Goes
    <2>3. work[a].s \in Storages
        BY DEF IInv, Stations, AtStorage
    <2>4. Homes \subseteq {work[a].s}
        <3>1. CASE work[a].at = "add"
            BY <2>1, <3>1 DEF Sought
        <3>2. CASE work[a].at = "level"
            <4>1. work[a].s \in Homes
                BY <2>3, <3>2 DEF FInv, Based, WithWorld, Homes
            <4> QED
                BY <2>1, <4>1 DEF Sought
        <3> QED
            BY <3>1, <3>2
    <2>5. Homes' \subseteq {work[a].s}
        BY <2>4 DEF Homes
    <2>6. ASSUME NEW b \in Actors \ Readers
          PROVE  /\ work'[b].at = "lookup" => \A s \in Storages \ work'[b].left : world'[s] = "none"
                 /\ work'[b].at = "add" => Homes' = {}
        <3>1. CASE b = a
            BY <3>1
        <3>2. CASE b # a /\ work[a].at = "add"
            <4>1. ~overlapped'
                BY <1>3 DEF Excused
            <4>2. ~OthersCreating(a)
                BY <3>2, <4>1, Zenon
            <4>3. ~Creating(b)
                BY <3>2, <4>2 DEF OthersCreating
            <4> QED
                BY <2>2, <3>2, <4>3 DEF Creating
        <3>3. CASE b # a /\ work[a].at = "level"
            <4>1. work[a].s \in Homes
                BY <2>3, <3>3 DEF FInv, Based, WithWorld, Homes
            <4>2. work[b].at # "add" /\ (work[b].at = "lookup" => work[a].s \in work[b].left)
                BY <2>1, <2>3, <4>1 DEF Sought, Homes
            <4> QED
                BY <2>1, <2>2, <3>3, <4>2 DEF Sought
        <3> QED
            BY <3>1, <3>2, <3>3
    <2> QED
        BY <2>5, <2>6 DEF WInv, Sought
<1> QED
    BY <1>2, <1>3

\* A lookup passes a storage only if that has no world, or notes that it hid one.
LEMMA LookupWInv ==
    ASSUME IInv, WInv, NEW a \in Actors, NEW s \in Storages, LookupStep(a, s)
    PROVE  WInv'
<1> USE Facts
<1>1. work[a].at = "lookup" /\ world' = world /\ overlapped' = overlapped
    BY DEF LookupStep, At, stores
<1>2. Turn(a)
    BY LookupTurn
<1>3. \A b \in Actors \ {a} : work'[b] = work[b]
    BY <1>2 DEF Turn, Advance, Closes, Ends, Goes
<1>4. CASE /\ hidden' = (hidden \/ (world[s] # "none" /\ a \notin Readers))
           /\ Goes(a, [work[a] EXCEPT !.left = @ \ {s}])
    <2>1. Excused => Excused'
        BY <1>1, <1>2, <1>4, TurnExcuse
    <2>2. work'[a].at = "lookup" /\ work'[a].left = work[a].left \ {s}
        BY <1>1, <1>4, JobTypes DEF Goes, Job
    <2>3. ASSUME a \notin Readers, ~Excused'
          PROVE  \A t \in Storages \ work'[a].left : world[t] = "none"
        <3>1. ~hidden'
            BY <2>3 DEF Excused
        <3>2. ~(world[s] # "none" /\ a \notin Readers)
            BY <1>4, <3>1, Zenon
        <3>3. \A t \in Storages \ work[a].left : world[t] = "none"
            BY <1>1, <2>1, <2>3 DEF WInv, Sought
        <3> QED
            BY <2>2, <2>3, <3>2, <3>3
    <2> QED
        BY <1>1, <1>3, <2>1, <2>2, <2>3, CalmWInv
<1>5. CASE /\ UNCHANGED hidden
           /\ Goes(a, [work[a] EXCEPT !.at = IF a \in Readers THEN "read" ELSE "dim",
                                      !.left = {}, !.s = s, !.g = driver[s]])
    <2>1. Excused => Excused'
        BY <1>1, <1>2, <1>5, TurnExcuse
    <2>2. work'[a].at \notin {"lookup", "add"}
        BY <1>5, JobTypes DEF Goes, Job
    <2> QED
        BY <1>1, <1>3, <2>1, <2>2, CalmWInv
<1>6. CASE UNCHANGED hidden /\ GivesUp(a)
    <2>1. Excused => Excused'
        BY <1>1, <1>2, <1>6, TurnExcuse
    <2>2. work'[a].at \notin {"lookup", "add"}
        BY <1>6 DEF GivesUp, Ends, Goes, Rest, Idle, Over
    <2> QED
        BY <1>1, <1>3, <2>1, <2>2, CalmWInv
<1> QED
    BY <1>4, <1>5, <1>6 DEF LookupStep

\* Whoever adds the world has asked every storage.
LEMMA ChooseWInv ==
    ASSUME IInv, WInv, NEW a \in Actors, Choose(a)
    PROVE  WInv'
<1> USE Facts
<1>1. /\ work[a].at = "lookup" /\ work[a].left = {} /\ a \notin Readers
      /\ world' = world /\ UNCHANGED <<overlapped, hidden>>
    BY DEF Choose, At, stores, history
<1>2. Turn(a)
    BY ChooseTurn
<1>3. Excused => Excused'
    BY <1>1, <1>2, TurnExcuse
<1>4. \A b \in Actors \ {a} : work'[b] = work[b]
    BY <1>2 DEF Turn, Advance, Closes, Ends, Goes
<1>5. Excused \/ Homes = {}
    BY <1>1 DEF WInv, Sought, Homes
<1>6. work'[a].at # "lookup"
    <2>1. CASE \E s \in Choice : Goes(a, [work[a] EXCEPT !.at = "add", !.s = s, !.g = driver[s]])
        BY <2>1, JobTypes DEF Goes, Job
    <2>2. CASE GivesUp(a)
        BY <2>2 DEF GivesUp, Ends, Goes, Rest, Idle, Over
    <2> QED
        BY <2>1, <2>2 DEF Choose
<1> QED
    BY <1>1, <1>3, <1>4, <1>5, <1>6, CalmWInv

\* Where a maker or somebody who has a world may go next.
LEMMA Onward ==
    ASSUME IInv, NEW a \in Actors,
           \/ \E p \in {"level", "dim", "mkdim", "save", "hung"} : To(a, p)
           \/ \E f \in {"kept", "lost"} : Ends(a, f)
    PROVE  work'[a].at \notin {"lookup", "add"}
<1> USE Facts
<1>1. CASE \E p \in {"level", "dim", "mkdim", "save", "hung"} : To(a, p)
    BY <1>1, JobTypes DEF To, Goes, Job
<1>2. CASE \E f \in {"kept", "lost"} : Ends(a, f)
    BY <1>2 DEF Ends, Goes, Rest, Idle, Over
<1> QED
    BY <1>1, <1>2

LEMMA WorldCallWInv ==
    ASSUME IInv, FInv, WInv, NEW a \in Actors,
           MakeWorld(a) \/ WriteLevel(a) \/ InsertWorld(a)
    PROVE  WInv'
<1> USE Facts
<1>1. work[a].at \in {"add", "level"} /\ work[a].s \in Storages /\ a \notin Readers
    BY DEF MakeWorld, WriteLevel, InsertWorld, At, IInv, Stations, AtStorage, Resting
<1>2. Turn(a)
    BY MakeWorldTurn, WriteLevelTurn, InsertWorldTurn
<1>3. hidden' = hidden
    BY DEF MakeWorld, WriteLevel, InsertWorld, history
<1>4. work[a].at = "add" => overlapped' = (overlapped \/ OthersCreating(a))
    BY Zenon DEF MakeWorld, WriteLevel, InsertWorld, At
<1>5. overlapped => overlapped'
    <2>1. CASE MakeWorld(a) \/ InsertWorld(a)
        BY <2>1, Zenon DEF MakeWorld, InsertWorld
    <2>2. CASE WriteLevel(a)
        BY <2>2 DEF WriteLevel, history
    <2> QED
        BY <2>1, <2>2
<1>6. \A s \in Storages \ {work[a].s} : world'[s] = world[s]
    BY DEF MakeWorld, WriteLevel, InsertWorld, TypeRest
<1>7. work'[a].at \notin {"lookup", "add"}
    BY Onward DEF MakeWorld, WriteLevel, InsertWorld, GivesUp, Created
<1> QED
    BY <1>1, <1>2, <1>3, <1>4, <1>5, <1>6, <1>7, MakingWInv

LEMMA LaterCallWInv ==
    ASSUME IInv, WInv, NEW a \in Actors,
           GetDimension(a) \/ AddDimension(a) \/ Save(a) \/ SaveFails(a) \/ SaveForgotten(a)
    PROVE  WInv'
<1> USE Facts
<1>1. CASE SaveFails(a) /\ Die("save")
    BY <1>1, DieWInv
<1>2. CASE ~(SaveFails(a) /\ Die("save"))
    <2>1. world' = world /\ hidden' = hidden
        BY <1>2 DEF GetDimension, AddDimension, Save, SaveFails, SaveForgotten, stores, history
    <2>2. overlapped => overlapped'
        <3>1. CASE AddDimension(a)
            BY <3>1, Zenon DEF AddDimension
        <3>2. CASE ~AddDimension(a)
            BY <1>2, <3>2 DEF GetDimension, Save, SaveFails, SaveForgotten, history
        <3> QED
            BY <3>1, <3>2
    <2>3. Turn(a)
        <3>1. CASE SaveFails(a)
            BY <1>2, <3>1, SaveFailsTurn
        <3>2. CASE ~SaveFails(a)
            BY <3>2, GetDimensionTurn, AddDimensionTurn, SaveTurn, SaveForgottenTurn
        <3> QED
            BY <3>1, <3>2
    <2>4. work'[a].at \notin {"lookup", "add"}
        BY <1>2, Onward DEF GetDimension, AddDimension, Save, SaveFails, SaveForgotten, GivesUp
    <2>5. \A b \in Actors \ {a} : work'[b] = work[b]
        BY <2>3 DEF Turn, Advance, Closes, Ends, Goes
    <2> QED
        BY <2>1, <2>2, <2>3, <2>4, <2>5, TurnExcuse, CalmWInv
<1> QED
    BY <1>1, <1>2

\* A step that moves nobody.
LEMMA StillWInv ==
    ASSUME WInv, UNCHANGED <<world, work, overlapped, hidden>>
    PROVE  WInv'
BY DEF WInv, Sought, Excused, Homes

\* Somebody begins to look for the world, or ends.
LEMMA BeginWInv ==
    ASSUME IInv, WInv, NEW a \in Actors, NEW x \in Job, Goes(a, x),
           x.at \notin {"idle", "add"}, x.at = "lookup" => x.left = Storages,
           UNCHANGED <<world, hidden>>, overlapped => overlapped'
    PROVE  WInv'
<1> USE Facts
<1>1. work'[a] = x /\ \A b \in Actors \ {a} : work'[b] = work[b]
    BY DEF Goes
<1>2. Excused => Excused'
    BY <1>1, ExcuseStays
<1> QED
    BY <1>1, <1>2, CalmWInv

LEMMA OrderWInv ==
    ASSUME IInv, WInv, NEW o \in Orders, NEW s \in Storages, Order(o, s)
    PROVE  WInv'
<1>1. work'[o].at = "add"
    BY Facts DEF Order, Starts, Goes, Idle
<1> QED
    BY <1>1 DEF WInv, Excused

LEMMA StepWInv == IInv /\ FInv /\ WInv /\ [Next]_vars => WInv'
<1> SUFFICES ASSUME IInv, FInv, WInv, [Next]_vars
             PROVE  WInv'
    OBVIOUS
<1> USE Facts
<1>1. ASSUME NEW c \in Proxied, Collect(c) \/ Send(c)
      PROVE  WInv'
    BY <1>1, StillWInv DEF Collect, Send, stores, history
<1>2. CASE Take
    <2> DEFINE x == [Idle EXCEPT !.at = "lookup", !.chunk = Head(chan), !.left = Storages]
    <2>1. Head(chan) \in Proxied /\ Goes(Consumer, x)
        BY <1>2 DEF Take, Starts
    <2>2. x \in Job /\ x.at = "lookup" /\ x.left = Storages
        BY <2>1 DEF Job, Idle, Places
    <2>3. UNCHANGED <<world, hidden>>
        BY <1>2 DEF Take, Starts, stores
    <2>4. overlapped => overlapped'
        BY <1>2, Zenon DEF Take, Starts
    <2> QED
        BY <2>1, <2>2, <2>3, <2>4, BeginWInv
<1>3. ASSUME NEW c \in Posted, Post(c)
      PROVE  WInv'
    <2> DEFINE x == [Idle EXCEPT !.at = "lookup", !.left = Storages]
    <2>1. x \in Job /\ x.at = "lookup" /\ x.left = Storages
        BY DEF Job, Idle, Places
    <2>2. UNCHANGED <<world, hidden>> /\ Goes(c, x)
        BY <1>3 DEF Post, Starts, stores
    <2>3. overlapped => overlapped'
        BY <1>3, Zenon DEF Post, Starts
    <2> QED
        BY <2>1, <2>2, <2>3, BeginWInv
<1>4. ASSUME NEW r \in Readers, Read(r)
      PROVE  WInv'
    <2> DEFINE x == [Idle EXCEPT !.at = "lookup", !.left = Storages]
    <2>1. x \in Job /\ x.at = "lookup" /\ x.left = Storages
        BY DEF Job, Idle, Places
    <2> QED
        BY <1>4, <2>1, BeginWInv DEF Read, stores, history
<1>5. ASSUME NEW r \in Readers, ReadTiles(r)
      PROVE  WInv'
    <2>1. CASE Die("tiles")
        BY <2>1, DieWInv
    <2>2. CASE Goes(r, Over) /\ UNCHANGED <<stores, history>>
        <3>1. Over \in Job /\ Over.at = "done"
            BY IdleIsJob DEF Over, Idle
        <3> QED
            BY <2>2, <3>1, BeginWInv DEF stores, history
    <2> QED
        BY <1>5, <2>1, <2>2 DEF ReadTiles
<1>6. ASSUME NEW s \in Storages, ReinitClose(s) \/ ReinitOpen(s)
      PROVE  WInv'
    BY <1>6, StillWInv DEF ReinitClose, ReinitOpen, stores, history
<1>7. ASSUME NEW a \in Actors, CallStep(a)
      PROVE  WInv'
    BY <1>7, LookupWInv, ChooseWInv, WorldCallWInv, LaterCallWInv DEF CallStep, Lookup
<1>8. CASE ConsumerExit \/ CacheUp
    BY <1>8, StillWInv DEF ConsumerExit, CacheUp, stores, history
<1>13. CASE MainStep \/ Waits
    BY <1>13, MainChange, WaitsChange, StillWInv
<1>9. CASE Restart
    <2>1. \A b \in Actors \ {Consumer} : work'[b] = work[b]
        BY <1>9 DEF Restart
    <2>2. work'[Consumer].at = "idle" /\ UNCHANGED <<world, overlapped, hidden>>
        BY <1>9 DEF Restart, Idle, stores, history
    <2>3. Excused => Excused'
        BY <2>1, <2>2, Apart, ExcuseStays
    <2> QED
        BY <2>1, <2>2, <2>3, CalmWInv
<1>10. ASSUME NEW why, Die(why)
       PROVE  WInv'
    BY <1>10, DieWInv
<1>11. ASSUME NEW o \in Orders, NEW s \in Storages, Order(o, s)
       PROVE  WInv'
    BY <1>11, OrderWInv
<1>12. CASE UNCHANGED vars
    BY <1>12, StillWInv DEF vars, stores, history
<1> QED
    BY <1>1, <1>2, <1>3, <1>4, <1>5, <1>6, <1>7, <1>8, <1>9, <1>10, <1>11, <1>12, <1>13
       DEF Next, Shutdown, MainStep, Waits, WebFatal, Exit, Kill, Render, MapRace, ReadTooEarly,
           ReadNowhere

\* At most one storage has the world, unless two made it at one time, a driver
\* that was nil hid it from a lookup, or somebody ordered it: GetWorldStorage
\* asks every storage before findCapableStorage picks one (worlds.go, storages.go).
THEOREM AWorldHasOneStorage == Spec => []OneStoragePerWorld
<1>1. IInv /\ WInv => OneStoragePerWorld
    <2> SUFFICES ASSUME Sought
                 PROVE  Cardinality(Homes) <= 1
        BY DEF WInv, Excused, OneStoragePerWorld
    <2>1. CASE Homes = {}
        BY <2>1, FS_EmptySet
    <2>2. ASSUME NEW s \in Homes
          PROVE  Cardinality(Homes) <= 1
        <3>1. Homes = {s}
            BY <2>2 DEF Sought
        <3>2. Cardinality({s}) = 1
            BY FS_Singleton, Zenon
        <3> QED
            BY <3>1, <3>2
    <2> QED
        BY <2>1, <2>2
<1>2. Spec => [](IInv /\ FInv)
    BY InitFInv, StepFInv, Invariance, PTL DEF Spec
<1> QED
    BY <1>1, <1>2, InitWInv, StepWInv, PTL DEF Spec

-----------------------------------------------------------------------------
(* A loss has a cause *)

\* What may cost any chunk.
Upset == Interrupted \/ reinits > 0 \/ overlapped

\* Nobody looks for a world, or adds it, while another makes it.
OneMaker ==
    \A a \in Actors \ Readers, b \in Actors \ Readers :
        a # b /\ work[b].at = "level" => ~Creating(a)

\* Whoever adds a world that it looked for adds it where it is not.
Absent ==
    \A a \in Posted \cup {Consumer} :
        /\ work[a].at = "lookup" =>
              \A s \in Storages \ work[a].left : driver[s] = 0 \/ world[s] = "none"
        /\ work[a].at = "add" => world[work[a].s] = "none"

\* Whoever adds a dimension adds it where it is not.
Missing == \A a \in Posted \cup {Consumer} : work[a].at = "mkdim" => ~DimHere(a)

CInv == Upset \/ (OneMaker /\ Absent /\ Missing)

\* What LossHasACause names.
Cause(c) == Upset \/ Refused(c) \/ \A s \in Choice : driver[s] = 0

LInv == CInv /\ LossHasACause

LEMMA Causes == LossHasACause <=> \A c \in Chunks : fate[c] = "lost" => Cause(c)
BY DEF LossHasACause, Cause, Upset

LEMMA InitLInv == Init => LInv
<1> SUFFICES ASSUME Init PROVE LInv
    OBVIOUS
<1>1. \A a \in Actors : work[a].at = "idle"
    BY DEF Init, Idle
<1>2. LossHasACause
    BY DEF Init, LossHasACause
<1>3. OneMaker /\ Absent /\ Missing
    BY <1>1 DEF OneMaker, Absent, Missing, Actors
<1> QED
    BY <1>2, <1>3 DEF LInv, CInv

\* What went wrong did.
LEMMA UpsetStays ==
    ASSUME IInv, faults' = faults \/ Fault, restarts' = restarts, dead' = dead,
           reinits' = reinits, overlapped => overlapped'
    PROVE  Upset => Upset'
BY Facts DEF Upset, Interrupted, Fault, TypeRest

\* Nobody who has a chunk finds a closed driver while nothing went wrong.
LEMMA NothingShut ==
    ASSUME DInv, HInv, ~Upset, NEW a \in Posted \cup {Consumer}, work[a].at \notin Resting
    PROVE  shut = {}
<1>1. shut # {} => main = "storages"
    BY DEF DInv, CloseOrder, Upset
<1>2. main = "storages" => work[Consumer].at \in Resting /\ \A c \in Posted : work[c].at \in Resting
    BY DEF DInv, CloseOrder, HInv, Served
<1> QED
    BY <1>1, <1>2

-----------------------------------------------------------------------------
(* Makers work alone *)

\* A step of a that neither makes a world nor opens a driver.
LEMMA CalmCInv ==
    ASSUME CInv, NEW a \in Actors, Upset => Upset', UNCHANGED <<world, driver>>,
           \A b \in Actors \ {a} : work'[b] = work[b],
           work'[a].at # "level",
           dims' = dims \/ Upset' \/ \A b \in Actors \ {a} : work[b].at # "mkdim",
           a \notin Readers /\ work'[a].at \in {"lookup", "add"} =>
              Upset' \/ ~HalfMade(a) \/ work[a].at \in {"lookup", "add"},
           a \in Posted \cup {Consumer} =>
              \/ Upset'
              \/ /\ work'[a].at = "lookup" =>
                       \A s \in Storages \ work'[a].left : driver[s] = 0 \/ world[s] = "none"
                 /\ work'[a].at = "add" => world[work'[a].s] = "none"
                 /\ work'[a].at = "mkdim" => ~DimHere(a)'
    PROVE  CInv'
<1> SUFFICES ASSUME ~Upset' PROVE (OneMaker /\ Absent /\ Missing)'
    BY DEF CInv
<1>1. OneMaker /\ Absent /\ Missing
    BY DEF CInv
<1>2. OneMaker'
    <2> SUFFICES ASSUME NEW b \in Actors \ Readers, NEW d \in Actors \ Readers, b # d,
                        work'[d].at = "level"
                 PROVE  work'[b].at \notin {"lookup", "add", "level"}
        BY DEF OneMaker, Creating
    <2>1. d # a /\ work[d].at = "level"
        OBVIOUS
    <2>2. CASE b # a
        BY <1>1, <2>1, <2>2 DEF OneMaker, Creating
    <2>3. CASE b = a
        <3>1. HalfMade(a)
            BY <2>1, <2>3 DEF HalfMade
        <3> QED
            BY <1>1, <2>1, <2>3, <3>1 DEF OneMaker, Creating
    <2> QED
        BY <2>2, <2>3
<1>3. Absent'
    <2> SUFFICES ASSUME NEW b \in Posted \cup {Consumer}
                 PROVE  /\ work'[b].at = "lookup" =>
                              \A s \in Storages \ work'[b].left : driver'[s] = 0 \/ world'[s] = "none"
                        /\ work'[b].at = "add" => world'[work'[b].s] = "none"
        BY DEF Absent
    <2>1. CASE b = a
        BY <2>1
    <2>2. CASE b # a
        BY <1>1, <2>2 DEF Absent, Actors
    <2> QED
        BY <2>1, <2>2
<1>4. Missing'
    <2> SUFFICES ASSUME NEW b \in Posted \cup {Consumer}, work'[b].at = "mkdim"
                 PROVE  ~DimHere(b)'
        BY DEF Missing
    <2>1. CASE b = a
        BY <2>1
    <2>2. CASE b # a
        <3>1. work'[b] = work[b] /\ b \in Actors
            BY <2>2 DEF Actors
        <3>2. dims' = dims
            BY <2>2, <3>1
        <3>3. ~DimHere(b)
            BY <1>1, <3>1 DEF Missing
        <3> QED
            BY <3>1, <3>2, <3>3 DEF DimHere, ChunkOf
    <2> QED
        BY <2>1, <2>2
<1> QED
    BY <1>2, <1>3, <1>4

\* A step of the only maker.
LEMMA MakingCInv ==
    ASSUME CInv, NEW a \in Actors, Upset => Upset', UNCHANGED dims,
           \A b \in Actors \ {a} : work'[b] = work[b],
           work'[a].at \notin {"lookup", "add", "mkdim"},
           Upset' \/ \A b \in Actors \ (Readers \cup {a}) : ~Creating(b)
    PROVE  CInv'
<1> SUFFICES ASSUME ~Upset' PROVE (OneMaker /\ Absent /\ Missing)'
    BY DEF CInv
<1>1. OneMaker /\ Absent /\ Missing
    BY DEF CInv
<1>2. \A b \in Actors \ (Readers \cup {a}) : work'[b].at \notin {"lookup", "add", "level"}
    BY DEF Creating
<1>3. OneMaker'
    BY <1>2 DEF OneMaker, Creating
<1>4. \A b \in Posted \cup {Consumer} : b \in Actors \ Readers
    BY Apart DEF Actors
<1>5. Absent'
    BY <1>2, <1>4 DEF Absent
<1>6. Missing'
    <2> SUFFICES ASSUME NEW b \in Posted \cup {Consumer}, work'[b].at = "mkdim"
                 PROVE  ~DimHere(b)'
        BY DEF Missing
    <2>1. work'[b] = work[b]
        BY <1>4
    <2>2. ~DimHere(b)
        BY <1>1, <2>1 DEF Missing
    <2> QED
        BY <2>1, <2>2 DEF DimHere, ChunkOf
<1> QED
    BY <1>3, <1>5, <1>6

-----------------------------------------------------------------------------
(* The calls *)

\* A cause stays while worlds only come and drivers stay.
LEMMA CauseStays ==
    ASSUME Upset => Upset', \A s \in Storages : world[s] # "none" => world'[s] # "none",
           UNCHANGED <<driver, scene>> \/ Upset', NEW c, Cause(c)
    PROVE  Cause(c)'
<1>1. CASE Upset'
    BY <1>1 DEF Cause
<1>2. CASE ~Upset'
    <2>1. Refused(c) \/ \A s \in Choice : driver[s] = 0
        BY <1>2 DEF Cause
    <2>2. Refused(c) => Refused(c)'
        BY DEF Refused, Homes
    <2>3. (\A s \in Choice : driver[s] = 0) => (\A s \in Choice : driver[s] = 0)'
        BY <1>2 DEF Choice
    <2> QED
        BY <2>1, <2>2, <2>3 DEF Cause
<1> QED
    BY <1>1, <1>2

LEMMA TurnLoss ==
    ASSUME IInv, LossHasACause, NEW a \in Actors, Turn(a), Upset => Upset',
           \A s \in Storages : world[s] # "none" => world'[s] # "none", UNCHANGED <<driver, scene>>,
           Ends(a, "lost") /\ a \in Posted \cup {Consumer} => Upset' \/ Cause(ChunkOf(a))
    PROVE  LossHasACause'
<1> USE Facts
<1> SUFFICES ASSUME NEW c \in Chunks, fate'[c] = "lost"
             PROVE  Cause(c)'
    BY DEF LossHasACause, Cause, Upset
<1>1. CASE fate[c] = "lost"
    BY <1>1, Causes, CauseStays
<1>2. CASE fate[c] # "lost"
    <2>1. Closes(a) /\ fate' # fate
        BY <1>2 DEF Turn, Advance
    <2>2. PICK f \in {"kept", "lost"} : Ends(a, f)
        BY <2>1 DEF Closes
    <2>3. a \in Posted \cup {Consumer} /\ fate' = [fate EXCEPT ![ChunkOf(a)] = f]
        BY <2>1, <2>2 DEF Ends
    <2>4. c = ChunkOf(a) /\ f = "lost"
        BY <1>2, <2>3
    <2>5. CASE Upset'
        BY <2>5 DEF Cause
    <2>6. CASE Cause(c)
        BY <2>6, CauseStays
    <2> QED
        BY <2>2, <2>3, <2>4, <2>5, <2>6
<1> QED
    BY <1>1, <1>2

\* What the lemmas on the calls start from.
LEMMA CallFacts ==
    ASSUME IInv, NEW a \in Actors, Turn(a)
    PROVE  /\ \A b \in Actors \ {a} : work'[b] = work[b]
           /\ \A f : Ends(a, f) => work'[a].at \in Resting
BY Facts DEF Turn, Advance, Closes, Ends, Goes, Rest, Idle, Over, Resting

LEMMA ToPlace ==
    ASSUME IInv, NEW a \in Actors, NEW p, To(a, p)
    PROVE  /\ work'[a].at = p /\ work'[a].s = work[a].s /\ work'[a].chunk = work[a].chunk
BY Facts, JobTypes DEF To, Goes, Job

LEMMA LookupLInv ==
    ASSUME IInv, DInv, HInv, FInv, LInv, NEW a \in Actors, NEW s \in Storages, LookupStep(a, s)
    PROVE  CInv' /\ LossHasACause'
<1> USE Facts
<1>1. /\ work[a].at = "lookup" /\ dead = "no"
      /\ UNCHANGED <<world, dims, driver, scene, restarts, dead, reinits, overlapped>>
    BY DEF LookupStep, At, Alive, stores, registry, control
<1>2. Turn(a)
    BY LookupTurn
<1>3. \A b \in Actors \ {a} : work'[b] = work[b]
    BY <1>2, CallFacts
<1>4. Upset => Upset'
    BY <1>1, UpsetStays DEF LookupStep, NoFault
<1>5. Fault => Upset'
    BY DEF Fault, Upset, Interrupted, TypeRest
<1>6. CASE /\ driver[s] = 0 \/ world[s] = "none"
           /\ Goes(a, [work[a] EXCEPT !.left = @ \ {s}]) /\ UNCHANGED fate
    <2>1. work'[a].at = "lookup" /\ work'[a].left = work[a].left \ {s}
        BY <1>1, <1>6, JobTypes DEF Goes, Job
    <2>2. ASSUME a \in Posted \cup {Consumer}, ~Upset'
          PROVE  \A t \in Storages \ work'[a].left : driver[t] = 0 \/ world[t] = "none"
        BY <1>1, <1>4, <1>6, <2>1, <2>2 DEF LInv, CInv, Absent
    <2>3. CInv'
        BY <1>1, <1>3, <1>4, <2>1, <2>2, CalmCInv DEF LInv
    <2>4. ~Ends(a, "lost")
        BY <2>1, <1>2, CallFacts DEF Resting
    <2> QED
        BY <1>1, <1>2, <1>4, <2>3, <2>4, TurnLoss DEF LInv
<1>7. CASE /\ Goes(a, [work[a] EXCEPT !.at = IF a \in Readers THEN "read" ELSE "dim",
                                      !.left = {}, !.s = s, !.g = driver[s]])
           /\ UNCHANGED fate
    <2>1. work'[a].at \in {"read", "dim"}
        BY <1>7, JobTypes DEF Goes, Job
    <2>2. CInv'
        BY <1>1, <1>3, <1>4, <2>1, CalmCInv DEF LInv
    <2>3. ~Ends(a, "lost")
        BY <2>1, <1>2, CallFacts DEF Resting
    <2> QED
        BY <1>1, <1>2, <1>4, <2>2, <2>3, TurnLoss DEF LInv
<1>8. CASE /\ driver[s] # 0 /\ GivesUp(a)
           /\ IF Unreadable(s) THEN NoFault ELSE Fault
    <2>1. work'[a].at \in Resting
        BY <1>2, <1>8, CallFacts DEF GivesUp
    <2>2. CInv'
        BY <1>1, <1>3, <1>4, <2>1, CalmCInv DEF LInv, Resting
    <2>3. ASSUME a \in Posted \cup {Consumer}, ~Upset'
          PROVE  FALSE
        <3>1. ~Upset /\ Unreadable(s)
            BY <1>4, <1>5, <1>8, <2>3
        <3>2. shut = {}
            BY <1>1, <2>3, <3>1, NothingShut DEF LInv, Resting
        <3>3. world[s] = "part"
            BY <3>1, <3>2 DEF Unreadable
        <3>4. PICK b \in Actors : work[b].at = "level" /\ work[b].s = s
            BY <3>1, <3>3 DEF FInv, Makers, Upset
        <3>5. a \notin Readers /\ b \notin Readers
            BY <2>3, <3>4, Apart DEF IInv, Stations, Resting
        <3> QED
            BY <1>1, <3>1, <3>4, <3>5 DEF LInv, CInv, OneMaker, Creating
    <2> QED
        BY <1>1, <1>2, <1>4, <2>2, <2>3, TurnLoss DEF LInv
<1> QED
    BY <1>6, <1>7, <1>8 DEF LookupStep

LEMMA ChooseLInv ==
    ASSUME IInv, LInv, NEW a \in Actors, Choose(a)
    PROVE  CInv' /\ LossHasACause'
<1> USE Facts
<1>1. /\ work[a].at = "lookup" /\ work[a].left = {} /\ a \notin Readers
      /\ UNCHANGED <<world, dims, driver, scene, restarts, dead, reinits, overlapped, faults>>
    BY DEF Choose, At, stores, registry, control, history
<1>2. Turn(a)
    BY ChooseTurn
<1>3. \A b \in Actors \ {a} : work'[b] = work[b]
    BY <1>2, CallFacts
<1>4. Upset => Upset'
    BY <1>1, UpsetStays
<1>5. ASSUME NEW s \in Choice, driver[s] # 0,
             Goes(a, [work[a] EXCEPT !.at = "add", !.s = s, !.g = driver[s]])
      PROVE  CInv' /\ LossHasACause'
    <2>1. work'[a].at = "add" /\ work'[a].s = s /\ s \in Storages
        BY <1>5, JobTypes, ConstantsOK DEF Goes, Job, Choice, TypeRest
    <2>2. a \in Posted \cup {Consumer} => Upset \/ world[s] = "none"
        BY <1>1, <1>5, <2>1 DEF LInv, CInv, Absent
    <2>3. CInv'
        BY <1>1, <1>3, <1>4, <2>1, <2>2, CalmCInv DEF LInv
    <2>4. ~Ends(a, "lost")
        BY <2>1, <1>2, CallFacts DEF Resting
    <2> QED
        BY <1>1, <1>2, <1>4, <2>3, <2>4, TurnLoss DEF LInv
<1>6. CASE GivesUp(a) /\ \A s \in Choice : driver[s] = 0
    <2>1. work'[a].at \in Resting
        BY <1>2, <1>6, CallFacts DEF GivesUp
    <2>2. CInv'
        BY <1>1, <1>3, <1>4, <2>1, CalmCInv DEF LInv, Resting
    <2>3. Cause(ChunkOf(a))
        BY <1>6 DEF Cause
    <2> QED
        BY <1>1, <1>2, <1>4, <2>2, <2>3, TurnLoss DEF LInv
<1> QED
    BY <1>5, <1>6 DEF Choose

\* A world is made by one at a time, or the overlap is noted; what is lost on
\* the way is lost to a fault, or to a world that came in between.
LEMMA WorldCallLInv ==
    ASSUME IInv, DInv, HInv, FInv, LInv, NEW a \in Actors,
           MakeWorld(a) \/ WriteLevel(a) \/ InsertWorld(a)
    PROVE  CInv' /\ LossHasACause'
<1> USE Facts
<1>1. /\ work[a].at \in {"add", "level"} /\ work[a].s \in Storages /\ a \notin Readers
      /\ dead = "no" /\ UNCHANGED <<dims, driver, scene, restarts, dead, reinits>>
    BY DEF MakeWorld, WriteLevel, InsertWorld, At, Alive, control, IInv, Stations, AtStorage,
       Resting
<1>2. Turn(a)
    BY MakeWorldTurn, WriteLevelTurn, InsertWorldTurn
<1>3. \A b \in Actors \ {a} : work'[b] = work[b]
    BY <1>2, CallFacts
<1>4. overlapped => overlapped'
    <2>1. CASE MakeWorld(a) \/ InsertWorld(a)
        BY <2>1, Zenon DEF MakeWorld, InsertWorld
    <2>2. CASE WriteLevel(a)
        BY <2>2 DEF WriteLevel, history
    <2> QED
        BY <2>1, <2>2
<1>5. Upset => Upset'
    BY <1>1, <1>4, UpsetStays DEF MakeWorld, WriteLevel, InsertWorld, NoFault
<1>6. Fault => Upset'
    BY DEF Fault, Upset, Interrupted, TypeRest
<1>7. \A s \in Storages : world[s] # "none" => world'[s] # "none"
    BY DEF MakeWorld, WriteLevel, InsertWorld, TypeRest, GivesUp
<1>8. work'[a].at \notin {"lookup", "add", "mkdim"}
    <2>1. (\E p \in {"level", "dim"} : To(a, p)) \/ (\E f \in {"kept", "lost"} : Ends(a, f))
        BY DEF MakeWorld, WriteLevel, InsertWorld, Created, GivesUp
    <2> QED
        BY <2>1, <1>2, CallFacts, JobTypes DEF To, Goes, Job, Resting
<1>9. Upset' \/ \A b \in Actors \ (Readers \cup {a}) : ~Creating(b)
    <2> SUFFICES ASSUME ~Upset', NEW b \in Actors \ (Readers \cup {a}), Creating(b)
                 PROVE  FALSE
        OBVIOUS
    <2>1. CASE MakeWorld(a) \/ InsertWorld(a)
        <3>1. OthersCreating(a)
            BY DEF OthersCreating
        <3>2. overlapped'
            BY <2>1, <3>1, Zenon DEF MakeWorld, InsertWorld
        <3> QED
            BY <3>2 DEF Upset
    <2>2. CASE WriteLevel(a)
        <3>1. work[a].at = "level" /\ ~Upset
            BY <1>5, <2>2 DEF WriteLevel, At
        <3> QED
            BY <1>1, <3>1 DEF LInv, CInv, OneMaker
    <2> QED
        BY <2>1, <2>2
<1>10. CInv'
    BY <1>1, <1>3, <1>5, <1>8, <1>9, MakingCInv DEF LInv
<1>11. ASSUME Ends(a, "lost"), a \in Posted \cup {Consumer}, ~Upset'
       PROVE  FALSE
    <2>1. ~Upset /\ shut = {} /\ a \notin Orders
        BY <1>1, <1>5, <1>11, NothingShut, Apart DEF LInv, Resting
    <2>2. work'[a].at \in Resting
        BY <1>2, <1>11, CallFacts
    <2>3. ~(\E p \in {"level", "dim"} : To(a, p))
        BY <2>2, JobTypes DEF To, Goes, Job, Resting
    <2>4. work[a].at = "add" => world[work[a].s] = "none"
        BY <1>11, <2>1 DEF LInv, CInv, Absent
    <2>5. ~MakeWorld(a) /\ ~WriteLevel(a)
        BY <1>6, <1>11, <2>1, <2>3 DEF MakeWorld, WriteLevel, Created
    <2>6. CASE InsertWorld(a)
        <3>1. ~IsClosed(a) /\ world[work[a].s] = "none" /\ ~Fault
            BY <1>6, <1>11, <2>1, <2>4, <2>6 DEF IsClosed, InsertWorld, At
        <3> QED
            BY <2>1, <2>3, <2>6, <3>1 DEF InsertWorld, Created
    <2> QED
        BY <2>5, <2>6
<1> QED
    BY <1>1, <1>2, <1>5, <1>7, <1>10, <1>11, TurnLoss DEF LInv

\* Whoever has a dimension to ask for is at a storage that has the world.
LEMMA AtWorld ==
    ASSUME IInv, FInv, NEW a \in Actors, work[a].at \in {"dim", "mkdim"}
    PROVE  /\ work[a].s \in Homes /\ a \in Posted \cup {Consumer}
           /\ ChunkOf(a) \in Chunks /\ (a # Consumer => ChunkOf(a) = a /\ a \in Posted)
BY Carrying DEF FInv, Based, WithWorld, Homes, ChunkOf

LEMMA GetDimensionLInv ==
    ASSUME IInv, DInv, HInv, FInv, LInv, NEW a \in Actors, GetDimension(a)
    PROVE  CInv' /\ LossHasACause'
<1> USE Facts
<1>1. /\ work[a].at = "dim"
      /\ UNCHANGED <<world, dims, driver, scene, restarts, dead, reinits, overlapped>>
    BY DEF GetDimension, At, stores, registry, control, history
<1>2. Turn(a)
    BY GetDimensionTurn
<1>3. \A b \in Actors \ {a} : work'[b] = work[b]
    BY <1>2, CallFacts
<1>4. Upset => Upset'
    BY <1>1, UpsetStays DEF GetDimension, Errs, NoFault
<1>5. Fault => Upset'
    BY DEF Fault, Upset, Interrupted, TypeRest
<1>6. a \in Posted \cup {Consumer} /\ work[a].s \in Homes /\ (a # Consumer => ChunkOf(a) = a)
    BY <1>1, AtWorld
<1>7. CASE To(a, "save") \/ (To(a, "mkdim") /\ ~DimHere(a))
    <2>1. /\ work'[a].at \in {"save", "mkdim"}
          /\ work'[a].s = work[a].s /\ work'[a].chunk = work[a].chunk
        BY <1>7, ToPlace
    <2>2. work'[a].at = "mkdim" => ~DimHere(a)
        BY <1>7, ToPlace
    <2>3. DimHere(a)' <=> DimHere(a)
        BY <1>1, <2>1 DEF DimHere, ChunkOf
    <2>4. CInv'
        BY <1>1, <1>3, <1>4, <2>1, <2>2, <2>3, CalmCInv DEF LInv
    <2>5. ~Ends(a, "lost")
        BY <2>1, <1>2, CallFacts DEF Resting
    <2> QED
        BY <1>1, <1>2, <1>4, <2>4, <2>5, TurnLoss DEF LInv
<1>8. CASE GivesUp(a)
    <2>1. work'[a].at \in Resting
        BY <1>2, <1>8, CallFacts DEF GivesUp
    <2>2. CInv'
        BY <1>1, <1>3, <1>4, <2>1, CalmCInv DEF LInv, Resting
    <2>3. ASSUME ~Upset'
          PROVE  Cause(ChunkOf(a))
        <3>1. ~Upset /\ shut = {}
            BY <1>1, <1>4, <1>6, <2>3, NothingShut DEF LInv, Resting
        <3>2. Answers(a) /\ ~Errs(a)
            BY <1>5, <2>3, <3>1 DEF Answers, IsClosed, Errs
        <3>3. ~(\E p \in {"save", "mkdim"} : To(a, p))
            BY <2>1, JobTypes DEF To, Goes, Job, Resting
        <3>4. work[a].s \in Files /\ ~DimHere(a)
            BY <3>2, <3>3 DEF GetDimension
        <3>5. DimOf[ChunkOf(a)] \notin KnownDims
            BY <3>4 DEF DimHere
        <3> QED
            BY <1>6, <3>4, <3>5 DEF Cause, Refused
    <2> QED
        BY <1>1, <1>2, <1>4, <2>2, <2>3, TurnLoss DEF LInv
<1> QED
    BY <1>7, <1>8 DEF GetDimension

LEMMA AddDimensionLInv ==
    ASSUME IInv, DInv, HInv, FInv, LInv, NEW a \in Actors, AddDimension(a)
    PROVE  CInv' /\ LossHasACause'
<1> USE Facts
<1>1. work[a].at = "mkdim" /\ UNCHANGED <<world, driver, scene, restarts, dead, reinits>>
    BY DEF AddDimension, At, registry, control
<1>2. Turn(a)
    BY AddDimensionTurn
<1>3. \A b \in Actors \ {a} : work'[b] = work[b]
    BY <1>2, CallFacts
<1>4. overlapped => overlapped'
    BY Zenon DEF AddDimension
<1>5. Upset => Upset'
    BY <1>1, <1>4, UpsetStays DEF AddDimension, Errs, NoFault
<1>6. Fault => Upset'
    BY DEF Fault, Upset, Interrupted, TypeRest
<1>7. /\ a \in Posted \cup {Consumer} /\ work[a].s \in Homes
      /\ a # Consumer => ChunkOf(a) = a /\ a \in Posted
    BY <1>1, AtWorld
<1>8. dims' = dims \/ Upset' \/ \A b \in Actors \ {a} : work[b].at # "mkdim"
    <2> SUFFICES ASSUME dims' # dims, NEW b \in Actors \ {a}, work[b].at = "mkdim"
                 PROVE  Upset'
        OBVIOUS
    <2>1. overlapped' = (overlapped \/ \E d \in Actors \ {a} : work[d].at = "mkdim")
        BY Zenon DEF AddDimension
    <2>2. \E d \in Actors \ {a} : work[d].at = "mkdim"
        OBVIOUS
    <2>3. overlapped'
        BY <2>1, <2>2, Zenon
    <2> QED
        BY <2>3 DEF Upset
<1>9. work'[a].at \notin {"lookup", "add", "mkdim", "level"}
    <2>1. To(a, "save") \/ Ends(a, "lost")
        BY DEF AddDimension, GivesUp
    <2> QED
        BY <2>1, <1>2, CallFacts, JobTypes DEF To, Goes, Job, Resting
<1>10. CInv'
    BY <1>1, <1>3, <1>5, <1>8, <1>9, CalmCInv DEF LInv
<1>11. ASSUME Ends(a, "lost"), ~Upset'
       PROVE  Cause(ChunkOf(a))
    <2>1. ~Upset /\ shut = {}
        BY <1>1, <1>5, <1>7, <1>11, NothingShut DEF LInv, Resting
    <2>2. Answers(a) /\ ~Errs(a)
        BY <1>6, <1>11, <2>1 DEF Answers, IsClosed, Errs
    <2>3. ~DimHere(a)
        BY <1>1, <1>7, <2>1 DEF LInv, CInv, Missing
    <2>4. CASE work[a].s \in Files
        <3>1. DimOf[ChunkOf(a)] \notin KnownDims
            BY <2>3, <2>4 DEF DimHere
        <3> QED
            BY <1>7, <2>4, <3>1 DEF Cause, Refused
    <2>5. CASE work[a].s \notin Files
        <3>1. ~To(a, "save")
            <4>1. work'[a].at \in Resting
                BY <1>2, <1>11, CallFacts
            <4> QED
                BY <4>1, JobTypes DEF To, Goes, Job, Resting
        <3>2. a # Consumer
            BY <2>2, <2>3, <2>5, <3>1 DEF AddDimension
        <3> QED
            BY <1>7, <2>5, <3>2 DEF Cause, Refused
    <2> QED
        BY <2>4, <2>5
<1> QED
    BY <1>1, <1>2, <1>5, <1>10, <1>11, TurnLoss DEF LInv

LEMMA SaveLInv ==
    ASSUME IInv, DInv, HInv, FInv, LInv, NEW a \in Actors, ~Die("save"),
           Save(a) \/ SaveFails(a) \/ SaveForgotten(a)
    PROVE  CInv' /\ LossHasACause'
<1> USE Facts
<1>1. /\ work[a].at = "save"
      /\ UNCHANGED <<world, dims, driver, scene, restarts, dead, reinits, overlapped>>
    BY DEF Save, SaveFails, SaveForgotten, At, stores, registry, control, history
<1>2. Turn(a)
    BY SaveTurn, SaveFailsTurn, SaveForgottenTurn
<1>3. \A b \in Actors \ {a} : work'[b] = work[b]
    BY <1>2, CallFacts
<1>4. Upset => Upset'
    BY <1>1, UpsetStays DEF Save, SaveFails, SaveForgotten, NoFault
<1>5. Fault => Upset'
    BY DEF Fault, Upset, Interrupted, TypeRest
<1>6. a \in Posted \cup {Consumer} /\ ChunkOf(a) \in Chunks
    BY <1>1, Carrying
<1>7. work'[a].at \notin {"lookup", "add", "mkdim", "level"}
    <2>1. To(a, "hung") \/ \E f \in {"kept", "lost"} : Ends(a, f)
        BY DEF Save, SaveFails, SaveForgotten, GivesUp
    <2> QED
        BY <2>1, <1>2, CallFacts, ToPlace DEF Resting
<1>8. CInv'
    BY <1>1, <1>3, <1>4, <1>7, CalmCInv DEF LInv
<1>9. ASSUME Ends(a, "lost"), ~Upset'
      PROVE  FALSE
    <2>1. ~IsClosed(a)
        BY <1>1, <1>4, <1>6, <1>9, NothingShut DEF LInv, Resting, IsClosed
    <2>2. ~SaveFails(a) /\ ~SaveForgotten(a)
        BY <1>5, <1>9, <2>1 DEF SaveFails, SaveForgotten
    <2>3. Ends(a, "kept")
        BY <1>5, <1>9, <2>2 DEF Save
    <2> QED
        BY <1>6, <1>9, <2>3 DEF Ends
<1> QED
    BY <1>1, <1>2, <1>4, <1>8, <1>9, TurnLoss DEF LInv

LEMMA DieLInv ==
    ASSUME IInv, LInv, NEW why, why # "no", Die(why)
    PROVE  LInv'
<1>1. Upset'
    BY DEF Die, Upset, Interrupted
<1>2. \A a \in Actors : work'[a].at \in Resting
    BY DEF Die, Idle, Over, Resting
<1> QED
    BY <1>1, <1>2, Facts DEF LInv, CInv, LossHasACause, Upset

LEMMA CallLInv ==
    ASSUME IInv, DInv, HInv, FInv, LInv, NEW a \in Actors, CallStep(a)
    PROVE  LInv'
<1>1. CASE Die("save")
    BY <1>1, DieLInv
<1>2. CASE ~Die("save")
    <2>1. CInv' /\ LossHasACause'
        BY <1>2, LookupLInv, ChooseLInv, WorldCallLInv, GetDimensionLInv, AddDimensionLInv, SaveLInv
           DEF CallStep, Lookup
    <2> QED
        BY <2>1 DEF LInv
<1> QED
    BY <1>1, <1>2

-----------------------------------------------------------------------------
(* The other steps *)

\* A step that loses no chunk and leaves the causes as they are.
LEMMA LosesNone ==
    ASSUME IInv, LossHasACause, Upset => Upset', UNCHANGED <<world, driver, scene>>,
           \A c \in Chunks : fate'[c] = "lost" => fate[c] = "lost"
    PROVE  LossHasACause'
<1> SUFFICES ASSUME NEW c \in Chunks, fate'[c] = "lost"
             PROVE  Cause(c)'
    BY DEF LossHasACause, Cause, Upset
<1> QED
    BY Causes, CauseStays

\* A step that moves nobody and opens no driver.
LEMMA StillLInv ==
    ASSUME IInv, LInv, UNCHANGED <<world, dims, driver, scene, work>>, Upset => Upset',
           \A c \in Chunks : fate'[c] = "lost" => fate[c] = "lost"
    PROVE  LInv'
<1>1. LossHasACause'
    BY LosesNone DEF LInv
<1>2. CInv'
    BY DEF LInv, CInv, OneMaker, Creating, Absent, Missing, DimHere, ChunkOf
<1> QED
    BY <1>1, <1>2 DEF LInv

\* Somebody begins to look for the world or to add it, or ends.
LEMMA BeginLInv ==
    ASSUME IInv, LInv, NEW a \in Actors, NEW x \in Job, Goes(a, x),
           x.at \in {"lookup", "add", "done"}, x.at = "lookup" => x.left = Storages,
           x.at = "add" => a \in Orders, UNCHANGED <<world, dims, driver, scene>>, Upset => Upset',
           a \notin Readers => Upset' \/ ~HalfMade(a),
           \A c \in Chunks : fate'[c] = "lost" => fate[c] = "lost"
    PROVE  LInv'
<1> USE Facts
<1>1. work'[a] = x /\ \A b \in Actors \ {a} : work'[b] = work[b]
    BY DEF Goes
<1>3. LossHasACause'
    BY LosesNone DEF LInv
<1>4. a \in Orders => a \notin Posted \cup {Consumer}
    BY Apart
<1>5. CInv'
    BY <1>1, <1>4, CalmCInv DEF LInv
<1> QED
    BY <1>3, <1>5 DEF LInv

\* A driver is closed or opened: the reinit is counted.
LEMMA ReinitLInv ==
    ASSUME IInv, LInv, NEW s \in Storages, ReinitClose(s)
    PROVE  LInv'
<1>1. Upset' /\ UNCHANGED <<main, work>>
    BY Facts DEF ReinitClose, Upset, TypeRest, control
<1> QED
    BY <1>1 DEF LInv, CInv, LossHasACause, Upset

\* Who reinitialises a storage has been counted.
Counted == lock \in Storages => reinits > 0

LEMMA StepCounted == IInv /\ Counted /\ [Next]_vars => Counted'
<1> SUFFICES ASSUME IInv, Counted, [Next]_vars
             PROVE  Counted'
    OBVIOUS
<1> USE Facts, Apart
<1>1. ASSUME lock' = lock \/ lock' \notin Storages, reinits' = reinits
      PROVE  Counted'
    BY <1>1 DEF Counted
<1>2. ASSUME NEW a \in Actors, CallStep(a)
      PROVE  Counted'
    <2>1. reinits' = reinits
        BY <1>2 DEF CallStep, Lookup, LookupStep, Choose, MakeWorld, WriteLevel, InsertWorld,
           GetDimension, AddDimension, Save, SaveFails, SaveForgotten, registry, Die
    <2>2. lock' = lock \/ lock' = None
        BY <1>2, CallTurn DEF Turn, Die
    <2> QED
        BY <1>1, <2>1, <2>2
<1>3. ASSUME NEW s \in Storages, ReinitClose(s)
      PROVE  Counted'
    BY <1>3 DEF ReinitClose, Counted, TypeRest
<1>4. ASSUME NEW s \in Storages, ReinitOpen(s) \/ \E o \in Orders : Order(o, s)
      PROVE  Counted'
    BY <1>1, <1>4 DEF ReinitOpen, Order
<1>5. ASSUME NEW why, Die(why)
      PROVE  Counted'
    BY <1>1, <1>5 DEF Die
<1>6. CASE \/ Take \/ ConsumerExit \/ CacheUp \/ MainStep \/ Waits \/ Restart
           \/ UNCHANGED vars
    BY <1>1, <1>6, MainChange, WaitsChange DEF Take, ConsumerExit, CacheUp, Restart, registry,
       vars
<1>7. ASSUME NEW c, Collect(c) \/ Send(c) \/ Post(c)
      PROVE  Counted'
    BY <1>1, <1>7 DEF Collect, Send, Post, registry
<1>8. ASSUME NEW r, Read(r) \/ ReadTiles(r)
      PROVE  Counted'
    BY <1>1, <1>5, <1>8 DEF Read, ReadTiles, registry
<1> QED
    BY <1>2, <1>3, <1>4, <1>5, <1>6, <1>7, <1>8
       DEF Next, Shutdown, MainStep, Waits, WebFatal, Exit, Kill, Render, MapRace, ReadTooEarly,
           ReadNowhere

LEMMA StepLInv == IInv /\ DInv /\ HInv /\ FInv /\ Counted /\ LInv /\ [Next]_vars => LInv'
<1> SUFFICES ASSUME IInv, DInv, HInv, FInv, Counted, LInv, [Next]_vars
             PROVE  LInv'
    OBVIOUS
<1> USE Facts
<1>1. ASSUME UNCHANGED <<faults, restarts, dead, reinits>>, overlapped => overlapped'
      PROVE  Upset => Upset'
    BY <1>1, UpsetStays
<1>2. ASSUME NEW a, NEW x, Starts(a, x)
      PROVE  (overlapped => overlapped') /\ (overlapped' \/ ~HalfMade(a))
    BY <1>2, Zenon DEF Starts
<1>3. ASSUME NEW c \in Proxied, Collect(c) \/ Send(c)
      PROVE  LInv'
    <2>1. UNCHANGED <<world, dims, driver, scene, work, main, faults, restarts, dead, reinits,
                      overlapped>>
        BY <1>3 DEF Collect, Send, stores, registry, control, history
    <2>2. \A d \in Chunks : fate'[d] = "lost" => fate[d] = "lost"
        BY <1>3 DEF Collect, Send
    <2> QED
        BY <1>1, <2>1, <2>2, StillLInv
<1>4. CASE Take
    <2> DEFINE x == [Idle EXCEPT !.at = "lookup", !.chunk = Head(chan), !.left = Storages]
    <2>1. Head(chan) \in Proxied /\ Starts(Consumer, x) /\ Goes(Consumer, x)
        BY <1>4 DEF Take, Starts
    <2>2. x \in Job /\ x.at = "lookup" /\ x.left = Storages
        BY <2>1 DEF Job, Idle, Places
    <2>3. /\ UNCHANGED <<world, dims, driver, scene, main, faults, restarts, dead, reinits>>
          /\ \A d \in Chunks : fate'[d] = "lost" => fate[d] = "lost"
        BY <1>4 DEF Take, stores, registry, control
    <2>4. (overlapped => overlapped') /\ (Upset' \/ ~HalfMade(Consumer))
        BY <1>2, <2>1 DEF Upset
    <2> QED
        BY <1>1, <2>1, <2>2, <2>3, <2>4, BeginLInv
<1>5. ASSUME NEW c \in Posted, Post(c)
      PROVE  LInv'
    <2> DEFINE x == [Idle EXCEPT !.at = "lookup", !.left = Storages]
    <2>1. Starts(c, x) /\ Goes(c, x)
        BY <1>5 DEF Post, Starts
    <2>2. x \in Job /\ x.at = "lookup" /\ x.left = Storages
        BY DEF Job, Idle, Places
    <2>3. /\ UNCHANGED <<world, dims, driver, scene, main, faults, restarts, dead, reinits>>
          /\ \A d \in Chunks : fate'[d] = "lost" => fate[d] = "lost"
        BY <1>5 DEF Post, stores, registry, control
    <2>4. (overlapped => overlapped') /\ (Upset' \/ ~HalfMade(c))
        BY <1>2, <2>1 DEF Upset
    <2> QED
        BY <1>1, <2>1, <2>2, <2>3, <2>4, BeginLInv
<1>6. ASSUME NEW o \in Orders, NEW s \in Storages, Order(o, s)
      PROVE  LInv'
    <2> DEFINE x == [Idle EXCEPT !.at = "add", !.s = s, !.g = driver[s]]
    <2>1. Starts(o, x) /\ Goes(o, x) /\ driver[s] \in Nat
        BY <1>6 DEF Order, Starts, TypeRest
    <2>2. x \in Job /\ x.at = "add"
        BY <2>1 DEF Job, Idle, Places
    <2>3. UNCHANGED <<world, dims, driver, scene, main, faults, restarts, dead, reinits, fate>>
        BY <1>6 DEF Order, stores, control, chunkVars
    <2>4. (overlapped => overlapped') /\ (Upset' \/ ~HalfMade(o))
        BY <1>2, <2>1 DEF Upset
    <2> QED
        BY <1>1, <2>1, <2>2, <2>3, <2>4, BeginLInv
<1>7. ASSUME NEW r \in Readers, Read(r)
      PROVE  LInv'
    <2> DEFINE x == [Idle EXCEPT !.at = "lookup", !.left = Storages]
    <2>1. x \in Job /\ x.at = "lookup" /\ x.left = Storages
        BY DEF Job, Idle, Places
    <2>2. UNCHANGED <<world, dims, driver, scene, main, faults, restarts, dead, reinits, fate,
                      overlapped>> /\ Goes(r, x)
        BY <1>7 DEF Read, stores, control, chunkVars, registry, history
    <2>3. r \notin Posted
        BY Apart
    <2> QED
        BY <1>1, <2>1, <2>2, <2>3, BeginLInv
<1>8. ASSUME NEW r \in Readers, ReadTiles(r)
      PROVE  LInv'
    <2>1. CASE Die("tiles")
        BY <2>1, DieLInv
    <2>2. CASE Goes(r, Over) /\ UNCHANGED <<chunkVars, stores, registry, control, history, faults>>
        <3>1. Over \in Job /\ Over.at = "done"
            BY IdleIsJob DEF Over, Idle
        <3>2. UNCHANGED <<world, dims, driver, scene, main, faults, restarts, dead, reinits, fate,
                          overlapped>>
            BY <2>2 DEF stores, control, chunkVars, registry, history
        <3>3. r \notin Posted
            BY Apart
        <3> QED
            BY <1>1, <2>2, <3>1, <3>2, <3>3, BeginLInv
    <2> QED
        BY <1>8, <2>1, <2>2 DEF ReadTiles
<1>9. ASSUME NEW s \in Storages, ReinitOpen(s)
      PROVE  LInv'
    <2>1. Upset' /\ UNCHANGED <<main, work>>
        BY <1>9 DEF ReinitOpen, Counted, Upset, chunkVars
    <2> QED
        BY <2>1 DEF LInv, CInv, LossHasACause, Upset
<1>10. CASE ConsumerExit \/ CacheUp \/ MainStep \/ Waits \/ UNCHANGED vars
    <2>1. UNCHANGED <<world, dims, driver, scene, work, faults, restarts, dead, reinits, overlapped,
                      fate>>
        BY <1>10, MainChange, WaitsChange DEF ConsumerExit, CacheUp, stores, registry, control,
           history, chunkVars, vars
    <2> QED
        BY <1>1, <2>1, StillLInv
<1>11. CASE Restart
    <2>1. Upset' /\ main' = "run"
        BY <1>11 DEF Restart, Upset, Interrupted, TypeRest
    <2> QED
        BY <2>1 DEF LInv, CInv, LossHasACause, Upset
<1>12. ASSUME NEW why \in {"fatal", "exit", "kill", "race", "cache", "noworld"}, Die(why)
       PROVE  LInv'
    BY <1>12, DieLInv
<1>13. ASSUME NEW a \in Actors, CallStep(a)
       PROVE  LInv'
    BY <1>13, CallLInv
<1>14. ASSUME NEW s \in Storages, ReinitClose(s)
       PROVE  LInv'
    BY <1>14, ReinitLInv
<1> QED
    BY <1>3, <1>4, <1>5, <1>6, <1>7, <1>8, <1>9, <1>10, <1>11, <1>12, <1>13, <1>14
       DEF Next, Shutdown, MainStep, Waits, WebFatal, Exit, Kill, Render, MapRace, ReadTooEarly,
           ReadNowhere

\* A chunk that was collected or posted is lost only to a fault, a death, a
\* reinitialised storage, an overlap of two makers, a refusal of its dimension,
\* or because no storage opened: every early return of chunkConsumer.go and of
\* apiAddChunkHandler is one of these.
THEOREM LossesHaveCauses == Spec => []LossHasACause
<1>1. Spec => [](IInv /\ DInv /\ HInv /\ FInv)
    BY InitDInv, StepDInv, InitHInv, StepHInv, InitFInv, StepFInv, Invariance, PTL DEF Spec
<1>2. Init => Counted
    BY Apart DEF Init, Counted
<1>3. Spec => []Counted
    BY <1>2, StepCounted, Invariance, PTL DEF Spec
<1>4. LInv => LossHasACause
    BY DEF LInv
<1> QED
    BY <1>1, <1>3, <1>4, InitLInv, StepLInv, PTL DEF Spec
=============================================================================
