---------------------------- MODULE MapViewProofs ----------------------------
(***************************************************************************)
(* Theorems about MapView, for all tiles, views, places and pictures and    *)
(* every number of gestures.                                                *)
(***************************************************************************)
EXTENDS MapView, FiniteSetTheorems, SequenceTheorems, TLAPS

-----------------------------------------------------------------------------
(* The tiles of a set as a sequence *)

\* SetToSeq lists every tile of a finite set, and no other.
LEMMA Listing ==
    ASSUME NEW S, IsFiniteSet(S)
    PROVE  /\ SetToSeq(S) \in Seq(S)
           /\ \A x \in S : \E i \in 1..Len(SetToSeq(S)) : SetToSeq(S)[i] = x
<1> DEFINE n == Cardinality(S)
           f == SetToSeq(S)
<1>1. n \in Nat /\ ExistsBijection(1..n, S)
    BY FS_CardinalityType
<1>2. \E g \in [1..n -> S] : IsInjective(g)
    BY <1>1 DEF ExistsBijection, Bijection, Injection
<1>3. f \in [1..n -> S] /\ IsInjective(f)
    BY <1>2 DEF SetToSeq
<1>4. f \in Seq(S) /\ Len(f) = n
    BY <1>1, <1>3
<1> HIDE DEF n, f
<1>5. ASSUME NEW x \in S, \A i \in 1..n : f[i] # x
      PROVE  FALSE
    <2>1. IsFiniteSet(S \ {x}) /\ Cardinality(S \ {x}) = n - 1
        BY <1>5, FS_RemoveElement DEF n
    <2>2. f \in [1..n -> S \ {x}]
        BY <1>3, <1>5
    <2>3. IsFiniteSet(1..n) /\ Cardinality(1..n) = n
        BY <1>1, FS_Interval
    <2>4. Cardinality(1..n) > Cardinality(S \ {x})
        BY <1>1, <2>1, <2>3
    <2>5. \E i, j \in 1..n : i # j /\ f[i] = f[j]
        BY <2>1, <2>2, <2>3, <2>4, FS_PigeonHole, Zenon
    <2> QED
        BY <1>3, <2>5 DEF IsInjective
<1> QED
    BY <1>4, <1>5 DEF f

-----------------------------------------------------------------------------
(* What keeps the variables in their types *)

UpMessages ==
    [kind : {"tileSubscribe", "tileUnsubscribe"}, place : Selections, tile : Tiles]
        \cup [kind : {"resubWorldDimension"}, place : Selections]
Greetings == [kind : {"updateLayers", "updateWorldsAndDims"}]
Answers   == [kind : {"tile"}, place : Selections, tile : Tiles, picture : BOOLEAN]

\* The layer is added once and the selectors are filled once.
Greeted ==
    /\ up \in Seq(UpMessages) /\ down \in Seq(Greetings \cup Answers)
    /\ \A i \in 1..Len(down) : down[i].kind = "updateLayers" => (layer = "none" /\ i = 1)
    /\ \A i, j \in 1..Len(down) :
          down[i].kind = "updateWorldsAndDims" /\ down[j].kind = "updateWorldsAndDims" => i = j
    /\ \A i \in 1..Len(down) : down[i].kind = "updateWorldsAndDims" => ~worlds
    /\ ~worlds => sel = Nowhere

\* The grid is finite, and empty while the layer is not on the map.
Gridded ==
    /\ IsFiniteSet(DOMAIN grid)
    /\ layer # "on" => DOMAIN grid = {}

\* An animation leads to another zoom, and the tiles of its target that the
\* layer has are not pruned.
Animated ==
    target # Still =>
        /\ ~SameZoom(target, view)
        /\ \A t \in Window[target] \cap DOMAIN grid : grid[t].current

\* A gesture creates a tile at most once; that of an animation may do so only
\* when it ends.
Owed(t) == IF target # Still /\ t \in Window[target] \ DOMAIN grid THEN 1 ELSE 0
Added == IF layer = "none" THEN 0 ELSE 1
Bounded ==
    /\ frames \in [Tiles -> Nat]
    /\ \A t \in Tiles : frames[t] + Owed(t) <= gestures + Added

VInv == TypeOK /\ Greeted /\ Gridded /\ Animated /\ Bounded

-----------------------------------------------------------------------------
(* The indicator *)

\* A tile that is not ready has its frame due; somebody is waited for, or was,
\* while the layer is loading; and the indicator is on only while it is.
Awaited ==
    /\ \A t \in DOMAIN grid : grid[t].ready = "no" => frames[t] > 0
    /\ loading => hasty \/ \E t \in DOMAIN grid : grid[t].ready = "no"
    /\ indicator => loading

-----------------------------------------------------------------------------
(* The pictures *)

IsFor(m, kind, t) == m.kind = kind /\ m.tile = t

\* The session will hear that the tile was dropped.
Leaves(t) == \E i \in 1..Len(up) : IsFor(up[i], "tileUnsubscribe", t)

\* Who is subscribed to, or will be, is in the layer or will be unsubscribed.
Followed ==
    /\ \A r \in subs : r[2] \in DOMAIN grid \/ Leaves(r[2])
    /\ \A i \in 1..Len(up), t \in Tiles :
          IsFor(up[i], "tileSubscribe", t) =>
             t \in DOMAIN grid
             \/ \E j \in i + 1..Len(up) : IsFor(up[j], "tileUnsubscribe", t)

\* What the session is subscribed to, nothing else is due for, and it is shown,
\* due or will be dropped; but for the tiles that were overtaken.
Answered ==
    \A r \in subs :
        r[1] \in Places /\ r[2] \notin overtaken =>
            /\ \A p \in Places \ {r[1]} : ~Due(p, r[2])
            /\ r \in HasPicture =>
                  shown[r[2]] = r[1] \/ Due(r[1], r[2]) \/ Leaves(r[2])

-----------------------------------------------------------------------------
(* What the steps do to the layer *)

Tile == [current : BOOLEAN, ready : {"no", "loaded", "active"}]

\* The layer drops some tiles and then creates some.
Reshaped(dropped, created) ==
    /\ dropped \subseteq DOMAIN grid /\ created \subseteq Tiles /\ IsFiniteSet(created)
    /\ created \cap (DOMAIN grid \ dropped) = {}
    /\ DOMAIN grid' = (DOMAIN grid \ dropped) \cup created
    /\ \A t \in created : grid'[t] = Fresh
    /\ \A t \in DOMAIN grid \ (dropped \cup created) :
          grid'[t] \in Tile /\ (grid'[t].ready = "no" <=> grid[t].ready = "no")
    /\ hasty' = (hasty \/ HastyDrop(dropped))
    /\ frames' = [t \in Tiles |-> IF t \in created THEN frames[t] + 1 ELSE frames[t]]
    /\ shown' = [t \in Tiles |-> IF t \in created \cup dropped THEN Nowhere ELSE shown[t]]
    /\ loading' = (loading \/ created # {})

\* What VInv says of the layer's variables, for the lemmas below.
LEMMA GridFacts ==
    ASSUME VInv
    PROVE  /\ DOMAIN grid \subseteq Tiles /\ IsFiniteSet(DOMAIN grid)
           /\ \A t \in DOMAIN grid : grid[t] \in Tile
           /\ frames \in [Tiles -> Nat] /\ shown \in [Tiles -> Selections]
           /\ {worlds, loading, indicator, fading, noPrune, hasty} \subseteq BOOLEAN
           /\ up \in Seq(UpMessages) /\ down \in Seq(Greetings \cup Answers)
           /\ view \in Views /\ sel \in Selections /\ target \in Views \cup {Still}
           /\ \A v \in Views : Window[v] \subseteq Tiles /\ IsFiniteSet(Window[v]) /\ Window[v] # {}
BY GridOK DEF VInv, TypeOK, Gridded, Bounded, Greeted, Tile

LEMMA FreshTile == Fresh \in Tile /\ Fresh.ready = "no" /\ Fresh.current
BY DEF Fresh, Tile

\* A step that leaves the layer alone drops and creates nothing.
LEMMA UntouchedReshapes ==
    ASSUME VInv, UNCHANGED <<grid, hasty, frames, shown, loading>>
    PROVE  Reshaped({}, {})
<1> USE GridFacts
<1>1. frames' = [t \in Tiles |-> IF t \in {} THEN frames[t] + 1 ELSE frames[t]]
    OBVIOUS
<1>2. shown' = [t \in Tiles |-> IF t \in {} THEN Nowhere ELSE shown[t]]
    OBVIOUS
<1>3. hasty' = (hasty \/ HastyDrop({}))
    BY DEF HastyDrop
<1> QED
    BY <1>1, <1>2, <1>3, FS_EmptySet DEF Reshaped

\* Somebody drops the tiles in dropped of a layer whose tiles are g.
LEMMA RegridReshapes ==
    ASSUME VInv, NEW g, NEW dropped, NEW created, Regrid(Without(g, dropped), dropped, created),
           created \subseteq Tiles, IsFiniteSet(created), created \cap DOMAIN grid = {},
           dropped \subseteq DOMAIN grid, DOMAIN g = DOMAIN grid \cup created,
           \A t \in created : g[t] = Fresh,
           \A t \in DOMAIN grid :
               g[t] \in Tile /\ (g[t].ready = "no" <=> grid[t].ready = "no")
    PROVE  Reshaped(dropped, created) /\ \A t \in DOMAIN grid' : grid'[t] = g[t]
<1>1. grid' = [t \in (DOMAIN grid \cup created) \ dropped |-> g[t]]
    BY DEF Regrid, Without
<1>2. DOMAIN grid' = (DOMAIN grid \ dropped) \cup created
    BY <1>1
<1>3. \A t \in DOMAIN grid' : grid'[t] = g[t]
    BY <1>1
<1> QED
    BY <1>2, <1>3 DEF Reshaped, Regrid

\* _update creates what the window lacks, and leaves what it shows current.
LEMMA RefreshReshapes ==
    ASSUME VInv, NEW v \in Views, NEW dropped, Refresh(v, dropped),
           dropped \subseteq {t \in DOMAIN Update(grid, v) : ~Update(grid, v)[t].current}
    PROVE  /\ Reshaped(dropped, Window[v] \ DOMAIN grid)
           /\ \A t \in Window[v] : t \in DOMAIN grid' /\ grid'[t].current
           /\ dropped \cap Window[v] = {}
<1> USE GridFacts
<1> DEFINE g == Update(grid, v)
           created == Window[v] \ DOMAIN grid
<1>1. DOMAIN g = DOMAIN grid \cup created
    BY DEF Update
<1>2. \A t \in created : g[t] = Fresh
    BY DEF Update
<1>3. \A t \in DOMAIN grid :
         /\ g[t] \in Tile /\ g[t].ready = grid[t].ready
         /\ t \in Window[v] => g[t].current
    <2> SUFFICES ASSUME NEW t \in DOMAIN grid
                 PROVE  /\ g[t] \in Tile /\ g[t].ready = grid[t].ready
                        /\ t \in Window[v] => g[t].current
        OBVIOUS
    <2>1. g[t] = [grid[t] EXCEPT !.current = t \in Window[v] \/ (@ /\ t \in Buffer[v])]
        BY DEF Update
    <2>2. grid[t] \in Tile
        OBVIOUS
    <2> QED
        BY <2>1, <2>2 DEF Tile
<1>4. \A t \in Window[v] : t \in DOMAIN g /\ g[t].current
    BY <1>1, <1>2, <1>3, FreshTile
<1>5. dropped \cap Window[v] = {}
    BY <1>4
<1>6. dropped \subseteq DOMAIN grid
    BY <1>1, <1>5
<1>7. Regrid(Without(g, dropped), dropped, created)
    BY DEF Refresh
<1>8. IsFiniteSet(created)
    BY FS_Difference
<1>a. created \subseteq Tiles /\ created \cap DOMAIN grid = {}
    OBVIOUS
<1>b. \A t \in DOMAIN grid : g[t] \in Tile /\ (g[t].ready = "no" <=> grid[t].ready = "no")
    BY <1>3
<1> HIDE DEF g, created
<1>9. Reshaped(dropped, created) /\ \A t \in DOMAIN grid' : grid'[t] = g[t]
    BY <1>1, <1>2, <1>6, <1>7, <1>8, <1>a, <1>b, RegridReshapes
<1>10. \A t \in Window[v] : t \in DOMAIN grid'
    BY <1>1, <1>4, <1>5, <1>9 DEF Reshaped
<1> QED
    BY <1>4, <1>5, <1>9, <1>10 DEF created

\* A whole new grid.
LEMMA RenewReshapes ==
    ASSUME VInv, NEW S, S = {} \/ \E v \in Views : S = Window[v],
           Regrid([t \in S |-> Fresh], DOMAIN grid, S)
    PROVE  Reshaped(DOMAIN grid, S)
BY GridFacts, FS_EmptySet DEF Reshaped, Regrid

\* The layer control, the timers and the fades that drop what the layer prunes.
LEMMA PrunedOld == \A g : Pruned(g) \subseteq {t \in DOMAIN g : ~g[t].current}
BY DEF Pruned

\* The timer drops tiles that are not current.
LEMMA PruneReshapes ==
    ASSUME VInv, Regrid(Without(grid, Pruned(grid)), Pruned(grid), {})
    PROVE  /\ Reshaped(Pruned(grid), {})
           /\ \A t \in DOMAIN grid' : grid'[t] = grid[t]
           /\ \A t \in Pruned(grid) : ~grid[t].current
<1> DEFINE d == Pruned(grid)
<1>1. d \subseteq {t \in DOMAIN grid : ~grid[t].current}
    BY PrunedOld
<1> HIDE DEF d
<1>2. Reshaped(d, {}) /\ \A t \in DOMAIN grid' : grid'[t] = grid[t]
    <2>1. Regrid(Without(grid, d), d, {})
        BY DEF d
    <2>2. d \subseteq DOMAIN grid /\ IsFiniteSet({}) /\ \A t \in DOMAIN grid : grid[t] \in Tile
        BY <1>1, GridFacts, FS_EmptySet
    <2> QED
        BY <2>1, <2>2, RegridReshapes
<1> QED
    BY <1>1, <1>2 DEF d

\* So does a fade; it makes no tile ready that was not.
LEMMA FadeReshapes ==
    ASSUME VInv, NEW done \in SUBSET FadingTiles, FadeWith(done), layer = "on"
    PROVE  \E d : /\ Reshaped(d, {}) /\ Say(Unsubscriptions(d))
                  /\ \A t \in DOMAIN grid' : grid'[t].current = grid[t].current
                  /\ \A t \in d : ~grid[t].current
<1> USE GridFacts
<1> DEFINE g == [t \in DOMAIN grid |->
                    IF t \in done THEN [grid[t] EXCEPT !.ready = "active"] ELSE grid[t]]
           prunes == ~noPrune /\ \E t \in done : grid[t].ready = "active"
           d == IF prunes THEN Pruned(g) ELSE {}
<1>1. \A t \in DOMAIN grid :
         g[t] \in Tile /\ g[t].current = grid[t].current /\ (g[t].ready = "no" <=> grid[t].ready = "no")
    <2> SUFFICES ASSUME NEW t \in DOMAIN grid
                 PROVE  /\ g[t] \in Tile /\ g[t].current = grid[t].current
                        /\ (g[t].ready = "no" <=> grid[t].ready = "no")
        OBVIOUS
    <2>1. t \in done => grid[t].ready # "no"
        BY DEF FadingTiles
    <2>2. grid[t] \in Tile
        OBVIOUS
    <2> QED
        BY <2>1, <2>2 DEF Tile
<1>2. Regrid(Without(g, d), d, {}) /\ Say(Unsubscriptions(d))
    BY DEF FadeWith
<1>3. d \subseteq {t \in DOMAIN g : ~g[t].current}
    BY PrunedOld
<1>4. DOMAIN g = DOMAIN grid
    OBVIOUS
<1> HIDE DEF g, d
<1>5. d \subseteq DOMAIN grid /\ \A t \in d : ~grid[t].current
    BY <1>1, <1>3, <1>4
<1>6. Reshaped(d, {}) /\ \A t \in DOMAIN grid' : grid'[t] = g[t]
    BY <1>1, <1>2, <1>4, <1>5, FS_EmptySet, RegridReshapes
<1>7. \A t \in DOMAIN grid' : grid'[t].current = grid[t].current
    BY <1>1, <1>6 DEF Reshaped
<1> QED
    BY <1>2, <1>5, <1>6, <1>7

-----------------------------------------------------------------------------
(* The types, part by part *)

LayerTypes ==
    /\ DOMAIN grid \subseteq Tiles /\ IsFiniteSet(DOMAIN grid)
    /\ \A t \in DOMAIN grid : grid[t] \in Tile
    /\ shown \in [Tiles -> Selections] /\ \A t \in Tiles \ DOMAIN grid : shown[t] = Nowhere
    /\ frames \in [Tiles -> Nat]
    /\ loading \in BOOLEAN /\ hasty \in BOOLEAN

ControlTypes ==
    /\ view \in Views /\ target \in Views \cup {Still} /\ sel \in Selections
    /\ layer \in {"none", "on", "off"}
    /\ {worlds, indicator, fading, noPrune} \subseteq BOOLEAN
    /\ gestures \in 0..Gestures /\ timers \in Nat

ServerTypes ==
    /\ subs \subseteq Requests /\ overtaken \subseteq Tiles
    /\ asked \in [Requests -> Nat]

EmptyWhenOff == layer # "on" => DOMAIN grid = {}

Counts == \A t \in Tiles : frames[t] + Owed(t) <= gestures + Added

\* VInv, regrouped by the parts that steps change together.
LEMMA VParts ==
    VInv <=> /\ LayerTypes /\ ControlTypes /\ ServerTypes
             /\ Greeted /\ EmptyWhenOff /\ Animated /\ Counts
<1>1. VInv => /\ LayerTypes /\ ControlTypes /\ ServerTypes
              /\ Greeted /\ EmptyWhenOff /\ Animated /\ Counts
    BY DEF VInv, TypeOK, Gridded, Bounded, LayerTypes, ControlTypes, ServerTypes, EmptyWhenOff,
       Counts, Tile
<1>2. ASSUME LayerTypes, ControlTypes, ServerTypes, Greeted, EmptyWhenOff, Animated, Counts
      PROVE  VInv
    <2>1. \A t \in Tiles : frames[t] \in 0..Gestures + 1
        <3> SUFFICES ASSUME NEW t \in Tiles
                     PROVE  frames[t] \in 0..Gestures + 1
            OBVIOUS
        <3>1. frames[t] \in Nat /\ Owed(t) \in Nat /\ gestures \in 0..Gestures /\ Added \in 0..1
            BY <1>2 DEF LayerTypes, ControlTypes, Owed, Added
        <3>2. frames[t] + Owed(t) <= gestures + Added
            BY <1>2 DEF Counts
        <3> QED
            BY <3>1, <3>2, GridOK
    <2>2. TypeOK
        BY <1>2, <2>1 DEF TypeOK, LayerTypes, ControlTypes, ServerTypes, Tile
    <2> QED
        BY <1>2, <2>2 DEF VInv, Gridded, Bounded, LayerTypes, EmptyWhenOff, Counts
<1> QED
    BY <1>1, <1>2

LEMMA VPartsNext ==
    ASSUME LayerTypes', ControlTypes', ServerTypes', Greeted', EmptyWhenOff', Animated', Counts'
    PROVE  VInv'
BY VParts, PTL

LEMMA ReshapeTypes ==
    ASSUME VInv, NEW d, NEW c, Reshaped(d, c)
    PROVE  LayerTypes'
<1> USE GridFacts
<1>1. DOMAIN grid' \subseteq Tiles /\ \A t \in DOMAIN grid' : grid'[t] \in Tile
    BY FreshTile DEF Reshaped
<1>2. IsFiniteSet(DOMAIN grid')
    <2>1. IsFiniteSet(DOMAIN grid \ d) /\ IsFiniteSet(c)
        BY FS_Difference DEF Reshaped
    <2>2. IsFiniteSet((DOMAIN grid \ d) \cup c)
        BY <2>1, FS_Union
    <2> QED
        BY <2>2 DEF Reshaped
<1>3. Nowhere \in Selections
    BY DEF Nowhere, Selections
<1>4. shown' \in [Tiles -> Selections]
    BY <1>3 DEF Reshaped
<1>5. \A t \in Tiles \ DOMAIN grid' : shown'[t] = Nowhere
    BY DEF Reshaped, VInv, TypeOK
<1>6. frames' \in [Tiles -> Nat]
    BY DEF Reshaped
<1>7. loading' \in BOOLEAN /\ hasty' \in BOOLEAN
    BY Zenon DEF Reshaped, HastyDrop
<1> QED
    BY <1>1, <1>2, <1>4, <1>5, <1>6, <1>7 DEF LayerTypes

-----------------------------------------------------------------------------
(* What the page tells the session *)

\* One message per tile, in the order of the list.
LEMMA SubscriptionList ==
    ASSUME sel \in Selections, NEW T, T \subseteq Tiles, IsFiniteSet(T)
    PROVE  /\ Subscriptions(T) \in Seq(UpMessages)
           /\ Unsubscriptions(T) \in Seq(UpMessages)
           /\ Len(Subscriptions(T)) = Len(SetToSeq(T)) /\ Len(Unsubscriptions(T)) = Len(SetToSeq(T))
           /\ \A i \in 1..Len(SetToSeq(T)) :
                 /\ SetToSeq(T)[i] \in T
                 /\ Subscriptions(T)[i] = Subscribe(SetToSeq(T)[i])
                 /\ Unsubscriptions(T)[i] = Unsubscribe(SetToSeq(T)[i])
           /\ \A t \in T : \E i \in 1..Len(SetToSeq(T)) : SetToSeq(T)[i] = t
<1> DEFINE s == SetToSeq(T)
<1>1. s \in Seq(T) /\ \A t \in T : \E i \in 1..Len(s) : s[i] = t
    BY Listing
<1>2. Subscriptions(T) = [i \in 1..Len(s) |-> Subscribe(s[i])]
      /\ Unsubscriptions(T) = [i \in 1..Len(s) |-> Unsubscribe(s[i])]
    BY DEF Subscriptions, Unsubscriptions
<1> HIDE DEF s
<1>3. Len(s) \in Nat /\ \A i \in 1..Len(s) : s[i] \in T
    BY <1>1
<1>4. \A i \in 1..Len(s) : Subscribe(s[i]) \in UpMessages /\ Unsubscribe(s[i]) \in UpMessages
    BY <1>3 DEF Subscribe, Unsubscribe, UpMessages
<1>5. Subscriptions(T) \in Seq(UpMessages) /\ Len(Subscriptions(T)) = Len(s)
    BY <1>2, <1>3, <1>4
<1>6. Unsubscriptions(T) \in Seq(UpMessages) /\ Len(Unsubscriptions(T)) = Len(s)
    BY <1>2, <1>3, <1>4
<1>7. \A i \in 1..Len(s) : Subscriptions(T)[i] = Subscribe(s[i])
                           /\ Unsubscriptions(T)[i] = Unsubscribe(s[i])
    BY <1>2
<1> QED
    BY <1>1, <1>3, <1>5, <1>6, <1>7 DEF s

LEMMA NoMessages ==
    ASSUME sel \in Selections
    PROVE  Subscriptions({}) = <<>> /\ Unsubscriptions({}) = <<>>
<1>1. Len(SetToSeq({})) = 0
    <2>1. SetToSeq({}) \in Seq({})
        BY Listing, FS_EmptySet
    <2>2. Len(SetToSeq({})) \in Nat /\ \A i \in 1..Len(SetToSeq({})) : SetToSeq({})[i] \in {}
        BY <2>1
    <2> QED
        BY <2>2
<1> QED
    BY <1>1, SubscriptionList, FS_EmptySet

\* The page drops and creates tiles, and says so in this or in that order.
Tells(dropped, created) ==
    \/ up' = (up \o Unsubscriptions(dropped)) \o Subscriptions(created)
    \/ /\ created \cap dropped = {}
       /\ up' = (up \o Subscriptions(created)) \o Unsubscriptions(dropped)

LEMMA Joining ==
    ASSUME NEW u \in Seq(UpMessages), NEW a \in Seq(UpMessages), NEW b \in Seq(UpMessages)
    PROVE  u \o (a \o b) = (u \o a) \o b /\ (u \o a) \o b \in Seq(UpMessages)
BY ConcatAssociative, ConcatProperties

\* Every way the layer's actions use socket.send is an instance of Tells.
LEMMA Telling ==
    ASSUME VInv, NEW d, NEW c, d \subseteq DOMAIN grid, c \subseteq Tiles, IsFiniteSet(c),
           \/ Say(Unsubscriptions(d) \o Subscriptions(c))
           \/ c \cap d = {} /\ Say(Subscriptions(c) \o Unsubscriptions(d))
           \/ c = {} /\ Say(Unsubscriptions(d))
           \/ d = {} /\ Say(Subscriptions(c))
           \/ d = {} /\ c = {} /\ up' = up
    PROVE  Tells(d, c) /\ up' \in Seq(UpMessages)
<1> USE GridFacts
<1>1. /\ Unsubscriptions(d) \in Seq(UpMessages) /\ Subscriptions(c) \in Seq(UpMessages)
    <2>1. IsFiniteSet(d)
        BY FS_Subset
    <2> QED
        BY <2>1, SubscriptionList
<1>2. Tells(d, c)
    <2>1. CASE Say(Unsubscriptions(d) \o Subscriptions(c))
        BY <1>1, <2>1, Joining DEF Say, Tells
    <2>2. CASE c \cap d = {} /\ Say(Subscriptions(c) \o Unsubscriptions(d))
        BY <1>1, <2>2, Joining DEF Say, Tells
    <2>3. CASE c = {} /\ Say(Unsubscriptions(d))
        BY <1>1, <2>3, NoMessages, ConcatEmptySeq DEF Say, Tells
    <2>4. CASE d = {} /\ Say(Subscriptions(c))
        BY <1>1, <2>4, NoMessages, ConcatEmptySeq DEF Say, Tells
    <2>5. CASE d = {} /\ c = {} /\ up' = up
        BY <1>1, <2>5, NoMessages, ConcatEmptySeq DEF Tells
    <2> QED
        BY <2>1, <2>2, <2>3, <2>4, <2>5
<1>3. up' \in Seq(UpMessages)
    <2> DEFINE U == Unsubscriptions(d)
               S == Subscriptions(c)
    <2>1. U \in Seq(UpMessages) /\ S \in Seq(UpMessages) /\ up \in Seq(UpMessages)
        BY <1>1
    <2>2. up' = (up \o U) \o S \/ up' = (up \o S) \o U
        BY <1>2 DEF Tells
    <2> HIDE DEF U, S
    <2>3. (up \o U) \o S \in Seq(UpMessages) /\ (up \o S) \o U \in Seq(UpMessages)
        BY <2>1, Joining
    <2> QED
        BY <2>2, <2>3
<1> QED
    BY <1>2, <1>3

LEMMA InitVInv == Init => VInv
<1> SUFFICES ASSUME Init PROVE VInv
    OBVIOUS
<1>1. Nowhere \in Selections
    BY DEF Nowhere, Selections
<1>2. grid = <<>> /\ DOMAIN grid = {} /\ IsFiniteSet({})
    BY FS_EmptySet DEF Init
<1>3. LayerTypes
    BY <1>1, <1>2 DEF Init, LayerTypes
<1>4. ControlTypes /\ ServerTypes
    <2>1. {worlds, indicator, fading, noPrune} \subseteq BOOLEAN /\ timers \in Nat
        BY DEF Init
    <2>2. /\ view \in Views /\ target \in Views \cup {Still} /\ sel \in Selections
          /\ layer \in {"none", "on", "off"} /\ gestures \in 0..Gestures
        BY <1>1, GridOK DEF Init
    <2> QED
        BY <2>1, <2>2 DEF Init, ControlTypes, ServerTypes
<1>5. Greeted
    BY DEF Init, Greeted, Greetings
<1>6. EmptyWhenOff /\ Animated /\ Counts
    BY <1>2 DEF Init, EmptyWhenOff, Animated, Counts, Owed, Added
<1> QED
    BY <1>3, <1>4, <1>5, <1>6, VParts

-----------------------------------------------------------------------------
(* The steps of the layer *)

\* What every step that drops or creates tiles has in common.
LayerStep(d, c) ==
    /\ Reshaped(d, c) /\ Tells(d, c) /\ up' \in Seq(UpMessages)
    /\ indicator' => indicator \/ c # {}
    /\ \/ down' = down /\ (layer = "none" => layer' = "none")
       \/ Arrives("updateLayers")
    /\ UNCHANGED <<sel, worlds, serverVars>>

\* The rest of what keeps the variables in their types.
Controlled == ControlTypes' /\ EmptyWhenOff' /\ Animated' /\ Counts'

\* What remains when the page has taken a message.
LEMMA ArrivesFacts ==
    ASSUME VInv, NEW kind, Arrives(kind)
    PROVE  /\ down \in Seq(Greetings \cup Answers) /\ Len(down) \in Nat \ {0}
           /\ down[1] = Head(down) /\ down[1].kind = kind /\ down[1] \in Greetings \cup Answers
           /\ down' \in Seq(Greetings \cup Answers) /\ Len(down') = Len(down) - 1
           /\ \A i \in 1..Len(down') : down'[i] = down[i + 1]
BY GridFacts DEF Arrives

\* The types survive a step of the layer.
LEMMA LayerStepVInv ==
    ASSUME VInv, NEW d, NEW c, LayerStep(d, c), Controlled
    PROVE  VInv'
<1>1. LayerTypes'
    BY ReshapeTypes DEF LayerStep
<1>2. ServerTypes'
    BY VParts DEF LayerStep, ServerTypes, serverVars
<1>3. Greeted'
    <2>1. CASE down' = down /\ (layer = "none" => layer' = "none")
        BY <2>1 DEF VInv, Greeted, LayerStep
    <2>2. CASE Arrives("updateLayers")
        <3>1. \A i \in 1..Len(down') : i + 1 \in 1..Len(down) /\ down'[i] = down[i + 1] /\ i + 1 # 1
            BY <2>2, ArrivesFacts
        <3>2. down' \in Seq(Greetings \cup Answers)
            BY <2>2, ArrivesFacts
        <3>3. up' \in Seq(UpMessages) /\ UNCHANGED <<sel, worlds>>
            BY DEF LayerStep
        <3>4. \A i \in 1..Len(down') : down'[i].kind # "updateLayers"
            BY <3>1 DEF VInv, Greeted
        <3>5. \A i, j \in 1..Len(down') :
                 down'[i].kind = "updateWorldsAndDims" /\ down'[j].kind = "updateWorldsAndDims" => i = j
            <4> SUFFICES ASSUME NEW i \in 1..Len(down'), NEW j \in 1..Len(down'),
                                down'[i].kind = "updateWorldsAndDims",
                                down'[j].kind = "updateWorldsAndDims"
                         PROVE  i = j
                OBVIOUS
            <4>1. i + 1 = j + 1
                BY <3>1 DEF VInv, Greeted
            <4> QED
                BY <4>1
        <3>6. \A i \in 1..Len(down') : down'[i].kind = "updateWorldsAndDims" => ~worlds
            BY <3>1 DEF VInv, Greeted
        <3>7. ~worlds => sel = Nowhere
            BY DEF VInv, Greeted
        <3> QED
            BY <3>2, <3>3, <3>4, <3>5, <3>6, <3>7 DEF Greeted
    <2> QED
        BY <2>1, <2>2 DEF LayerStep
<1> QED
    BY <1>1, <1>2, <1>3, VPartsNext DEF Controlled

\* A gesture, or the arrival of the layers, pays for a tile it creates.
LEMMA GestureCounts ==
    ASSUME VInv, NEW d, NEW c, Reshaped(d, c), ControlTypes',
           gestures' + Added' = gestures + Added + 1
    PROVE  Counts'
<1> SUFFICES ASSUME NEW t \in Tiles
             PROVE  frames'[t] + Owed(t)' <= gestures' + Added'
    BY DEF Counts
<1>1. frames[t] \in Nat /\ Owed(t) \in 0..1 /\ gestures \in Nat /\ Added \in 0..1
    BY VParts, GridFacts DEF Owed, Added, ControlTypes
<1>2. frames[t] <= gestures + Added
    BY <1>1, VParts DEF Counts
<1>3. Owed(t)' \in 0..1
    BY DEF Owed
<1>4. CASE t \in c
    <2>1. t \in DOMAIN grid' /\ frames'[t] = frames[t] + 1
        BY <1>4 DEF Reshaped
    <2>2. Owed(t)' = 0
        BY <2>1 DEF Owed
    <2> QED
        BY <1>1, <1>2, <2>1, <2>2
<1>5. CASE t \notin c
    <2>1. frames'[t] = frames[t]
        BY <1>5 DEF Reshaped
    <2> QED
        BY <1>1, <1>2, <1>3, <2>1
<1> QED
    BY <1>4, <1>5

\* Other steps create only what the animation has left for its end.
LEMMA OtherCounts ==
    ASSUME VInv, NEW d, NEW c, Reshaped(d, c), UNCHANGED gestures, Added' = Added,
           \A t \in Tiles : Owed(t)' + (IF t \in c THEN 1 ELSE 0) <= Owed(t)
    PROVE  Counts'
<1> SUFFICES ASSUME NEW t \in Tiles
             PROVE  frames'[t] + Owed(t)' <= gestures' + Added'
    BY DEF Counts
<1>1. frames[t] \in Nat /\ Owed(t) \in 0..1 /\ gestures \in Nat /\ Added \in 0..1
    BY VParts, GridFacts DEF Owed, Added, ControlTypes
<1>2. frames[t] + Owed(t) <= gestures + Added
    BY <1>1, VParts DEF Counts
<1>3. Owed(t)' \in 0..1
    BY DEF Owed
<1>4. frames'[t] = IF t \in c THEN frames[t] + 1 ELSE frames[t]
    BY DEF Reshaped
<1>5. CASE t \in c
    <2>1. frames'[t] = frames[t] + 1 /\ Owed(t)' + 1 <= Owed(t)
        BY <1>4, <1>5
    <2> QED
        BY <1>1, <1>2, <1>3, <2>1
<1>6. CASE t \notin c
    <2>1. frames'[t] = frames[t] /\ Owed(t)' + 0 <= Owed(t)
        BY <1>4, <1>6
    <2> QED
        BY <1>1, <1>2, <1>3, <2>1
<1> QED
    BY <1>5, <1>6

\* The shapes the layer's actions are made of: nothing, _update, a redraw, onAdd.
LEMMA UntouchedStep ==
    ASSUME VInv, Untouched
    PROVE  /\ Reshaped({}, {}) /\ Tells({}, {}) /\ up' \in Seq(UpMessages)
           /\ UNCHANGED <<grid, loading, indicator>>
BY UntouchedReshapes, Telling, FS_EmptySet DEF Untouched

LEMMA RefreshStep ==
    ASSUME VInv, NEW v \in Views, NEW d, Refresh(v, d),
           d \subseteq {t \in DOMAIN Update(grid, v) : ~Update(grid, v)[t].current}
    PROVE  LET c == Window[v] \ DOMAIN grid IN
           /\ Reshaped(d, c) /\ Tells(d, c) /\ up' \in Seq(UpMessages)
           /\ indicator' => indicator \/ c # {}
           /\ \A t \in Window[v] : t \in DOMAIN grid' /\ grid'[t].current
<1> DEFINE c == Window[v] \ DOMAIN grid
<1>1. /\ Reshaped(d, c) /\ \A t \in Window[v] : t \in DOMAIN grid' /\ grid'[t].current
      /\ d \cap Window[v] = {}
    BY RefreshReshapes
<1>2. Say(Subscriptions(c) \o Unsubscriptions(d)) /\ Indicate(c)
    BY DEF Refresh
<1>3. c \cap d = {} /\ d \subseteq DOMAIN grid /\ c \subseteq Tiles /\ IsFiniteSet(c)
    BY <1>1 DEF Reshaped
<1> HIDE DEF c
<1>4. Tells(d, c) /\ up' \in Seq(UpMessages)
    BY <1>2, <1>3, Telling
<1>5. indicator' => indicator \/ c # {}
    BY <1>2 DEF Indicate
<1> QED
    BY <1>1, <1>4, <1>5 DEF c

LEMMA RenewStep ==
    ASSUME VInv, NEW v \in Views, Renew(v)
    PROVE  /\ Reshaped(DOMAIN grid, Window[v]) /\ Tells(DOMAIN grid, Window[v])
           /\ up' \in Seq(UpMessages) /\ Window[v] # {}
           /\ \A t \in DOMAIN grid' : grid'[t].current
<1>1. Reshaped(DOMAIN grid, Window[v])
    <2>1. Regrid([t \in Window[v] |-> Fresh], DOMAIN grid, Window[v])
        BY DEF Renew
    <2> QED
        BY <2>1, RenewReshapes
<1>2. Tells(DOMAIN grid, Window[v]) /\ up' \in Seq(UpMessages)
    BY <1>1, Telling DEF Renew, Reshaped
<1> QED
    BY <1>1, <1>2, GridFacts, FreshTile DEF Reshaped

\* The view a redraw draws is a view: the animation's target is one.
LEMMA SeenView ==
    ASSUME VInv
    PROVE  Seen \in Views
BY VParts DEF ControlTypes, Seen

LEMMA PopulateStep ==
    ASSUME VInv, Populate, layer # "on"
    PROVE  /\ Reshaped({}, Window[Seen]) /\ Tells({}, Window[Seen])
           /\ up' \in Seq(UpMessages) /\ Window[Seen] # {}
           /\ \A t \in DOMAIN grid' : grid'[t].current
<1>1. DOMAIN grid = {}
    BY VParts DEF EmptyWhenOff
<1>2. Reshaped({}, Window[Seen])
    <2>1. Regrid([t \in Window[Seen] |-> Fresh], DOMAIN grid, Window[Seen])
        BY <1>1 DEF Populate
    <2> QED
        BY <1>1, <2>1, RenewReshapes, GridFacts, SeenView
<1>3. Tells({}, Window[Seen]) /\ up' \in Seq(UpMessages)
    BY <1>2, Telling DEF Populate, Reshaped
<1>4. Window[Seen] # {}
    BY GridFacts, SeenView
<1>5. DOMAIN grid' = Window[Seen] /\ \A t \in Window[Seen] : grid'[t] = Fresh
    BY <1>1, <1>2 DEF Reshaped
<1> QED
    BY <1>2, <1>3, <1>4, <1>5, FreshTile

LEMMA GestureFacts ==
    ASSUME VInv, Gesture
    PROVE  gestures' \in 0..Gestures /\ gestures' = gestures + 1 /\ gestures \in Nat
BY GridOK, VParts DEF Gesture, ControlTypes

\* One lemma per action of the layer: it is a LayerStep and keeps its own types.
LEMMA PanStep ==
    ASSUME VInv, NEW v \in Views, Pan(v)
    PROVE  \E d, c : LayerStep(d, c) /\ Controlled
<1> USE GestureFacts, VParts
<1>1. ControlTypes'
    <2>1. indicator' \in BOOLEAN
        BY Zenon, GridFacts DEF Pan, Refresh, Indicate, Untouched
    <2> QED
        BY <2>1 DEF Pan, ControlTypes
<1>2. Animated'
    BY DEF Pan, Animated
<1>3. gestures' + Added' = gestures + Added + 1
    BY DEF Pan, Added, ControlTypes
<1>4. CASE layer = "on"
    <2> DEFINE c == Window[v] \ DOMAIN grid
    <2>1. /\ Reshaped({}, c) /\ Tells({}, c) /\ up' \in Seq(UpMessages)
          /\ indicator' => indicator \/ c # {}
        BY <1>4, RefreshStep DEF Pan
    <2>2. LayerStep({}, c) /\ EmptyWhenOff'
        BY <1>4, <2>1 DEF Pan, LayerStep, EmptyWhenOff
    <2>3. Counts'
        BY <1>1, <1>3, <2>1, GestureCounts
    <2> QED
        BY <1>1, <1>2, <2>2, <2>3 DEF Controlled
<1>5. CASE layer # "on"
    <2>1. /\ Reshaped({}, {}) /\ Tells({}, {}) /\ up' \in Seq(UpMessages)
          /\ UNCHANGED <<grid, indicator>>
        BY <1>5, UntouchedStep DEF Pan
    <2>2. LayerStep({}, {}) /\ EmptyWhenOff'
        BY <1>5, <2>1 DEF Pan, LayerStep, EmptyWhenOff
    <2>3. Counts'
        BY <1>1, <1>3, <2>1, GestureCounts
    <2> QED
        BY <1>1, <1>2, <2>2, <2>3 DEF Controlled
<1> QED
    BY <1>4, <1>5

LEMMA JumpStep ==
    ASSUME VInv, NEW v \in Views, Jump(v)
    PROVE  \E d, c : LayerStep(d, c) /\ Controlled
<1> USE GestureFacts, VParts
<1>1. ControlTypes'
    <2>1. indicator' \in BOOLEAN /\ noPrune' \in BOOLEAN
        BY Zenon, GridFacts DEF Jump, Renew, Indicate, Untouched
    <2> QED
        BY <2>1 DEF Jump, ControlTypes
<1>2. Animated'
    BY DEF Jump, Animated
<1>3. gestures' + Added' = gestures + Added + 1
    BY DEF Jump, Added, ControlTypes
<1>4. CASE layer = "on"
    <2>1. /\ Reshaped(DOMAIN grid, Window[v]) /\ Tells(DOMAIN grid, Window[v])
          /\ up' \in Seq(UpMessages) /\ Window[v] # {}
        BY <1>4, RenewStep DEF Jump
    <2>2. LayerStep(DOMAIN grid, Window[v]) /\ EmptyWhenOff'
        BY <1>4, <2>1 DEF Jump, LayerStep, EmptyWhenOff
    <2>3. Counts'
        BY <1>1, <1>3, <2>1, GestureCounts
    <2> QED
        BY <1>1, <1>2, <2>2, <2>3 DEF Controlled
<1>5. CASE layer # "on"
    <2>1. /\ Reshaped({}, {}) /\ Tells({}, {}) /\ up' \in Seq(UpMessages)
          /\ UNCHANGED <<grid, indicator>>
        BY <1>5, UntouchedStep DEF Jump
    <2>2. LayerStep({}, {}) /\ EmptyWhenOff'
        BY <1>5, <2>1 DEF Jump, LayerStep, EmptyWhenOff
    <2>3. Counts'
        BY <1>1, <1>3, <2>1, GestureCounts
    <2> QED
        BY <1>1, <1>2, <2>2, <2>3 DEF Controlled
<1> QED
    BY <1>4, <1>5

LEMMA ZoomStartStep ==
    ASSUME VInv, NEW v \in Views, ZoomStart(v)
    PROVE  \E d, c : LayerStep(d, c) /\ Controlled
<1> USE GestureFacts, VParts
<1>1. ControlTypes'
    <2>1. indicator' \in BOOLEAN /\ noPrune' \in BOOLEAN
        BY Zenon, GridFacts DEF ZoomStart, Refresh, Indicate, Untouched
    <2> QED
        BY <2>1 DEF ZoomStart, ControlTypes
<1>3. gestures' + Added' = gestures + Added + 1
    BY DEF ZoomStart, Added, ControlTypes
<1>6. target' = v /\ view' = view /\ ~SameZoom(v, view)
    BY DEF ZoomStart
<1>4. CASE layer = "on"
    <2> DEFINE c == Window[v] \ DOMAIN grid
    <2>1. /\ Reshaped({}, c) /\ Tells({}, c) /\ up' \in Seq(UpMessages)
          /\ indicator' => indicator \/ c # {}
          /\ \A t \in Window[v] : t \in DOMAIN grid' /\ grid'[t].current
        BY <1>4, RefreshStep DEF ZoomStart
    <2>2. LayerStep({}, c) /\ EmptyWhenOff'
        BY <1>4, <2>1 DEF ZoomStart, LayerStep, EmptyWhenOff
    <2>3. Counts'
        BY <1>1, <1>3, <2>1, GestureCounts
    <2>4. Animated'
        BY <1>6, <2>1 DEF Animated, SameZoom
    <2> QED
        BY <1>1, <2>2, <2>3, <2>4 DEF Controlled
<1>5. CASE layer # "on"
    <2>1. /\ Reshaped({}, {}) /\ Tells({}, {}) /\ up' \in Seq(UpMessages)
          /\ UNCHANGED <<grid, indicator>>
        BY <1>5, UntouchedStep DEF ZoomStart
    <2>2. LayerStep({}, {}) /\ EmptyWhenOff'
        BY <1>5, <2>1 DEF ZoomStart, LayerStep, EmptyWhenOff
    <2>3. Counts'
        BY <1>1, <1>3, <2>1, GestureCounts
    <2>4. Animated'
        BY <1>5, <1>6, <2>1 DEF Animated, SameZoom, EmptyWhenOff
    <2> QED
        BY <1>1, <2>2, <2>3, <2>4 DEF Controlled
<1> QED
    BY <1>4, <1>5

LEMMA ZoomEndStep ==
    ASSUME VInv, ZoomEnd
    PROVE  \E d, c : LayerStep(d, c) /\ Controlled
<1> USE VParts
<1>1. ControlTypes'
    <2>1. indicator' \in BOOLEAN /\ noPrune' \in BOOLEAN
        BY Zenon, GridFacts DEF ZoomEnd, Refresh, Indicate, Untouched
    <2>2. target \in Views
        BY DEF ZoomEnd, ControlTypes
    <2> QED
        BY <2>1, <2>2 DEF ZoomEnd, ControlTypes
<1>2. Animated' /\ target' = Still
    BY DEF ZoomEnd, Animated
<1>3. gestures' = gestures /\ Added' = Added /\ target \in Views /\ target # Still
    BY DEF ZoomEnd, Added, ControlTypes
<1>4. CASE layer = "on"
    <2> DEFINE c == Window[target] \ DOMAIN grid
               d == Pruned(Update(grid, target))
    <2>1. d \subseteq {t \in DOMAIN Update(grid, target) : ~Update(grid, target)[t].current}
        BY PrunedOld
    <2>2. Refresh(target, d)
        BY <1>4 DEF ZoomEnd
    <2> HIDE DEF d
    <2>3. /\ Reshaped(d, c) /\ Tells(d, c) /\ up' \in Seq(UpMessages)
          /\ indicator' => indicator \/ c # {}
        BY <1>3, <2>1, <2>2, RefreshStep
    <2>4. LayerStep(d, c) /\ EmptyWhenOff'
        BY <1>4, <2>3 DEF ZoomEnd, LayerStep, EmptyWhenOff
    <2>5. \A t \in Tiles : Owed(t)' + (IF t \in c THEN 1 ELSE 0) <= Owed(t)
        BY <1>2, <1>3 DEF Owed
    <2>6. Counts'
        BY <1>3, <2>3, <2>5, OtherCounts
    <2> QED
        BY <1>1, <1>2, <2>4, <2>6 DEF Controlled
<1>5. CASE layer # "on"
    <2>1. /\ Reshaped({}, {}) /\ Tells({}, {}) /\ up' \in Seq(UpMessages)
          /\ UNCHANGED <<grid, indicator>>
        BY <1>5, UntouchedStep DEF ZoomEnd
    <2>2. LayerStep({}, {}) /\ EmptyWhenOff'
        BY <1>5, <2>1 DEF ZoomEnd, LayerStep, EmptyWhenOff
    <2>3. \A t \in Tiles : Owed(t)' + (IF t \in {} THEN 1 ELSE 0) <= Owed(t)
        BY <1>2 DEF Owed
    <2>4. Counts'
        BY <1>3, <2>1, <2>3, OtherCounts
    <2> QED
        BY <1>1, <1>2, <2>2, <2>4 DEF Controlled
<1> QED
    BY <1>4, <1>5

LEMMA ReloadStep ==
    ASSUME VInv, Reload
    PROVE  \E d, c : LayerStep(d, c) /\ Controlled
<1> USE GestureFacts, VParts
<1>1. ControlTypes'
    <2>1. indicator' \in BOOLEAN
        BY Zenon, GridFacts DEF Reload, Renew, Indicate
    <2> QED
        BY <2>1 DEF Reload, ControlTypes
<1>2. /\ Reshaped(DOMAIN grid, Window[Seen]) /\ Tells(DOMAIN grid, Window[Seen])
      /\ up' \in Seq(UpMessages) /\ Window[Seen] # {}
      /\ \A t \in DOMAIN grid' : grid'[t].current
    BY SeenView, RenewStep DEF Reload
<1>3. Animated'
    BY <1>2 DEF Reload, Animated, SameZoom
<1>4. LayerStep(DOMAIN grid, Window[Seen]) /\ EmptyWhenOff'
    BY <1>2 DEF Reload, LayerStep, EmptyWhenOff
<1>5. gestures' + Added' = gestures + Added + 1
    BY DEF Reload, Added, ControlTypes
<1>6. Counts'
    BY <1>1, <1>2, <1>5, GestureCounts
<1> QED
    BY <1>1, <1>3, <1>4, <1>6 DEF Controlled

LEMMA SwitchOffStep ==
    ASSUME VInv, SwitchOff
    PROVE  \E d, c : LayerStep(d, c) /\ Controlled
<1> USE GestureFacts, VParts
<1>1. ControlTypes'
    <2>1. indicator' \in BOOLEAN
        BY DEF SwitchOff
    <2> QED
        BY <2>1 DEF SwitchOff, ControlTypes
<1>2. Reshaped(DOMAIN grid, {}) /\ DOMAIN grid' = {}
    <2>1. <<>> = [t \in {} |-> Fresh]
        OBVIOUS
    <2>2. Regrid([t \in {} |-> Fresh], DOMAIN grid, {})
        BY <2>1 DEF SwitchOff
    <2>3. Reshaped(DOMAIN grid, {})
        BY <2>2, RenewReshapes
    <2> QED
        BY <2>3 DEF Reshaped
<1>3. Tells(DOMAIN grid, {}) /\ up' \in Seq(UpMessages)
    BY <1>2, Telling DEF SwitchOff, Reshaped
<1>4. Animated'
    BY <1>2 DEF SwitchOff, Animated, SameZoom
<1>5. LayerStep(DOMAIN grid, {}) /\ EmptyWhenOff'
    BY <1>2, <1>3 DEF SwitchOff, LayerStep, EmptyWhenOff
<1>6. gestures' + Added' = gestures + Added + 1
    BY DEF SwitchOff, Added, ControlTypes
<1>7. Counts'
    BY <1>1, <1>2, <1>6, GestureCounts
<1> QED
    BY <1>1, <1>4, <1>5, <1>7 DEF Controlled

LEMMA SwitchOnStep ==
    ASSUME VInv, SwitchOn
    PROVE  \E d, c : LayerStep(d, c) /\ Controlled
<1> USE GestureFacts, VParts
<1>1. ControlTypes'
    <2>1. indicator' \in BOOLEAN /\ noPrune' \in BOOLEAN
        BY DEF SwitchOn, Populate
    <2> QED
        BY <2>1 DEF SwitchOn, Populate, ControlTypes
<1>2. /\ Reshaped({}, Window[Seen]) /\ Tells({}, Window[Seen])
      /\ up' \in Seq(UpMessages) /\ Window[Seen] # {}
      /\ \A t \in DOMAIN grid' : grid'[t].current
    BY PopulateStep DEF SwitchOn
<1>3. Animated'
    BY <1>2 DEF SwitchOn, Animated, SameZoom
<1>4. LayerStep({}, Window[Seen]) /\ EmptyWhenOff'
    BY <1>2 DEF SwitchOn, Populate, LayerStep, EmptyWhenOff
<1>5. gestures' + Added' = gestures + Added + 1
    BY DEF SwitchOn, Populate, Added, ControlTypes
<1>6. Counts'
    BY <1>1, <1>2, <1>5, GestureCounts
<1> QED
    BY <1>1, <1>3, <1>4, <1>6 DEF Controlled

LEMMA ShowLayersStep ==
    ASSUME VInv, ShowLayers
    PROVE  \E d, c : LayerStep(d, c) /\ Controlled
<1> USE VParts
<1>1. layer = "none" /\ Arrives("updateLayers")
    <2>1. down[1].kind = "updateLayers" /\ 1 \in 1..Len(down)
        BY ArrivesFacts DEF ShowLayers
    <2> QED
        BY <2>1 DEF ShowLayers, Greeted
<1>2. ControlTypes'
    <2>1. noPrune' \in BOOLEAN
        BY DEF ShowLayers, Populate
    <2> QED
        BY <2>1 DEF ShowLayers, Populate, ControlTypes
<1>3. /\ Reshaped({}, Window[Seen]) /\ Tells({}, Window[Seen])
      /\ up' \in Seq(UpMessages) /\ Window[Seen] # {}
      /\ \A t \in DOMAIN grid' : grid'[t].current
    BY <1>1, PopulateStep DEF ShowLayers
<1>4. Animated'
    BY <1>3 DEF ShowLayers, Animated, SameZoom
<1>5. LayerStep({}, Window[Seen]) /\ EmptyWhenOff'
    BY <1>1, <1>3 DEF ShowLayers, Populate, LayerStep, EmptyWhenOff
<1>6. gestures' + Added' = gestures + Added + 1
    BY <1>1 DEF ShowLayers, Populate, Added, ControlTypes
<1>7. Counts'
    BY <1>2, <1>3, <1>6, GestureCounts
<1> QED
    BY <1>2, <1>4, <1>5, <1>7 DEF Controlled

LEMMA PruneStep ==
    ASSUME VInv, Prune
    PROVE  \E d, c : LayerStep(d, c) /\ Controlled
<1> USE VParts
<1> DEFINE d == Pruned(grid)
<1>1. ControlTypes'
    BY DEF Prune, ControlTypes
<1>2. /\ Reshaped(d, {}) /\ \A t \in DOMAIN grid' : grid'[t] = grid[t]
      /\ \A t \in d : ~grid[t].current
    BY PruneReshapes DEF Prune
<1>3. Say(Unsubscriptions(d))
    BY DEF Prune
<1> HIDE DEF d
<1>4. Tells(d, {}) /\ up' \in Seq(UpMessages)
    BY <1>2, <1>3, Telling DEF Reshaped
<1>5. DOMAIN grid' = DOMAIN grid \ d
    BY <1>2 DEF Reshaped
<1>6. Animated'
    BY <1>2, <1>5 DEF Prune, Animated, SameZoom
<1>7. LayerStep(d, {}) /\ EmptyWhenOff'
    BY <1>2, <1>4, <1>5 DEF Prune, LayerStep, EmptyWhenOff
<1>8. \A t \in Tiles : Owed(t)' + (IF t \in {} THEN 1 ELSE 0) <= Owed(t)
    BY <1>2, <1>5 DEF Prune, Owed, Animated
<1>9. Counts'
    <2>1. UNCHANGED gestures /\ Added' = Added
        BY DEF Prune, Added
    <2> QED
        BY <1>2, <1>8, <2>1, OtherCounts
<1> QED
    BY <1>1, <1>6, <1>7, <1>9 DEF Controlled

LEMMA FadeStep ==
    ASSUME VInv, NEW done \in SUBSET FadingTiles, Fade(done)
    PROVE  \E d, c : LayerStep(d, c) /\ Controlled
<1> USE VParts
<1>1. ControlTypes'
    <2>1. fading' \in BOOLEAN
        BY DEF Fade, FadeWith
    <2> QED
        BY <2>1 DEF Fade, ControlTypes
<1>2. UNCHANGED gestures /\ Added' = Added
    BY DEF Fade, Added
<1>3. CASE layer = "on"
    <2>1. PICK d : /\ Reshaped(d, {}) /\ Say(Unsubscriptions(d))
                   /\ \A t \in DOMAIN grid' : grid'[t].current = grid[t].current
                   /\ \A t \in d : ~grid[t].current
        BY <1>3, FadeReshapes DEF Fade
    <2>2. Tells(d, {}) /\ up' \in Seq(UpMessages)
        BY <2>1, Telling DEF Reshaped
    <2>3. DOMAIN grid' = DOMAIN grid \ d
        BY <2>1 DEF Reshaped
    <2>4. Animated'
        BY <2>1, <2>3 DEF Fade, Animated, SameZoom
    <2>5. LayerStep(d, {}) /\ EmptyWhenOff'
        BY <1>3, <2>1, <2>2 DEF Fade, LayerStep, EmptyWhenOff
    <2>6. \A t \in Tiles : Owed(t)' + (IF t \in {} THEN 1 ELSE 0) <= Owed(t)
        BY <2>1, <2>3 DEF Fade, Owed, Animated
    <2>7. Counts'
        BY <1>2, <2>1, <2>6, OtherCounts
    <2> QED
        BY <1>1, <2>4, <2>5, <2>7 DEF Controlled
<1>4. CASE layer # "on"
    <2>1. UNCHANGED <<grid, hasty, frames, shown, loading, up, indicator>>
        BY <1>4 DEF Fade, FadeWith
    <2>2. Reshaped({}, {}) /\ Tells({}, {}) /\ up' \in Seq(UpMessages)
        BY <2>1, UntouchedStep DEF Untouched
    <2>3. LayerStep({}, {}) /\ EmptyWhenOff'
        BY <1>4, <2>1, <2>2 DEF Fade, LayerStep, EmptyWhenOff
    <2>4. Animated'
        BY <2>1 DEF Fade, Animated, SameZoom
    <2>5. \A t \in Tiles : Owed(t)' + (IF t \in {} THEN 1 ELSE 0) <= Owed(t)
        BY <2>1 DEF Fade, Owed
    <2>6. Counts'
        BY <1>2, <2>2, <2>5, OtherCounts
    <2> QED
        BY <1>1, <2>3, <2>4, <2>6 DEF Controlled
<1> QED
    BY <1>3, <1>4

\* The steps that change the layer's tiles, as the user and Leaflet make them.
LayerAction ==
    \/ \E v \in Views : Pan(v) \/ Jump(v) \/ ZoomStart(v)
    \/ Reload \/ SwitchOff \/ SwitchOn \/ Prune \/ ZoomEnd \/ ShowLayers
    \/ \E done \in SUBSET FadingTiles : Fade(done)

\* What is shown for LayerStep holds for each of these actions.
LEMMA LayerActionStep ==
    ASSUME VInv, LayerAction
    PROVE  \E d, c : LayerStep(d, c) /\ Controlled
BY PanStep, JumpStep, ZoomStartStep, ReloadStep, SwitchOffStep, SwitchOnStep, PruneStep, ZoomEndStep,
   ShowLayersStep, FadeStep DEF LayerAction

\* Next, with the actions of the layer taken together.
LEMMA Steps ==
    Next <=> \/ LayerAction \/ Select \/ ShowWorlds \/ Draw \/ Handler
             \/ (\E t \in Tiles : TileReady(t)) \/ \E r \in Requests : Answer(r)
BY DEF Next, User, Callback, Fading, Message, LayerAction

-----------------------------------------------------------------------------
(* The other steps keep the types *)

\* The layer stays as it is; a tile may show something else.
LEMMA QuietTypes ==
    ASSUME VInv, UNCHANGED <<layerVars, view, target>>,
           gestures' \in {gestures, gestures + 1},
           shown' \in [Tiles -> Selections], \A t \in Tiles \ DOMAIN grid : shown'[t] = Nowhere
    PROVE  LayerTypes' /\ EmptyWhenOff' /\ Animated' /\ Counts'
<1> USE VParts
<1>1. LayerTypes' /\ EmptyWhenOff' /\ Animated'
    BY DEF LayerTypes, EmptyWhenOff, Animated, SameZoom, layerVars
<1>2. Counts'
    <2> SUFFICES ASSUME NEW t \in Tiles
                 PROVE  frames'[t] + Owed(t)' <= gestures' + Added'
        BY DEF Counts
    <2>1. frames[t] \in Nat /\ Owed(t) \in 0..1 /\ gestures \in Nat /\ Added \in 0..1
        BY GridFacts DEF Owed, Added, ControlTypes
    <2>2. frames'[t] = frames[t] /\ Owed(t)' = Owed(t) /\ Added' = Added
        BY DEF Owed, Added, layerVars
    <2>3. frames[t] + Owed(t) <= gestures + Added
        BY DEF Counts
    <2> QED
        BY <2>1, <2>2, <2>3
<1> QED
    BY <1>1, <1>2

LEMMA ShownFacts ==
    ASSUME VInv
    PROVE  shown \in [Tiles -> Selections] /\ \A t \in Tiles \ DOMAIN grid : shown[t] = Nowhere
BY DEF VInv, TypeOK

\* The page tells the session of a new selection.
LEMMA Choosing ==
    ASSUME VInv, NEW place, place \in Selections, Choose(place)
    PROVE  /\ sel' = place /\ Len(up) \in Nat
           /\ up' = Append(up, [kind |-> "resubWorldDimension", place |-> place])
           /\ up' \in Seq(UpMessages)
<1> DEFINE m == [kind |-> "resubWorldDimension", place |-> place]
<1>1. m \in UpMessages
    BY DEF UpMessages
<1>2. up \in Seq(UpMessages) /\ up' = up \o <<m>> /\ sel' = place
    BY GridFacts DEF Choose, Say
<1> HIDE DEF m
<1>3. up \o <<m>> = Append(up, m) /\ Append(up, m) \in Seq(UpMessages) /\ Len(up) \in Nat
    BY <1>1, <1>2
<1> QED
    BY <1>2, <1>3 DEF m

\* A selection is one message to the session.
LEMMA SelectFacts ==
    ASSUME VInv, Select
    PROVE  \E p \in Selections : Choose(p)
<1> USE GridFacts
<1>1. CASE \E w \in Worlds \ {sel.world} : Choose([world |-> w, dim |-> Blank])
    BY <1>1 DEF Selections
<1>2. CASE \E d \in Dims \ {sel.dim} : sel.world # Blank /\ Choose([sel EXCEPT !.dim = d])
    BY <1>2 DEF Selections
<1> QED
    BY <1>1, <1>2 DEF Select

LEMMA SelectVInv ==
    ASSUME VInv, Select
    PROVE  VInv'
<1> USE VParts
<1>1. PICK p \in Selections : Choose(p)
    BY SelectFacts
<1>2. sel' = p /\ up' \in Seq(UpMessages)
    BY <1>1, Choosing
<1>3. gestures' \in 0..Gestures /\ gestures' = gestures + 1
    BY GestureFacts DEF Select
<1>4. LayerTypes' /\ EmptyWhenOff' /\ Animated' /\ Counts'
    <2>1. UNCHANGED <<layerVars, view, target, shown>>
        BY DEF Select
    <2> QED
        BY <1>3, <2>1, QuietTypes, ShownFacts
<1>5. ControlTypes' /\ ServerTypes'
    BY <1>2, <1>3 DEF Select, ControlTypes, ServerTypes, layerVars, serverVars
<1>6. Greeted'
    BY <1>2 DEF Select, Greeted, layerVars
<1> QED
    BY <1>4, <1>5, <1>6, VPartsNext

\* So are the worlds, unless the address names none.
LEMMA ShowWorldsFacts ==
    ASSUME VInv, ShowWorlds
    PROVE  /\ sel' \in Selections /\ up' \in Seq(UpMessages)
           /\ (\E p \in Places : Choose(p)) \/ up' = up
<1> USE GridFacts
<1>1. CASE \E p \in Places : Choose(p)
    <2>1. PICK p \in Places : Choose(p)
        BY <1>1
    <2>2. p \in Selections
        BY DEF Places, Selections
    <2>3. sel' = p /\ up' \in Seq(UpMessages)
        BY <2>1, <2>2, Choosing
    <2> QED
        BY <2>1, <2>2, <2>3
<1>2. CASE sel' = [sel EXCEPT !.world = Blank] /\ UNCHANGED up
    BY <1>2 DEF Selections
<1> QED
    BY <1>1, <1>2 DEF ShowWorlds

LEMMA ShowWorldsVInv ==
    ASSUME VInv, ShowWorlds
    PROVE  VInv'
<1> USE VParts
<1>1. sel' \in Selections /\ up' \in Seq(UpMessages)
    BY ShowWorldsFacts
<1>2. LayerTypes' /\ EmptyWhenOff' /\ Animated' /\ Counts'
    <2>1. UNCHANGED <<layerVars, view, target, shown, gestures>>
        BY DEF ShowWorlds
    <2> QED
        BY <2>1, QuietTypes, ShownFacts
<1>3. ControlTypes' /\ ServerTypes'
    BY <1>1 DEF ShowWorlds, ControlTypes, ServerTypes, layerVars, serverVars
<1>4. Arrives("updateWorldsAndDims") /\ worlds' = TRUE /\ layer' = layer
    BY DEF ShowWorlds, layerVars
<1>5. /\ down' \in Seq(Greetings \cup Answers) /\ 1 \in 1..Len(down)
      /\ down[1].kind = "updateWorldsAndDims"
      /\ \A i \in 1..Len(down') : i + 1 \in 1..Len(down) /\ i + 1 # 1 /\ down'[i] = down[i + 1]
    BY <1>4, ArrivesFacts
<1>6. \A i \in 1..Len(down') :
         down'[i].kind # "updateLayers" /\ down'[i].kind # "updateWorldsAndDims"
    <2> SUFFICES ASSUME NEW i \in 1..Len(down')
                 PROVE  down'[i].kind # "updateLayers" /\ down'[i].kind # "updateWorldsAndDims"
        OBVIOUS
    <2>1. i + 1 \in 1..Len(down) /\ i + 1 # 1 /\ down'[i] = down[i + 1]
        BY <1>5
    <2> QED
        BY <1>5, <2>1 DEF Greeted
<1>7. Greeted'
    BY <1>1, <1>4, <1>5, <1>6 DEF Greeted
<1> QED
    BY <1>2, <1>3, <1>7, VPartsNext

LEMMA DrawVInv ==
    ASSUME VInv, Draw
    PROVE  VInv'
<1> USE VParts, GridFacts
<1>1. /\ Arrives("tile") /\ UNCHANGED <<view, target, sel, worlds, gestures, layerVars, up, serverVars>>
      /\ shown' = IF Head(down).picture /\ Head(down).tile \in DOMAIN grid
                  THEN [shown EXCEPT ![Head(down).tile] = Head(down).place] ELSE shown
    BY DEF Draw
<1>2. /\ down' \in Seq(Greetings \cup Answers) /\ Head(down) \in Answers
      /\ \A i \in 1..Len(down') : i + 1 \in 1..Len(down) /\ i + 1 # 1 /\ down'[i] = down[i + 1]
    BY <1>1, ArrivesFacts DEF Greetings, Answers
<1>3. LayerTypes' /\ EmptyWhenOff' /\ Animated' /\ Counts'
    <2>1. Head(down).place \in Selections /\ Head(down).tile \in Tiles
        BY <1>2 DEF Answers
    <2>2. shown' \in [Tiles -> Selections] /\ \A t \in Tiles \ DOMAIN grid : shown'[t] = Nowhere
        BY <1>1, <2>1, ShownFacts
    <2> QED
        BY <1>1, <2>2, QuietTypes
<1>4. ControlTypes' /\ ServerTypes'
    BY <1>1 DEF ControlTypes, ServerTypes, layerVars, serverVars
<1>5. Greeted'
    <2>1. /\ \A i \in 1..Len(down') : down'[i].kind # "updateLayers"
          /\ \A i \in 1..Len(down') : down'[i].kind = "updateWorldsAndDims" => ~worlds'
        BY <1>1, <1>2 DEF Greeted
    <2>2. \A i, j \in 1..Len(down') :
             down'[i].kind = "updateWorldsAndDims" /\ down'[j].kind = "updateWorldsAndDims" => i = j
        <3> SUFFICES ASSUME NEW i \in 1..Len(down'), NEW j \in 1..Len(down'),
                            down'[i].kind = "updateWorldsAndDims",
                            down'[j].kind = "updateWorldsAndDims"
                     PROVE  i = j
            OBVIOUS
        <3>1. i + 1 = j + 1
            BY <1>2 DEF Greeted
        <3> QED
            BY <3>1
    <2> QED
        BY <1>1, <1>2, <2>1, <2>2 DEF Greeted, layerVars
<1> QED
    BY <1>3, <1>4, <1>5, VPartsNext

\* A tile gets ready, or its frame comes for a tile that is gone.
LEMMA TileReadyFacts ==
    ASSUME VInv, NEW t \in Tiles, TileReady(t)
    PROVE  /\ frames[t] > 0 /\ frames' = [frames EXCEPT ![t] = @ - 1]
           /\ frames' \in [Tiles -> Nat] /\ \A u \in Tiles : frames'[u] <= frames[u]
           /\ DOMAIN grid' = DOMAIN grid
           /\ \A u \in DOMAIN grid :
                 /\ grid'[u] \in Tile /\ grid'[u].current = grid[u].current
                 /\ u # t => grid'[u] = grid[u]
           /\ t \in DOMAIN grid => grid'[t].ready # "no"
           /\ UNCHANGED <<pageVars, layer, noPrune, up, down, serverVars>>
           /\ \/ Loaded
              \/ UNCHANGED <<loading, indicator, hasty, timers>>
           /\ t \in DOMAIN grid /\ (\A u \in DOMAIN grid \ {t} : grid[u].ready # "no") => Loaded
           /\ fading' \in BOOLEAN
<1> USE GridFacts
<1>1. frames[t] > 0 /\ frames' = [frames EXCEPT ![t] = @ - 1]
      /\ UNCHANGED <<pageVars, layer, noPrune, up, down, serverVars>>
    BY DEF TileReady
<1>2. frames' \in [Tiles -> Nat] /\ \A u \in Tiles : frames'[u] <= frames[u]
    BY <1>1
<1>3. CASE t \in DOMAIN grid
    <2>1. grid' = [grid EXCEPT ![t].ready = IF @ = "no" THEN "loaded" ELSE @] /\ fading' = TRUE
        BY <1>3 DEF TileReady
    <2>2. grid[t] \in Tile
        BY <1>3
    <2>3. grid'[t] = [grid[t] EXCEPT !.ready = IF @ = "no" THEN "loaded" ELSE @]
        BY <1>3, <2>1
    <2>4. grid'[t] \in Tile /\ grid'[t].current = grid[t].current /\ grid'[t].ready # "no"
        BY <2>2, <2>3 DEF Tile
    <2>5. DOMAIN grid' = DOMAIN grid /\ \A u \in DOMAIN grid : u # t => grid'[u] = grid[u]
        BY <2>1
    <2>6. \A u \in DOMAIN grid :
             grid'[u] \in Tile /\ grid'[u].current = grid[u].current /\ (u # t => grid'[u] = grid[u])
        BY <2>4, <2>5
    <2>7. IF \A u \in DOMAIN grid \ {t} : grid[u].ready # "no"
          THEN Loaded ELSE UNCHANGED <<loading, indicator, hasty, timers>>
        BY <1>3 DEF TileReady
    <2> QED
        BY <1>1, <1>2, <2>1, <2>4, <2>5, <2>6, <2>7
<1>4. CASE t \notin DOMAIN grid
    <2>1. UNCHANGED <<grid, fading, loading, indicator, hasty, timers>>
        BY <1>4 DEF TileReady
    <2> QED
        BY <1>1, <1>2, <1>4, <2>1
<1> QED
    BY <1>3, <1>4

LEMMA TileReadyVInv ==
    ASSUME VInv, NEW t \in Tiles, TileReady(t)
    PROVE  VInv'
<1> USE VParts
<1>1. LayerTypes' /\ timers' \in Nat /\ indicator' \in BOOLEAN
    <2>1. loading' \in BOOLEAN /\ hasty' \in BOOLEAN /\ indicator' \in BOOLEAN /\ timers' \in Nat
        <3>1. loading \in BOOLEAN /\ hasty \in BOOLEAN /\ indicator \in BOOLEAN /\ timers \in Nat
            BY GridFacts DEF ControlTypes
        <3>2. Loaded \/ UNCHANGED <<loading, indicator, hasty, timers>>
            BY TileReadyFacts
        <3>3. CASE Loaded
            <4>1. loading' = FALSE /\ hasty' = FALSE /\ indicator' = FALSE /\ timers' = timers + 1
                BY <3>3 DEF Loaded
            <4>2. timers' \in Nat
                BY <3>1, <4>1
            <4> QED
                BY <4>1, <4>2
        <3>4. CASE UNCHANGED <<loading, indicator, hasty, timers>>
            BY <3>1, <3>4
        <3> QED
            BY <3>2, <3>3, <3>4
    <2>2. /\ DOMAIN grid' = DOMAIN grid /\ \A u \in DOMAIN grid : grid'[u] \in Tile
          /\ frames' \in [Tiles -> Nat] /\ shown' = shown
        BY TileReadyFacts DEF pageVars
    <2> QED
        BY <2>1, <2>2 DEF LayerTypes
<1>2. ControlTypes' /\ ServerTypes'
    <2>1. fading' \in BOOLEAN /\ UNCHANGED <<pageVars, layer, noPrune, serverVars>>
        BY TileReadyFacts
    <2> QED
        BY <1>1, <2>1 DEF ControlTypes, ServerTypes, pageVars, serverVars
<1>3. /\ UNCHANGED <<view, target, sel, worlds, gestures, layer, up, down>>
      /\ DOMAIN grid' = DOMAIN grid /\ \A u \in DOMAIN grid : grid'[u].current = grid[u].current
      /\ frames' \in [Tiles -> Nat] /\ \A u \in Tiles : frames'[u] <= frames[u]
    BY TileReadyFacts DEF pageVars
<1>4. Greeted' /\ EmptyWhenOff' /\ Animated'
    BY <1>3 DEF Greeted, EmptyWhenOff, Animated, SameZoom
<1>5. Counts'
    <2> SUFFICES ASSUME NEW u \in Tiles
                 PROVE  frames'[u] + Owed(u)' <= gestures' + Added'
        BY DEF Counts
    <2>1. frames[u] \in Nat /\ Owed(u) \in 0..1 /\ gestures \in Nat /\ Added \in 0..1
        BY GridFacts DEF Owed, Added, ControlTypes
    <2>2. frames'[u] \in Nat /\ frames'[u] <= frames[u] /\ Owed(u)' = Owed(u) /\ Added' = Added
        BY <1>3 DEF Owed, Added
    <2>3. frames[u] + Owed(u) <= gestures + Added
        BY DEF Counts
    <2> QED
        BY <1>3, <2>1, <2>2, <2>3
<1> QED
    BY <1>1, <1>2, <1>4, <1>5, VPartsNext

\* What remains when the session has taken a message.
LEMMA HearsFacts ==
    ASSUME VInv, NEW kind, Hears(kind)
    PROVE  /\ up \in Seq(UpMessages) /\ Len(up) \in Nat \ {0}
           /\ up[1] = Head(up) /\ up[1].kind = kind /\ up[1] \in UpMessages
           /\ up' \in Seq(UpMessages) /\ Len(up') = Len(up) - 1
           /\ \A i \in 1..Len(up') : up'[i] = up[i + 1]
           /\ up[1].place \in Selections
           /\ kind # "resubWorldDimension" => up[1].tile \in Tiles
<1>1. /\ up \in Seq(UpMessages) /\ Len(up) \in Nat \ {0}
      /\ up[1] = Head(up) /\ up[1].kind = kind /\ up[1] \in UpMessages
      /\ up' \in Seq(UpMessages) /\ Len(up') = Len(up) - 1
      /\ \A i \in 1..Len(up') : up'[i] = up[i + 1]
    BY GridFacts DEF Hears
<1> QED
    BY <1>1 DEF UpMessages

LEMMA AskForTypes ==
    ASSUME VInv, NEW R, R \subseteq Requests, AskFor(R)
    PROVE  asked' \in [Requests -> Nat] /\ overtaken' \subseteq Tiles
BY VParts DEF AskFor, ServerTypes, Requests

LEMMA HandlerVInv ==
    ASSUME VInv, Handler
    PROVE  VInv'
<1> USE VParts
<1>1. UNCHANGED <<pageVars, layerVars, down>>
    BY DEF Handler, HandleSubscribe, HandleUnsubscribe, HandleResub
<1>2. up' \in Seq(UpMessages) /\ ServerTypes'
    <2>1. CASE HandleSubscribe
        <3> DEFINE r == <<Head(up).place, Head(up).tile>>
        <3>1. r \in Requests /\ up' \in Seq(UpMessages)
            BY <2>1, HearsFacts DEF HandleSubscribe, Requests
        <3>2. subs' = subs \cup {r} /\ AskFor({r})
            BY <2>1 DEF HandleSubscribe
        <3> HIDE DEF r
        <3>3. asked' \in [Requests -> Nat] /\ overtaken' \subseteq Tiles
            BY <3>1, <3>2, AskForTypes
        <3> QED
            BY <3>1, <3>2, <3>3 DEF ServerTypes
    <2>2. CASE HandleUnsubscribe
        BY <2>2, HearsFacts DEF HandleUnsubscribe, ServerTypes
    <2>3. CASE HandleResub
        <3> DEFINE moved == {<<Head(up).place, r[2]>> : r \in subs}
        <3>1. Head(up).place \in Selections /\ up' \in Seq(UpMessages)
            BY <2>3, HearsFacts DEF HandleResub
        <3>2. moved \subseteq Requests
            BY <3>1 DEF ServerTypes, Requests
        <3>3. subs' = moved /\ AskFor(moved)
            BY <2>3 DEF HandleResub
        <3> HIDE DEF moved
        <3>4. asked' \in [Requests -> Nat] /\ overtaken' \subseteq Tiles
            BY <3>2, <3>3, AskForTypes
        <3> QED
            BY <3>1, <3>2, <3>3, <3>4 DEF ServerTypes
    <2> QED
        BY <2>1, <2>2, <2>3 DEF Handler
<1>3. LayerTypes' /\ EmptyWhenOff' /\ Animated' /\ Counts'
    <2>1. UNCHANGED <<layerVars, view, target, shown, gestures>>
        BY <1>1 DEF pageVars
    <2> QED
        BY <2>1, QuietTypes, ShownFacts
<1>4. ControlTypes' /\ Greeted'
    BY <1>1, <1>2 DEF ControlTypes, Greeted, pageVars, layerVars
<1> QED
    BY <1>2, <1>3, <1>4, VPartsNext

\* An answer is put behind the others.
LEMMA AnswerFacts ==
    ASSUME VInv, NEW r \in Requests, Answer(r)
    PROVE  LET m == [kind |-> "tile", place |-> r[1], tile |-> r[2], picture |-> r \in HasPicture]
           IN /\ m \in Answers /\ Len(down) \in Nat
              /\ down' = Append(down, m) /\ down' \in Seq(Greetings \cup Answers)
              /\ Len(down') = Len(down) + 1 /\ down'[Len(down')] = m
              /\ \A i \in 1..Len(down) : down'[i] = down[i]
              /\ asked[r] > 0 /\ asked' = [asked EXCEPT ![r] = @ - 1]
              /\ asked' \in [Requests -> Nat]
<1> DEFINE m == [kind |-> "tile", place |-> r[1], tile |-> r[2], picture |-> r \in HasPicture]
<1>1. m \in Answers
    BY DEF Answers, Requests
<1>2. down' = Append(down, m) /\ down \in Seq(Greetings \cup Answers)
    BY GridFacts DEF Answer
<1>3. asked[r] > 0 /\ asked' = [asked EXCEPT ![r] = @ - 1] /\ asked' \in [Requests -> Nat]
    BY VParts DEF Answer, ServerTypes
<1> HIDE DEF m
<1>4. /\ Len(down) \in Nat /\ down' \in Seq(Greetings \cup Answers)
      /\ Len(down') = Len(down) + 1 /\ down'[Len(down')] = m
      /\ \A i \in 1..Len(down) : down'[i] = down[i]
    BY <1>1, <1>2
<1> QED
    BY <1>1, <1>2, <1>3, <1>4 DEF m

LEMMA AnswerVInv ==
    ASSUME VInv, NEW r \in Requests, Answer(r)
    PROVE  VInv'
<1> USE VParts
<1> DEFINE m == [kind |-> "tile", place |-> r[1], tile |-> r[2], picture |-> r \in HasPicture]
<1>1. /\ down' \in Seq(Greetings \cup Answers) /\ Len(down) \in Nat /\ Len(down') = Len(down) + 1
      /\ \A i \in 1..Len(down) : down'[i] = down[i]
      /\ asked' \in [Requests -> Nat]
    BY AnswerFacts
<1>2. down'[Len(down')] = m
    BY AnswerFacts
<1>3. down'[Len(down')].kind = "tile"
    BY <1>2
<1>4. UNCHANGED <<pageVars, layerVars, up, subs, overtaken>>
    BY DEF Answer
<1>5. \A i \in 1..Len(down') :
         down'[i].kind # "tile" => i \in 1..Len(down) /\ down'[i] = down[i]
    BY <1>1, <1>3
<1>6. Greeted'
    BY <1>1, <1>4, <1>5 DEF Greeted, pageVars, layerVars
<1>7. LayerTypes' /\ EmptyWhenOff' /\ Animated' /\ Counts'
    <2>1. UNCHANGED <<layerVars, view, target, shown, gestures>>
        BY <1>4 DEF pageVars
    <2> QED
        BY <2>1, QuietTypes, ShownFacts
<1>8. ControlTypes' /\ ServerTypes'
    BY <1>1, <1>4 DEF ControlTypes, ServerTypes, pageVars, layerVars
<1> QED
    BY <1>6, <1>7, <1>8, VPartsNext

LEMMA StillVInv ==
    ASSUME VInv, UNCHANGED vars
    PROVE  VInv'
<1>1. UNCHANGED <<pageVars, layerVars, up, down, serverVars>>
    BY DEF vars
<1>2. LayerTypes' /\ EmptyWhenOff' /\ Animated' /\ Counts'
    BY <1>1, QuietTypes, ShownFacts DEF pageVars
<1>3. ControlTypes' /\ ServerTypes' /\ Greeted'
    BY <1>1, VParts DEF ControlTypes, ServerTypes, Greeted, pageVars, layerVars, serverVars
<1> QED
    BY <1>2, <1>3, VPartsNext

\* VInv is inductive.
LEMMA NextVInv ==
    ASSUME VInv, [Next]_vars
    PROVE  VInv'
<1>1. CASE LayerAction
    BY <1>1, LayerActionStep, LayerStepVInv
<1> QED
    BY <1>1, Steps, SelectVInv, ShowWorldsVInv, DrawVInv, HandlerVInv, TileReadyVInv, AnswerVInv,
       StillVInv

\* Every variable keeps its type in every behaviour.
LEMMA Typed == Spec => []VInv
BY InitVInv, NextVInv, PTL DEF Spec

-----------------------------------------------------------------------------
(* The indicator *)

LEMMA InitAwaited == Init => Awaited
BY DEF Init, Awaited

\* A created tile has a frame due; a dropped one leaves its frame behind.
LEMMA LayerAwaited ==
    ASSUME VInv, Awaited, NEW d, NEW c, LayerStep(d, c)
    PROVE  Awaited'
<1> USE GridFacts
<1>1. Reshaped(d, c) /\ (indicator' => indicator \/ c # {})
    BY DEF LayerStep
<1>2. \A t \in DOMAIN grid' : grid'[t].ready = "no" => frames'[t] > 0
    <2> SUFFICES ASSUME NEW t \in DOMAIN grid', grid'[t].ready = "no"
                 PROVE  frames'[t] > 0
        OBVIOUS
    <2>1. t \in Tiles /\ frames[t] \in Nat
        BY <1>1 DEF Reshaped
    <2>2. CASE t \in c
        BY <1>1, <2>1, <2>2 DEF Reshaped
    <2>3. CASE t \notin c
        <3>1. t \in DOMAIN grid \ (d \cup c)
            BY <1>1, <2>3 DEF Reshaped
        <3>2. grid[t].ready = "no" /\ frames'[t] = frames[t]
            BY <1>1, <2>1, <2>3, <3>1 DEF Reshaped
        <3> QED
            BY <3>1, <3>2 DEF Awaited
    <2> QED
        BY <2>2, <2>3
<1>3. loading' => hasty' \/ \E t \in DOMAIN grid' : grid'[t].ready = "no"
    <2> SUFFICES ASSUME loading'
                 PROVE  hasty' \/ \E t \in DOMAIN grid' : grid'[t].ready = "no"
        OBVIOUS
    <2>1. CASE c # {}
        BY <1>1, <2>1, FreshTile DEF Reshaped
    <2>2. CASE hasty
        BY <1>1, <2>2 DEF Reshaped
    <2>3. CASE c = {} /\ ~hasty
        <3>1. PICK t \in DOMAIN grid : grid[t].ready = "no"
            BY <1>1, <2>3 DEF Reshaped, Awaited
        <3>2. CASE t \in d
            BY <1>1, <3>1, <3>2 DEF Reshaped, HastyDrop
        <3>3. CASE t \notin d
            BY <1>1, <2>3, <3>1, <3>3 DEF Reshaped
        <3> QED
            BY <3>2, <3>3
    <2> QED
        BY <2>1, <2>2, <2>3
<1>4. indicator' => loading'
    BY <1>1 DEF Reshaped, Awaited
<1> QED
    BY <1>2, <1>3, <1>4 DEF Awaited

\* The last tile that gets ready ends the loading.
LEMMA TileReadyAwaited ==
    ASSUME VInv, Awaited, NEW t \in Tiles, TileReady(t)
    PROVE  Awaited'
<1> USE GridFacts
<1>1. /\ frames' = [frames EXCEPT ![t] = @ - 1] /\ DOMAIN grid' = DOMAIN grid
      /\ \A u \in DOMAIN grid : u # t => grid'[u] = grid[u]
      /\ t \in DOMAIN grid => grid'[t].ready # "no"
      /\ Loaded \/ UNCHANGED <<loading, indicator, hasty, timers>>
      /\ t \in DOMAIN grid /\ (\A u \in DOMAIN grid \ {t} : grid[u].ready # "no") => Loaded
    BY TileReadyFacts
<1>2. \A u \in DOMAIN grid' : grid'[u].ready = "no" => frames'[u] > 0
    BY <1>1 DEF Awaited
<1>3. CASE Loaded
    BY <1>2, <1>3 DEF Awaited, Loaded
<1>4. CASE UNCHANGED <<loading, indicator, hasty, timers>> /\ ~Loaded
    <2>1. loading => hasty \/ \E u \in DOMAIN grid' : grid'[u].ready = "no"
        <3> SUFFICES ASSUME loading, ~hasty
                     PROVE  \E u \in DOMAIN grid' : grid'[u].ready = "no"
            OBVIOUS
        <3>1. PICK x \in DOMAIN grid : grid[x].ready = "no"
            BY DEF Awaited
        <3>2. \E u \in DOMAIN grid : u # t /\ grid[u].ready = "no"
            BY <1>1, <1>4, <3>1
        <3> QED
            BY <1>1, <3>2
    <2> QED
        BY <1>2, <1>4, <2>1 DEF Awaited
<1> QED
    BY <1>1, <1>3, <1>4

LEMMA NextAwaited ==
    ASSUME VInv, Awaited, [Next]_vars
    PROVE  Awaited'
<1>1. CASE LayerAction
    BY <1>1, LayerActionStep, LayerAwaited
<1>2. CASE \E t \in Tiles : TileReady(t)
    BY <1>2, TileReadyAwaited
<1>3. CASE \/ Select \/ ShowWorlds \/ Draw \/ Handler \/ UNCHANGED vars
           \/ \E r \in Requests : Answer(r)
    <2>1. UNCHANGED layerVars
        BY <1>3 DEF Select, ShowWorlds, Draw, Handler, HandleSubscribe, HandleUnsubscribe,
           HandleResub, Answer, vars
    <2> QED
        BY <2>1 DEF Awaited, layerVars
<1> QED
    BY <1>1, <1>2, <1>3, Steps

\* The loading indicator of the page (Control.Loading.js:106, fed by the loading
\* and load events of leaflet-src.js:11808 and 11982) is off when no tile is
\* waited for, unless a tile was dropped before it was ready since the last load
\* event: _removeTile (leaflet-src.js:11876) fires none.
THEOREM IndicatorFollowsLoading == Spec => []IndicatorOffWhenReady
<1>1. VInv /\ Awaited => IndicatorOffWhenReady
    <2> SUFFICES ASSUME VInv, Awaited, indicator, \A t \in Tiles : frames[t] = 0
                 PROVE  hasty
        BY DEF IndicatorOffWhenReady
    <2>1. \A t \in DOMAIN grid : grid[t].ready # "no"
        BY GridFacts DEF Awaited
    <2> QED
        BY <2>1 DEF Awaited
<1>2. Spec => []Awaited
    BY Typed, InitAwaited, NextAwaited, PTL DEF Spec
<1> QED
    BY Typed, <1>1, <1>2, PTL

-----------------------------------------------------------------------------
(* The subscriptions *)

\* What the session is subscribed to after the messages it has heard: tiles, all
\* at one place.
Snapshots == [place : Selections, tiles : SUBSET Tiles]
Held(s) == {<<s.place, t>> : t \in s.tiles}

\* The message m leads from a to b.
Moved(m, a, b) ==
    \/ m.kind = "tileSubscribe" /\ m.place = a.place /\ b.place = a.place
       /\ b.tiles = a.tiles \cup {m.tile}
    \/ m.kind = "tileUnsubscribe" /\ m.place = a.place /\ b.place = a.place
       /\ b.tiles = a.tiles \ {m.tile}
    \/ m.kind = "resubWorldDimension" /\ b.place = m.place /\ b.tiles = a.tiles

\* The messages u on their way lead from the subscriptions S to T at p.
Leads(S, u, p, T) ==
    \E h \in [1..Len(u) + 1 -> Snapshots] :
        /\ S = Held(h[1]) /\ h[Len(u) + 1].place = p /\ h[Len(u) + 1].tiles = T
        /\ \A i \in 1..Len(u) : Moved(u[i], h[i], h[i + 1])

Followable == Leads(subs, up, sel, DOMAIN grid)

\* Messages that are sent come after those already on their way.
LEMMA SentAfter ==
    ASSUME NEW a \in Seq(UpMessages), NEW b \in Seq(UpMessages)
    PROVE  /\ Len(a) \in Nat /\ Len(b) \in Nat /\ Len(a \o b) = Len(a) + Len(b)
           /\ \A i \in 1..Len(a) : (a \o b)[i] = a[i]
           /\ \A k \in 1..Len(b) : (a \o b)[Len(a) + k] = b[k]
OBVIOUS

\* Subscriptions lead on to the tiles they name: one snapshot per message.
LEMMA LeadsBySubscriptions ==
    ASSUME sel \in Selections, NEW S, NEW u \in Seq(UpMessages), NEW T \in SUBSET Tiles,
           NEW C \in SUBSET Tiles, IsFiniteSet(C), Leads(S, u, sel, T)
    PROVE  Leads(S, u \o Subscriptions(C), sel, T \cup C)
<1> DEFINE s == SetToSeq(C)
           n == Len(s)
           w == u \o Subscriptions(C)
<1>1. PICK h \in [1..Len(u) + 1 -> Snapshots] :
         /\ S = Held(h[1]) /\ h[Len(u) + 1].place = sel /\ h[Len(u) + 1].tiles = T
         /\ \A i \in 1..Len(u) : Moved(u[i], h[i], h[i + 1])
    BY DEF Leads
<1>2. /\ Subscriptions(C) \in Seq(UpMessages) /\ Len(Subscriptions(C)) = n
      /\ \A i \in 1..n : s[i] \in C /\ Subscriptions(C)[i] = Subscribe(s[i])
      /\ \A t \in C : \E i \in 1..n : s[i] = t
    BY SubscriptionList
<1> HIDE DEF s, n
<1>3. n \in Nat /\ Len(u) \in Nat /\ Len(w) = Len(u) + n
    BY <1>2, SentAfter, Zenon
<1>4. /\ \A i \in 1..Len(u) : w[i] = u[i]
      /\ \A k \in 1..n : w[Len(u) + k] = Subscribe(s[k])
    BY <1>2, SentAfter, Zenon
<1> HIDE DEF w
<1> DEFINE heard(k) == T \cup {s[j] : j \in 1..k}
           g == [i \in 1..Len(w) + 1 |->
                    IF i <= Len(u) + 1 THEN h[i]
                    ELSE [place |-> sel, tiles |-> heard(i - Len(u) - 1)]]
<1>5. \A k \in 0..n : heard(k) \in SUBSET Tiles
    BY <1>2
<1>6. heard(0) = T /\ heard(n) = T \cup C /\ \A k \in 1..n : heard(k) = heard(k - 1) \cup {s[k]}
    <2>1. heard(0) = T
        OBVIOUS
    <2>2. heard(n) = T \cup C
        BY <1>2
    <2>3. ASSUME NEW k \in 1..n PROVE heard(k) = heard(k - 1) \cup {s[k]}
        <3>1. 1..k = 1..(k - 1) \cup {k}
            BY <1>3
        <3> QED
            BY <3>1
    <2> QED
        BY <2>1, <2>2, <2>3
<1> HIDE DEF heard
<1>7. g \in [1..Len(w) + 1 -> Snapshots]
    <2> SUFFICES ASSUME NEW i \in 1..Len(w) + 1
                 PROVE  g[i] \in Snapshots
        OBVIOUS
    <2>1. CASE i <= Len(u) + 1
        BY <1>3, <2>1
    <2>2. CASE ~(i <= Len(u) + 1)
        <3>1. i - Len(u) - 1 \in 0..n
            BY <1>3, <2>2
        <3> QED
            BY <1>5, <2>2, <3>1 DEF Snapshots
    <2> QED
        BY <2>1, <2>2
<1>8. \A k \in 0..n : g[Len(u) + 1 + k].place = sel /\ g[Len(u) + 1 + k].tiles = heard(k)
    <2> SUFFICES ASSUME NEW k \in 0..n
                 PROVE  g[Len(u) + 1 + k].place = sel /\ g[Len(u) + 1 + k].tiles = heard(k)
        OBVIOUS
    <2>1. Len(u) + 1 + k \in 1..Len(w) + 1
        BY <1>3
    <2>2. CASE k = 0
        <3>1. g[Len(u) + 1 + k] = h[Len(u) + 1]
            BY <1>3, <2>1, <2>2
        <3> QED
            BY <1>1, <1>6, <2>2, <3>1
    <2>3. CASE k # 0
        <3>1. g[Len(u) + 1 + k] = [place |-> sel, tiles |-> heard(Len(u) + 1 + k - Len(u) - 1)]
            BY <1>3, <2>1, <2>3
        <3>2. Len(u) + 1 + k - Len(u) - 1 = k
            BY <1>3
        <3> QED
            BY <3>1, <3>2
    <2> QED
        BY <2>2, <2>3
<1>9. \A i \in 1..Len(u) + 1 : g[i] = h[i]
    BY <1>3
<1> HIDE DEF g
<1>10. \A i \in 1..Len(w) : Moved(w[i], g[i], g[i + 1])
    <2> SUFFICES ASSUME NEW i \in 1..Len(w)
                 PROVE  Moved(w[i], g[i], g[i + 1])
        OBVIOUS
    <2>1. CASE i <= Len(u)
        BY <1>1, <1>3, <1>4, <1>9, <2>1
    <2>2. CASE ~(i <= Len(u))
        <3> DEFINE k == i - Len(u)
        <3>1. k \in 1..n /\ k \in 0..n /\ k - 1 \in 0..n
            BY <1>3, <2>2
        <3>2. i = Len(u) + k /\ i = Len(u) + 1 + (k - 1) /\ i + 1 = Len(u) + 1 + k
            BY <1>3
        <3> HIDE DEF k
        <3>3. w[i] = Subscribe(s[k])
            BY <1>4, <3>1, <3>2
        <3>4. /\ g[i].place = sel /\ g[i].tiles = heard(k - 1)
              /\ g[i + 1].place = sel /\ g[i + 1].tiles = heard(k)
            BY <1>8, <3>1, <3>2
        <3> QED
            BY <1>6, <3>1, <3>3, <3>4 DEF Moved, Subscribe
    <2> QED
        BY <2>1, <2>2
<1>11. S = Held(g[1]) /\ g[Len(w) + 1].place = sel /\ g[Len(w) + 1].tiles = T \cup C
    <2>1. g[1] = h[1]
        BY <1>3, <1>9
    <2>2. Len(w) + 1 = Len(u) + 1 + n /\ n \in 0..n
        BY <1>3
    <2> QED
        BY <1>1, <1>6, <1>8, <2>1, <2>2
<1> QED
    BY <1>7, <1>10, <1>11 DEF Leads, w

\* So do unsubscriptions, away from theirs.
LEMMA LeadsByUnsubscriptions ==
    ASSUME sel \in Selections, NEW S, NEW u \in Seq(UpMessages), NEW T \in SUBSET Tiles,
           NEW C \in SUBSET Tiles, IsFiniteSet(C), Leads(S, u, sel, T)
    PROVE  Leads(S, u \o Unsubscriptions(C), sel, T \ C)
<1> DEFINE s == SetToSeq(C)
           n == Len(s)
           w == u \o Unsubscriptions(C)
<1>1. PICK h \in [1..Len(u) + 1 -> Snapshots] :
         /\ S = Held(h[1]) /\ h[Len(u) + 1].place = sel /\ h[Len(u) + 1].tiles = T
         /\ \A i \in 1..Len(u) : Moved(u[i], h[i], h[i + 1])
    BY DEF Leads
<1>2. /\ Unsubscriptions(C) \in Seq(UpMessages) /\ Len(Unsubscriptions(C)) = n
      /\ \A i \in 1..n : s[i] \in C /\ Unsubscriptions(C)[i] = Unsubscribe(s[i])
      /\ \A t \in C : \E i \in 1..n : s[i] = t
    BY SubscriptionList
<1> HIDE DEF s, n
<1>3. n \in Nat /\ Len(u) \in Nat /\ Len(w) = Len(u) + n
    BY <1>2, SentAfter, Zenon
<1>4. /\ \A i \in 1..Len(u) : w[i] = u[i]
      /\ \A k \in 1..n : w[Len(u) + k] = Unsubscribe(s[k])
    BY <1>2, SentAfter, Zenon
<1> HIDE DEF w
<1> DEFINE heard(k) == T \ {s[j] : j \in 1..k}
           g == [i \in 1..Len(w) + 1 |->
                    IF i <= Len(u) + 1 THEN h[i]
                    ELSE [place |-> sel, tiles |-> heard(i - Len(u) - 1)]]
<1>5. \A k \in 0..n : heard(k) \in SUBSET Tiles
    BY <1>2
<1>6. heard(0) = T /\ heard(n) = T \ C /\ \A k \in 1..n : heard(k) = heard(k - 1) \ {s[k]}
    <2>1. heard(0) = T
        OBVIOUS
    <2>2. heard(n) = T \ C
        BY <1>2
    <2>3. ASSUME NEW k \in 1..n PROVE heard(k) = heard(k - 1) \ {s[k]}
        <3>1. 1..k = 1..(k - 1) \cup {k}
            BY <1>3
        <3> QED
            BY <3>1
    <2> QED
        BY <2>1, <2>2, <2>3
<1> HIDE DEF heard
<1>7. g \in [1..Len(w) + 1 -> Snapshots]
    <2> SUFFICES ASSUME NEW i \in 1..Len(w) + 1
                 PROVE  g[i] \in Snapshots
        OBVIOUS
    <2>1. CASE i <= Len(u) + 1
        BY <1>3, <2>1
    <2>2. CASE ~(i <= Len(u) + 1)
        <3>1. i - Len(u) - 1 \in 0..n
            BY <1>3, <2>2
        <3> QED
            BY <1>5, <2>2, <3>1 DEF Snapshots
    <2> QED
        BY <2>1, <2>2
<1>8. \A k \in 0..n : g[Len(u) + 1 + k].place = sel /\ g[Len(u) + 1 + k].tiles = heard(k)
    <2> SUFFICES ASSUME NEW k \in 0..n
                 PROVE  g[Len(u) + 1 + k].place = sel /\ g[Len(u) + 1 + k].tiles = heard(k)
        OBVIOUS
    <2>1. Len(u) + 1 + k \in 1..Len(w) + 1
        BY <1>3
    <2>2. CASE k = 0
        <3>1. g[Len(u) + 1 + k] = h[Len(u) + 1]
            BY <1>3, <2>1, <2>2
        <3> QED
            BY <1>1, <1>6, <2>2, <3>1
    <2>3. CASE k # 0
        <3>1. g[Len(u) + 1 + k] = [place |-> sel, tiles |-> heard(Len(u) + 1 + k - Len(u) - 1)]
            BY <1>3, <2>1, <2>3
        <3>2. Len(u) + 1 + k - Len(u) - 1 = k
            BY <1>3
        <3> QED
            BY <3>1, <3>2
    <2> QED
        BY <2>2, <2>3
<1>9. \A i \in 1..Len(u) + 1 : g[i] = h[i]
    BY <1>3
<1> HIDE DEF g
<1>10. \A i \in 1..Len(w) : Moved(w[i], g[i], g[i + 1])
    <2> SUFFICES ASSUME NEW i \in 1..Len(w)
                 PROVE  Moved(w[i], g[i], g[i + 1])
        OBVIOUS
    <2>1. CASE i <= Len(u)
        BY <1>1, <1>3, <1>4, <1>9, <2>1
    <2>2. CASE ~(i <= Len(u))
        <3> DEFINE k == i - Len(u)
        <3>1. k \in 1..n /\ k \in 0..n /\ k - 1 \in 0..n
            BY <1>3, <2>2
        <3>2. i = Len(u) + k /\ i = Len(u) + 1 + (k - 1) /\ i + 1 = Len(u) + 1 + k
            BY <1>3
        <3> HIDE DEF k
        <3>3. w[i] = Unsubscribe(s[k])
            BY <1>4, <3>1, <3>2
        <3>4. /\ g[i].place = sel /\ g[i].tiles = heard(k - 1)
              /\ g[i + 1].place = sel /\ g[i + 1].tiles = heard(k)
            BY <1>8, <3>1, <3>2
        <3> QED
            BY <1>6, <3>1, <3>3, <3>4 DEF Moved, Unsubscribe
    <2> QED
        BY <2>1, <2>2
<1>11. S = Held(g[1]) /\ g[Len(w) + 1].place = sel /\ g[Len(w) + 1].tiles = T \ C
    <2>1. g[1] = h[1]
        BY <1>3, <1>9
    <2>2. Len(w) + 1 = Len(u) + 1 + n /\ n \in 0..n
        BY <1>3
    <2> QED
        BY <1>1, <1>6, <1>8, <2>1, <2>2
<1> QED
    BY <1>7, <1>10, <1>11 DEF Leads, w

\* A selection moves whatever the session will have.
LEMMA LeadsByChoice ==
    ASSUME NEW p \in Selections, NEW q, NEW S, NEW u \in Seq(UpMessages), NEW T \in SUBSET Tiles,
           Leads(S, u, q, T)
    PROVE  Leads(S, Append(u, [kind |-> "resubWorldDimension", place |-> p]), p, T)
<1> DEFINE m == [kind |-> "resubWorldDimension", place |-> p]
           w == Append(u, m)
           s == [place |-> p, tiles |-> T]
<1>1. PICK h \in [1..Len(u) + 1 -> Snapshots] :
         /\ S = Held(h[1]) /\ h[Len(u) + 1].place = q /\ h[Len(u) + 1].tiles = T
         /\ \A i \in 1..Len(u) : Moved(u[i], h[i], h[i + 1])
    BY DEF Leads
<1>2. /\ Len(u) \in Nat /\ Len(w) = Len(u) + 1 /\ w[Len(u) + 1] = m
      /\ \A i \in 1..Len(u) : w[i] = u[i]
    OBVIOUS
<1>3. s \in Snapshots /\ s.place = p /\ s.tiles = T
    BY DEF Snapshots
<1>4. m.kind = "resubWorldDimension" /\ m.place = p
    OBVIOUS
<1> HIDE DEF w, s, m
<1> DEFINE g == [i \in 1..Len(w) + 1 |-> IF i <= Len(u) + 1 THEN h[i] ELSE s]
<1>5. g \in [1..Len(w) + 1 -> Snapshots]
    BY <1>2, <1>3
<1>6. /\ \A i \in 1..Len(u) + 1 : g[i] = h[i]
      /\ g[Len(w) + 1] = s /\ g[Len(u) + 2] = s /\ g[1] = h[1]
    BY <1>2
<1> HIDE DEF g
<1>7. \A i \in 1..Len(w) : Moved(w[i], g[i], g[i + 1])
    <2> SUFFICES ASSUME NEW i \in 1..Len(w)
                 PROVE  Moved(w[i], g[i], g[i + 1])
        OBVIOUS
    <2>1. CASE i <= Len(u)
        BY <1>1, <1>2, <1>6, <2>1
    <2>2. CASE ~(i <= Len(u))
        <3>1. i = Len(u) + 1 /\ i + 1 = Len(u) + 2
            BY <1>2, <2>2
        <3>2. w[i] = m /\ g[i] = h[Len(u) + 1] /\ g[i + 1] = s
            BY <1>2, <1>6, <3>1
        <3> QED
            BY <1>1, <1>3, <1>4, <3>2 DEF Moved
    <2> QED
        BY <2>1, <2>2
<1>8. S = Held(g[1]) /\ g[Len(w) + 1].place = p /\ g[Len(w) + 1].tiles = T
    BY <1>1, <1>3, <1>6
<1> QED
    BY <1>5, <1>7, <1>8 DEF Leads, w, m

\* The session has heard the first message.
LEMMA LeadsOn ==
    ASSUME NEW S, NEW u \in Seq(UpMessages), u # <<>>, NEW p, NEW T, Leads(S, u, p, T)
    PROVE  \E a \in Snapshots, b \in Snapshots :
              S = Held(a) /\ Moved(u[1], a, b) /\ Leads(Held(b), Tail(u), p, T)
<1> DEFINE w == Tail(u)
<1>1. PICK h \in [1..Len(u) + 1 -> Snapshots] :
         /\ S = Held(h[1]) /\ h[Len(u) + 1].place = p /\ h[Len(u) + 1].tiles = T
         /\ \A i \in 1..Len(u) : Moved(u[i], h[i], h[i + 1])
    BY DEF Leads
<1>2. /\ Len(u) \in Nat \ {0} /\ Len(w) = Len(u) - 1
      /\ \A i \in 1..Len(w) : w[i] = u[i + 1]
    OBVIOUS
<1> HIDE DEF w
<1> DEFINE g == [i \in 1..Len(w) + 1 |-> h[i + 1]]
<1>3. g \in [1..Len(w) + 1 -> Snapshots]
    BY <1>2
<1>4. \A i \in 1..Len(w) + 1 : g[i] = h[i + 1]
    OBVIOUS
<1> HIDE DEF g
<1>5. \A i \in 1..Len(w) : Moved(w[i], g[i], g[i + 1])
    <2> SUFFICES ASSUME NEW i \in 1..Len(w)
                 PROVE  Moved(w[i], g[i], g[i + 1])
        OBVIOUS
    <2>1. i + 1 \in 1..Len(u) /\ g[i] = h[i + 1] /\ g[i + 1] = h[i + 1 + 1] /\ w[i] = u[i + 1]
        BY <1>2, <1>4
    <2> QED
        BY <1>1, <2>1
<1>6. g[1] = h[2] /\ g[Len(w) + 1].place = p /\ g[Len(w) + 1].tiles = T
    <2>1. g[Len(w) + 1] = h[Len(u) + 1] /\ g[1] = h[2]
        BY <1>2, <1>4
    <2> QED
        BY <1>1, <2>1
<1>7. Leads(Held(h[2]), w, p, T)
    BY <1>3, <1>5, <1>6 DEF Leads
<1>8. h[1] \in Snapshots /\ h[2] \in Snapshots /\ Moved(u[1], h[1], h[2])
    BY <1>1, <1>2
<1> QED
    BY <1>1, <1>7, <1>8 DEF w

LEMMA InitFollowable == Init => Followable
<1> SUFFICES ASSUME Init PROVE Followable
    OBVIOUS
<1> DEFINE s == [place |-> sel, tiles |-> {}]
           h == [i \in 1..1 |-> s]
<1>1. s \in Snapshots /\ s.place = sel /\ s.tiles = {}
    BY DEF Init, Nowhere, Selections, Snapshots
<1>2. up = <<>> /\ subs = {} /\ DOMAIN grid = {} /\ Len(up) = 0
    BY DEF Init
<1> HIDE DEF s
<1>3. h \in [1..Len(up) + 1 -> Snapshots] /\ h[1] = s
    BY <1>1, <1>2
<1>4. subs = Held(h[1])
    BY <1>1, <1>2, <1>3 DEF Held
<1> HIDE DEF h
<1>5. h[Len(up) + 1].place = sel /\ h[Len(up) + 1].tiles = DOMAIN grid
    BY <1>1, <1>2, <1>3
<1>6. \A i \in 1..Len(up) : Moved(up[i], h[i], h[i + 1])
    BY <1>2
<1> QED
    BY <1>3, <1>4, <1>5, <1>6 DEF Followable, Leads

\* The layer says exactly what it drops and creates.
LEMMA LayerFollowable ==
    ASSUME VInv, Followable, NEW d, NEW c, LayerStep(d, c)
    PROVE  Followable'
<1> USE GridFacts
<1> DEFINE G == DOMAIN grid
           U == Unsubscriptions(d)
           S == Subscriptions(c)
<1>1. /\ G \in SUBSET Tiles /\ d \in SUBSET Tiles /\ c \in SUBSET Tiles
      /\ IsFiniteSet(c) /\ IsFiniteSet(d)
      /\ DOMAIN grid' = (G \ d) \cup c
    BY FS_Subset DEF LayerStep, Reshaped
<1>2. sel \in Selections /\ up \in Seq(UpMessages) /\ Leads(subs, up, sel, G)
    BY DEF Followable
<1>3. U \in Seq(UpMessages) /\ S \in Seq(UpMessages)
    BY <1>1, <1>2, SubscriptionList
<1>4. up \o U \in Seq(UpMessages) /\ up \o S \in Seq(UpMessages)
    BY <1>2, <1>3, ConcatProperties
<1>5. sel' = sel /\ subs' = subs
    BY DEF LayerStep, serverVars
<1> HIDE DEF G
<1>6. CASE up' = (up \o Unsubscriptions(d)) \o Subscriptions(c)
    <2>1. Leads(subs, up \o U, sel, G \ d)
        BY <1>1, <1>2, LeadsByUnsubscriptions
    <2>2. G \ d \in SUBSET Tiles
        BY <1>1
    <2>3. Leads(subs, (up \o U) \o S, sel, (G \ d) \cup c)
        BY <1>1, <1>2, <1>4, <2>1, <2>2, LeadsBySubscriptions
    <2> QED
        BY <1>1, <1>5, <1>6, <2>3 DEF Followable
<1>7. CASE c \cap d = {} /\ up' = (up \o Subscriptions(c)) \o Unsubscriptions(d)
    <2>1. Leads(subs, up \o S, sel, G \cup c)
        BY <1>1, <1>2, LeadsBySubscriptions
    <2>2. G \cup c \in SUBSET Tiles
        BY <1>1
    <2>3. Leads(subs, (up \o S) \o U, sel, (G \cup c) \ d)
        BY <1>1, <1>2, <1>4, <2>1, <2>2, LeadsByUnsubscriptions
    <2>4. (G \cup c) \ d = (G \ d) \cup c
        BY <1>7
    <2> QED
        BY <1>1, <1>5, <1>7, <2>3, <2>4 DEF Followable
<1> QED
    BY <1>6, <1>7 DEF LayerStep, Tells

\* A selection says exactly what is selected.
LEMMA ChoiceFollowable ==
    ASSUME VInv, Followable, NEW p \in Selections, Choose(p), UNCHANGED <<subs, grid>>
    PROVE  Followable'
<1>1. up' = Append(up, [kind |-> "resubWorldDimension", place |-> p]) /\ sel' = p
    BY Choosing
<1>2. Leads(subs, up, sel, DOMAIN grid) /\ up \in Seq(UpMessages) /\ DOMAIN grid \in SUBSET Tiles
    BY GridFacts DEF Followable
<1>3. Leads(subs, Append(up, [kind |-> "resubWorldDimension", place |-> p]), p, DOMAIN grid)
    BY <1>2, LeadsByChoice
<1> QED
    BY <1>1, <1>3 DEF Followable

\* The session does what the message says.
LEMMA HandlerFollowable ==
    ASSUME VInv, Followable, Handler
    PROVE  Followable'
<1>1. up # <<>> /\ up' = Tail(up) /\ up \in Seq(UpMessages) /\ Head(up) = up[1]
    BY GridFacts DEF Handler, HandleSubscribe, HandleUnsubscribe, HandleResub, Hears
<1>2. UNCHANGED <<sel, grid>>
    BY DEF Handler, HandleSubscribe, HandleUnsubscribe, HandleResub, pageVars, layerVars
<1>3. PICK a \in Snapshots, b \in Snapshots :
         subs = Held(a) /\ Moved(up[1], a, b) /\ Leads(Held(b), up', sel, DOMAIN grid)
    BY <1>1, LeadsOn DEF Followable
<1>4. subs' = Held(b)
    <2>1. CASE HandleSubscribe
        <3>1. up[1].kind = "tileSubscribe" /\ subs' = subs \cup {<<up[1].place, up[1].tile>>}
            BY <1>1, <2>1 DEF HandleSubscribe, Hears
        <3>2. up[1].place = a.place /\ b.place = a.place /\ b.tiles = a.tiles \cup {up[1].tile}
            BY <1>3, <3>1 DEF Moved
        <3> QED
            BY <1>3, <3>1, <3>2 DEF Held
    <2>2. CASE HandleUnsubscribe
        <3>1. up[1].kind = "tileUnsubscribe" /\ subs' = subs \ {<<up[1].place, up[1].tile>>}
            BY <1>1, <2>2 DEF HandleUnsubscribe, Hears
        <3>2. up[1].place = a.place /\ b.place = a.place /\ b.tiles = a.tiles \ {up[1].tile}
            BY <1>3, <3>1 DEF Moved
        <3> QED
            BY <1>3, <3>1, <3>2 DEF Held
    <2>3. CASE HandleResub
        <3>1. up[1].kind = "resubWorldDimension" /\ subs' = {<<up[1].place, r[2]>> : r \in subs}
            BY <1>1, <2>3 DEF HandleResub, Hears
        <3>2. b.place = up[1].place /\ b.tiles = a.tiles
            BY <1>3, <3>1 DEF Moved
        <3>3. ASSUME NEW t \in a.tiles
              PROVE  <<up[1].place, t>> \in subs'
            <4>1. <<a.place, t>> \in subs /\ <<a.place, t>>[2] = t
                BY <1>3 DEF Held
            <4> QED
                BY <3>1, <4>1
        <3>4. ASSUME NEW r \in subs
              PROVE  r[2] \in a.tiles
            BY <1>3 DEF Held
        <3> QED
            BY <3>1, <3>2, <3>3, <3>4 DEF Held
    <2> QED
        BY <2>1, <2>2, <2>3 DEF Handler
<1> QED
    BY <1>2, <1>3, <1>4 DEF Followable

\* Followable is inductive with VInv.
LEMMA NextFollowable ==
    ASSUME VInv, Followable, [Next]_vars
    PROVE  Followable'
<1>1. CASE LayerAction
    BY <1>1, LayerActionStep, LayerFollowable
<1>2. CASE Select
    <2>1. UNCHANGED <<subs, grid>>
        BY <1>2 DEF Select, layerVars, serverVars
    <2> QED
        BY <1>2, <2>1, SelectFacts, ChoiceFollowable
<1>3. CASE ShowWorlds
    <2>1. UNCHANGED <<subs, grid>>
        BY <1>3 DEF ShowWorlds, layerVars, serverVars
    <2>2. CASE \E p \in Places : Choose(p)
        <3>1. Places \subseteq Selections
            BY DEF Places, Selections
        <3> QED
            BY <2>1, <2>2, <3>1, ChoiceFollowable
    <2>3. CASE sel' = [sel EXCEPT !.world = Blank] /\ UNCHANGED up
        <3>1. down[1].kind = "updateWorldsAndDims" /\ 1 \in 1..Len(down)
            BY <1>3, ArrivesFacts DEF ShowWorlds
        <3>2. sel = Nowhere
            BY <3>1 DEF VInv, Greeted
        <3>3. sel' = sel
            BY <2>3, <3>2 DEF Nowhere
        <3> QED
            BY <2>1, <2>3, <3>3 DEF Followable
    <2> QED
        BY <1>3, <2>2, <2>3 DEF ShowWorlds
<1>4. CASE Handler
    BY <1>4, HandlerFollowable
<1>5. CASE \E t \in Tiles : TileReady(t)
    <2>1. UNCHANGED <<subs, up, sel>> /\ DOMAIN grid' = DOMAIN grid
        BY <1>5, TileReadyFacts DEF pageVars, serverVars
    <2> QED
        BY <2>1 DEF Followable
<1>6. CASE Draw \/ (\E r \in Requests : Answer(r)) \/ UNCHANGED vars
    <2>1. UNCHANGED <<subs, up, sel, grid>>
        BY <1>6 DEF Draw, Answer, vars, pageVars, layerVars, serverVars
    <2> QED
        BY <2>1 DEF Followable
<1> QED
    BY <1>1, <1>2, <1>3, <1>4, <1>5, <1>6, Steps

\* The messages under way always lead to the page's tiles and selection.
LEMMA Following == Spec => []Followable
BY Typed, InitFollowable, NextFollowable, PTL DEF Spec

\* The variables keep their types, and once the session has heard everything the
\* page said (createTile and handleUnload, view.gohtml:204 and 227, and the
\* selectors, view.gohtml:370), it is subscribed to exactly the tiles the layer
\* has, at the selected place.
THEOREM SessionFollowsPage == Spec => []SubscriptionsFollowView
<1>1. VInv /\ Followable => SubscriptionsFollowView
    <2> SUFFICES ASSUME VInv, Followable
                 PROVE  SubscriptionsFollowView
        OBVIOUS
    <2>1. ASSUME up = <<>>
          PROVE  subs = {<<sel, t>> : t \in DOMAIN grid}
        <3>1. Len(up) = 0
            BY <2>1
        <3> QED
            BY <3>1 DEF Followable, Leads, Held
    <2> QED
        BY <2>1 DEF VInv, SubscriptionsFollowView
<1> QED
    BY Typed, Following, <1>1, PTL

-----------------------------------------------------------------------------
(* Who is subscribed to is in the layer, or the session will hear otherwise *)

\* The elements of a sequence that is put together of two.
LEMMA TwoParts ==
    ASSUME NEW u \in Seq(UpMessages), NEW a \in Seq(UpMessages), NEW w, w = u \o a
    PROVE  /\ w \in Seq(UpMessages) /\ Len(w) = Len(u) + Len(a)
           /\ Len(u) \in Nat /\ Len(a) \in Nat
           /\ \A i \in 1..Len(u) : w[i] = u[i]
           /\ \A i \in 1..Len(a) : w[Len(u) + i] = a[i]
<1>1. w \in Seq(UpMessages) /\ Len(w) = Len(u) + Len(a) /\ Len(u) \in Nat /\ Len(a) \in Nat
    BY ConcatProperties
<1>2. \A i \in 1..Len(u) : w[i] = u[i]
    BY <1>1
<1>3. ASSUME NEW i \in 1..Len(a) PROVE w[Len(u) + i] = a[i]
    BY <1>1
<1> QED
    BY <1>1, <1>2, <1>3

\* w is u, a and b.
Joined(u, a, b, w) ==
    /\ Len(w) = Len(u) + Len(a) + Len(b)
    /\ \A i \in 1..Len(u) : w[i] = u[i]
    /\ \A i \in 1..Len(a) : w[Len(u) + i] = a[i]
    /\ \A i \in 1..Len(b) : w[Len(u) + Len(a) + i] = b[i]

\* And of three.
LEMMA ThreeParts ==
    ASSUME NEW u \in Seq(UpMessages), NEW a \in Seq(UpMessages), NEW b \in Seq(UpMessages),
           NEW w, w = (u \o a) \o b
    PROVE  Joined(u, a, b, w)
<1>1. PICK v : v = u \o a
    OBVIOUS
<1>2. /\ v \in Seq(UpMessages) /\ Len(v) = Len(u) + Len(a) /\ Len(u) \in Nat /\ Len(a) \in Nat
      /\ \A i \in 1..Len(u) : v[i] = u[i]
      /\ \A i \in 1..Len(a) : v[Len(u) + i] = a[i]
    BY <1>1, TwoParts
<1>3. /\ Len(w) = Len(v) + Len(b) /\ Len(b) \in Nat
      /\ \A i \in 1..Len(v) : w[i] = v[i]
      /\ \A i \in 1..Len(b) : w[Len(v) + i] = b[i]
    BY <1>1, <1>2, TwoParts
<1>4. ASSUME NEW i \in 1..Len(a) PROVE w[Len(u) + i] = a[i]
    <2>1. Len(u) + i \in 1..Len(v)
        BY <1>2
    <2> QED
        BY <1>2, <1>3, <2>1
<1>5. ASSUME NEW i \in 1..Len(u) PROVE w[i] = u[i]
    <2>1. i \in 1..Len(v)
        BY <1>2
    <2> QED
        BY <1>2, <1>3, <2>1
<1> QED
    BY <1>2, <1>3, <1>4, <1>5 DEF Joined

\* The messages of a LayerStep come last; only created tiles are subscribed to.
LEMMA TellsFacts ==
    ASSUME VInv, NEW d, NEW c, LayerStep(d, c)
    PROVE  /\ Len(up) \in Nat /\ Len(up') \in Nat /\ Len(up) <= Len(up')
           /\ \A i \in 1..Len(up) : up'[i] = up[i]
           /\ \A i \in Len(up) + 1..Len(up') : up'[i].kind = "tileSubscribe" => up'[i].tile \in c
           /\ \A t \in d : \E j \in Len(up) + 1..Len(up') : IsFor(up'[j], "tileUnsubscribe", t)
<1> DEFINE U == Unsubscriptions(d)
           S == Subscriptions(c)
           n == Len(SetToSeq(d))
           k == Len(SetToSeq(c))
<1>1. /\ d \in SUBSET Tiles /\ c \in SUBSET Tiles /\ IsFiniteSet(c) /\ IsFiniteSet(d)
      /\ sel \in Selections /\ up \in Seq(UpMessages) /\ Len(up) \in Nat
    BY GridFacts, FS_Subset DEF LayerStep, Reshaped
<1>2. /\ U \in Seq(UpMessages) /\ Len(U) = n /\ n \in Nat
      /\ \A i \in 1..n : U[i].kind = "tileUnsubscribe"
      /\ \A t \in d : \E i \in 1..n : U[i].tile = t
    <2>1. /\ U \in Seq(UpMessages) /\ Len(U) = n
          /\ \A i \in 1..n : U[i] = Unsubscribe(SetToSeq(d)[i])
          /\ \A t \in d : \E i \in 1..n : SetToSeq(d)[i] = t
        BY <1>1, SubscriptionList
    <2>2. n \in Nat
        BY <2>1
    <2> HIDE DEF U, S, n, k
    <2> QED
        BY <2>1, <2>2 DEF Unsubscribe
<1>3. /\ S \in Seq(UpMessages) /\ Len(S) = k /\ k \in Nat
      /\ \A i \in 1..k : S[i].tile \in c
    <2>1. /\ S \in Seq(UpMessages) /\ Len(S) = k
          /\ \A i \in 1..k : SetToSeq(c)[i] \in c /\ S[i] = Subscribe(SetToSeq(c)[i])
        BY <1>1, SubscriptionList
    <2>2. k \in Nat
        BY <2>1
    <2> HIDE DEF U, S, n, k
    <2> QED
        BY <2>1, <2>2 DEF Subscribe
<1>4. up' = (up \o U) \o S \/ up' = (up \o S) \o U
    BY DEF LayerStep, Tells
<1> HIDE DEF U, S, n, k
<1>5. CASE up' = (up \o U) \o S
    <2>1. /\ Len(up') = Len(up) + n + k
          /\ \A i \in 1..Len(up) : up'[i] = up[i]
          /\ \A i \in 1..n : up'[Len(up) + i] = U[i]
          /\ \A i \in 1..k : up'[Len(up) + n + i] = S[i]
        <3>1. /\ up \in Seq(UpMessages) /\ U \in Seq(UpMessages) /\ S \in Seq(UpMessages)
              /\ Len(U) = n /\ Len(S) = k
            BY <1>1, <1>2, <1>3
        <3>2. Joined(up, U, S, up')
            BY <1>5, <3>1, ThreeParts
        <3> QED
            BY <3>1, <3>2 DEF Joined
    <2>2. \A t \in d : \E j \in Len(up) + 1..Len(up') : IsFor(up'[j], "tileUnsubscribe", t)
        <3> SUFFICES ASSUME NEW t \in d
                     PROVE  \E j \in Len(up) + 1..Len(up') : IsFor(up'[j], "tileUnsubscribe", t)
            OBVIOUS
        <3>1. PICK i \in 1..n : U[i].tile = t
            BY <1>2
        <3>2. Len(up) + i \in Len(up) + 1..Len(up')
            BY <1>1, <1>2, <1>3, <2>1
        <3> QED
            BY <1>2, <2>1, <3>1, <3>2 DEF IsFor
    <2>3. ASSUME NEW i \in Len(up) + 1..Len(up'), up'[i].kind = "tileSubscribe"
          PROVE  up'[i].tile \in c
        <3>1. CASE i <= Len(up) + n
            <4>1. i - Len(up) \in 1..n /\ i = Len(up) + (i - Len(up))
                BY <1>1, <1>2, <1>3, <2>1, <3>1
            <4>2. up'[i] = U[i - Len(up)]
                BY <2>1, <4>1
            <4> QED
                BY <1>2, <2>3, <4>1, <4>2
        <3>2. CASE ~(i <= Len(up) + n)
            <4>1. i - Len(up) - n \in 1..k /\ i = Len(up) + n + (i - Len(up) - n)
                BY <1>1, <1>2, <1>3, <2>1, <3>2
            <4>2. up'[i] = S[i - Len(up) - n]
                BY <2>1, <4>1
            <4> QED
                BY <1>3, <4>1, <4>2
        <3> QED
            BY <3>1, <3>2
    <2>4. Len(up') \in Nat /\ Len(up) <= Len(up')
        BY <1>1, <1>2, <1>3, <2>1
    <2> QED
        BY <1>1, <2>1, <2>2, <2>3, <2>4
<1>6. CASE up' = (up \o S) \o U
    <2>1. /\ Len(up') = Len(up) + k + n
          /\ \A i \in 1..Len(up) : up'[i] = up[i]
          /\ \A i \in 1..k : up'[Len(up) + i] = S[i]
          /\ \A i \in 1..n : up'[Len(up) + k + i] = U[i]
        <3>1. /\ up \in Seq(UpMessages) /\ S \in Seq(UpMessages) /\ U \in Seq(UpMessages)
              /\ Len(S) = k /\ Len(U) = n
            BY <1>1, <1>2, <1>3
        <3>2. Joined(up, S, U, up')
            BY <1>6, <3>1, ThreeParts
        <3> QED
            BY <3>1, <3>2 DEF Joined
    <2>2. \A t \in d : \E j \in Len(up) + 1..Len(up') : IsFor(up'[j], "tileUnsubscribe", t)
        <3> SUFFICES ASSUME NEW t \in d
                     PROVE  \E j \in Len(up) + 1..Len(up') : IsFor(up'[j], "tileUnsubscribe", t)
            OBVIOUS
        <3>1. PICK i \in 1..n : U[i].tile = t
            BY <1>2
        <3>2. Len(up) + k + i \in Len(up) + 1..Len(up')
            BY <1>1, <1>2, <1>3, <2>1
        <3> QED
            BY <1>2, <2>1, <3>1, <3>2 DEF IsFor
    <2>3. ASSUME NEW i \in Len(up) + 1..Len(up'), up'[i].kind = "tileSubscribe"
          PROVE  up'[i].tile \in c
        <3>1. CASE i <= Len(up) + k
            <4>1. i - Len(up) \in 1..k /\ i = Len(up) + (i - Len(up))
                BY <1>1, <1>2, <1>3, <2>1, <3>1
            <4>2. up'[i] = S[i - Len(up)]
                BY <2>1, <4>1
            <4> QED
                BY <1>3, <4>1, <4>2
        <3>2. CASE ~(i <= Len(up) + k)
            <4>1. i - Len(up) - k \in 1..n /\ i = Len(up) + k + (i - Len(up) - k)
                BY <1>1, <1>2, <1>3, <2>1, <3>2
            <4>2. up'[i] = U[i - Len(up) - k]
                BY <2>1, <4>1
            <4> QED
                BY <1>2, <2>3, <4>1, <4>2
        <3> QED
            BY <3>1, <3>2
    <2>4. Len(up') \in Nat /\ Len(up) <= Len(up')
        BY <1>1, <1>2, <1>3, <2>1
    <2> QED
        BY <1>1, <2>1, <2>2, <2>3, <2>4
<1> QED
    BY <1>4, <1>5, <1>6

\* The page says more.
Longer ==
    /\ Len(up) \in Nat /\ Len(up') \in Nat /\ Len(up) <= Len(up')
    /\ \A i \in 1..Len(up) : up'[i] = up[i]

LEMMA LeavesLater ==
    ASSUME Longer, NEW t, Leaves(t)
    PROVE  Leaves(t)'
<1>1. PICK i \in 1..Len(up) : IsFor(up[i], "tileUnsubscribe", t)
    BY DEF Leaves
<1>2. i \in 1..Len(up') /\ up'[i] = up[i]
    BY <1>1 DEF Longer
<1> QED
    BY <1>1, <1>2 DEF Leaves, IsFor

\* Followed survives a step that only says more.
LEMMA FollowedLater ==
    ASSUME Followed, Longer, UNCHANGED subs,
           \A t \in DOMAIN grid : t \in DOMAIN grid'
              \/ \E j \in Len(up) + 1..Len(up') : IsFor(up'[j], "tileUnsubscribe", t),
           \A i \in Len(up) + 1..Len(up') :
              up'[i].kind = "tileSubscribe" => up'[i].tile \in DOMAIN grid'
    PROVE  Followed'
<1>1. ASSUME NEW r \in subs
      PROVE  r[2] \in DOMAIN grid' \/ Leaves(r[2])'
    <2>1. CASE Leaves(r[2])
        BY <2>1, LeavesLater
    <2>2. CASE r[2] \in DOMAIN grid /\ r[2] \notin DOMAIN grid'
        <3>1. PICK j \in Len(up) + 1..Len(up') : IsFor(up'[j], "tileUnsubscribe", r[2])
            BY <2>2
        <3>2. j \in 1..Len(up')
            BY DEF Longer
        <3> QED
            BY <3>1, <3>2 DEF Leaves, IsFor
    <2> QED
        BY <2>1, <2>2 DEF Followed
<1>2. ASSUME NEW i \in 1..Len(up'), NEW t \in Tiles, IsFor(up'[i], "tileSubscribe", t)
      PROVE  t \in DOMAIN grid' \/ \E j \in i + 1..Len(up') : IsFor(up'[j], "tileUnsubscribe", t)
    <2>1. CASE i \in 1..Len(up)
        <3>1. IsFor(up[i], "tileSubscribe", t)
            BY <1>2, <2>1 DEF Longer
        <3>2. CASE t \in DOMAIN grid /\ t \notin DOMAIN grid'
            <4>1. PICK j \in Len(up) + 1..Len(up') : IsFor(up'[j], "tileUnsubscribe", t)
                BY <3>2
            <4>2. j \in i + 1..Len(up')
                BY <2>1 DEF Longer
            <4> QED
                BY <4>1, <4>2
        <3>3. CASE \E j \in i + 1..Len(up) : IsFor(up[j], "tileUnsubscribe", t)
            <4>1. PICK j \in i + 1..Len(up) : IsFor(up[j], "tileUnsubscribe", t)
                BY <3>3
            <4>2. j \in i + 1..Len(up') /\ j \in 1..Len(up)
                BY <2>1 DEF Longer
            <4> QED
                BY <4>1, <4>2 DEF Longer
        <3> QED
            BY <2>1, <3>1, <3>2, <3>3 DEF Followed
    <2>2. CASE i \notin 1..Len(up)
        <3>1. i \in Len(up) + 1..Len(up')
            BY <2>2 DEF Longer
        <3> QED
            BY <1>2, <3>1 DEF IsFor
    <2> QED
        BY <2>1, <2>2
<1> QED
    BY <1>1, <1>2 DEF Followed, IsFor

LEMMA ChoiceLonger ==
    ASSUME VInv, NEW p \in Selections, Choose(p)
    PROVE  /\ Longer
           /\ \A i \in Len(up) + 1..Len(up') : up'[i].kind # "tileSubscribe"
<1> DEFINE m == [kind |-> "resubWorldDimension", place |-> p]
<1>1. up' = Append(up, m) /\ up \in Seq(UpMessages) /\ m.kind # "tileSubscribe"
    BY Choosing, GridFacts
<1> HIDE DEF m
<1>2. /\ Len(up) \in Nat /\ Len(up') = Len(up) + 1 /\ up'[Len(up) + 1] = m
      /\ \A i \in 1..Len(up) : up'[i] = up[i]
    BY <1>1
<1>3. \A i \in Len(up) + 1..Len(up') : i = Len(up) + 1
    BY <1>2
<1> QED
    BY <1>1, <1>2, <1>3 DEF Longer

LEMMA ShowWorldsLonger ==
    ASSUME VInv, ShowWorlds
    PROVE  /\ Longer
           /\ \A i \in Len(up) + 1..Len(up') : up'[i].kind # "tileSubscribe"
<1>1. CASE \E p \in Places : Choose(p)
    <2>1. Places \subseteq Selections
        BY DEF Places, Selections
    <2> QED
        BY <1>1, <2>1, ChoiceLonger
<1>2. CASE up' = up
    <2>1. Len(up) \in Nat
        BY GridFacts
    <2> QED
        BY <1>2, <2>1 DEF Longer
<1> QED
    BY <1>1, <1>2, ShowWorldsFacts

\* What is said of a tile names the place of the subscriptions.
LEMMA SamePlace ==
    ASSUME VInv, Followable, up # <<>>, up[1].kind # "resubWorldDimension"
    PROVE  \A r \in subs : r[1] = up[1].place
<1>1. up \in Seq(UpMessages)
    BY GridFacts
<1>2. PICK a \in Snapshots, b \in Snapshots : subs = Held(a) /\ Moved(up[1], a, b)
    BY <1>1, LeadsOn DEF Followable
<1> QED
    BY <1>2 DEF Held, Moved

\* The session hears of another tile, or of another place.
LEMMA HearsLeaves ==
    ASSUME VInv, NEW kind, Hears(kind), NEW t, Leaves(t),
           ~(kind = "tileUnsubscribe" /\ t = up[1].tile)
    PROVE  Leaves(t)'
<1>1. PICK i \in 1..Len(up) : IsFor(up[i], "tileUnsubscribe", t)
    BY DEF Leaves
<1>2. i # 1
    BY <1>1, HearsFacts DEF IsFor
<1>3. i - 1 \in 1..Len(up') /\ up'[i - 1] = up[i]
    BY <1>2, HearsFacts
<1> QED
    BY <1>1, <1>3 DEF Leaves, IsFor

\* What follows a message still does when the first one has been heard.
LEMMA HearsFollowed ==
    ASSUME VInv, Followed, NEW kind, Hears(kind), UNCHANGED grid
    PROVE  \A i \in 1..Len(up'), t \in Tiles :
              IsFor(up'[i], "tileSubscribe", t) =>
                 t \in DOMAIN grid'
                 \/ \E j \in i + 1..Len(up') : IsFor(up'[j], "tileUnsubscribe", t)
<1> SUFFICES ASSUME NEW i \in 1..Len(up'), NEW t \in Tiles, IsFor(up'[i], "tileSubscribe", t),
                    t \notin DOMAIN grid
             PROVE  \E j \in i + 1..Len(up') : IsFor(up'[j], "tileUnsubscribe", t)
    BY DEF IsFor
<1>1. i + 1 \in 1..Len(up) /\ IsFor(up[i + 1], "tileSubscribe", t)
    BY HearsFacts DEF IsFor
<1>2. PICK j \in (i + 1) + 1..Len(up) : IsFor(up[j], "tileUnsubscribe", t)
    BY <1>1 DEF Followed
<1>3. j - 1 \in i + 1..Len(up') /\ j - 1 \in 1..Len(up') /\ up'[j - 1] = up[j]
    BY HearsFacts
<1> QED
    BY <1>2, <1>3 DEF IsFor

\* A tile that leaves, and is dropped for it, is not subscribed to any more.
LEMMA HandlerFollowed ==
    ASSUME VInv, Followable, Followed, Handler
    PROVE  Followed'
<1> USE DEF IsFor
<1>1. UNCHANGED grid
    BY DEF Handler, HandleSubscribe, HandleUnsubscribe, HandleResub, layerVars
<1>2. ASSUME \A r \in subs' : r[2] \in DOMAIN grid' \/ Leaves(r[2])',
             NEW kind, Hears(kind)
      PROVE  Followed'
    BY <1>1, <1>2, HearsFollowed DEF Followed
<1>3. CASE HandleSubscribe
    <2>1. Hears("tileSubscribe")
        BY <1>3 DEF HandleSubscribe
    <2>2. /\ 1 \in 1..Len(up) /\ up[1].kind = "tileSubscribe" /\ up[1].tile \in Tiles
          /\ Head(up) = up[1]
        BY <2>1, HearsFacts
    <2>3. subs' = subs \cup {<<up[1].place, up[1].tile>>}
        BY <1>3, <2>2 DEF HandleSubscribe
    <2>4. up[1].tile \in DOMAIN grid \/ Leaves(up[1].tile)
        <3>1. up[1].tile \in DOMAIN grid
              \/ \E j \in 1 + 1..Len(up) : IsFor(up[j], "tileUnsubscribe", up[1].tile)
            BY <2>2 DEF Followed
        <3>2. \A j \in 1 + 1..Len(up) : j \in 1..Len(up)
            OBVIOUS
        <3> QED
            BY <3>1, <3>2 DEF Leaves
    <2>5. ASSUME NEW r \in subs'
          PROVE  r[2] \in DOMAIN grid' \/ Leaves(r[2])'
        <3>1. r[2] \in DOMAIN grid \/ Leaves(r[2])
            BY <2>3, <2>4 DEF Followed
        <3> QED
            BY <1>1, <2>1, <3>1, HearsLeaves
    <2> QED
        BY <1>2, <2>1, <2>5
<1>4. CASE HandleUnsubscribe
    <2>1. Hears("tileUnsubscribe") /\ up # <<>>
        BY <1>4 DEF HandleUnsubscribe, Hears
    <2>2. up[1].kind = "tileUnsubscribe" /\ Head(up) = up[1]
        BY <2>1, HearsFacts
    <2>3. subs' = subs \ {<<up[1].place, up[1].tile>>}
        BY <1>4, <2>2 DEF HandleUnsubscribe
    <2>5. ASSUME NEW r \in subs'
          PROVE  r[2] \in DOMAIN grid' \/ Leaves(r[2])'
        <3>1. r \in subs /\ r[1] = up[1].place /\ r = <<r[1], r[2]>>
            BY <2>1, <2>2, <2>3, SamePlace, VParts DEF ServerTypes, Requests
        <3>2. r[2] # up[1].tile
            BY <2>3, <3>1
        <3>3. r[2] \in DOMAIN grid \/ Leaves(r[2])
            BY <3>1 DEF Followed
        <3> QED
            BY <1>1, <2>1, <3>2, <3>3, HearsLeaves
    <2> QED
        BY <1>2, <2>1, <2>5
<1>5. CASE HandleResub
    <2>1. Hears("resubWorldDimension")
        BY <1>5 DEF HandleResub
    <2>2. subs' = {<<Head(up).place, r[2]>> : r \in subs}
        BY <1>5 DEF HandleResub
    <2>5. ASSUME NEW r \in subs'
          PROVE  r[2] \in DOMAIN grid' \/ Leaves(r[2])'
        <3>1. PICK q \in subs : r[2] = q[2]
            BY <2>2
        <3>2. r[2] \in DOMAIN grid \/ Leaves(r[2])
            BY <3>1 DEF Followed
        <3> QED
            BY <1>1, <2>1, <3>2, HearsLeaves
    <2> QED
        BY <1>2, <2>1, <2>5
<1> QED
    BY <1>3, <1>4, <1>5 DEF Handler

\* Followed is inductive with VInv and Followable.
LEMMA NextFollowed ==
    ASSUME VInv, Followable, Followed, [Next]_vars
    PROVE  Followed'
<1>1. CASE LayerAction
    <2>1. PICK d, c : LayerStep(d, c)
        BY <1>1, LayerActionStep
    <2>2. Longer
        BY <2>1, TellsFacts DEF Longer
    <2>3. UNCHANGED subs /\ DOMAIN grid' = (DOMAIN grid \ d) \cup c
        BY <2>1 DEF LayerStep, Reshaped, serverVars
    <2>4. \A t \in DOMAIN grid : t \in DOMAIN grid'
             \/ \E j \in Len(up) + 1..Len(up') : IsFor(up'[j], "tileUnsubscribe", t)
        BY <2>1, <2>3, TellsFacts
    <2>5. \A i \in Len(up) + 1..Len(up') :
             up'[i].kind = "tileSubscribe" => up'[i].tile \in DOMAIN grid'
        BY <2>1, <2>3, TellsFacts
    <2> QED
        BY <2>2, <2>3, <2>4, <2>5, FollowedLater
<1>2. CASE Select
    <2>1. UNCHANGED <<subs, grid>>
        BY <1>2 DEF Select, layerVars, serverVars
    <2> QED
        BY <1>2, <2>1, SelectFacts, ChoiceLonger, FollowedLater
<1>3. CASE ShowWorlds
    <2>1. UNCHANGED <<subs, grid>>
        BY <1>3 DEF ShowWorlds, layerVars, serverVars
    <2> QED
        BY <1>3, <2>1, ShowWorldsLonger, FollowedLater
<1>4. CASE Handler
    BY <1>4, HandlerFollowed
<1>5. CASE \E t \in Tiles : TileReady(t)
    <2>1. UNCHANGED <<subs, up>> /\ DOMAIN grid' = DOMAIN grid
        BY <1>5, TileReadyFacts DEF serverVars
    <2> QED
        BY <2>1 DEF Followed, Leaves, IsFor
<1>6. CASE Draw \/ (\E r \in Requests : Answer(r)) \/ UNCHANGED vars
    <2>1. UNCHANGED <<subs, up, grid>>
        BY <1>6 DEF Draw, Answer, vars, layerVars, serverVars
    <2> QED
        BY <2>1 DEF Followed, Leaves, IsFor
<1> QED
    BY <1>1, <1>2, <1>3, <1>4, <1>5, <1>6, Steps

-----------------------------------------------------------------------------
(* The answers *)

\* An answer has a picture if there is one of its place and tile.
Truthful ==
    \A i \in 1..Len(down) :
        down[i].kind = "tile" =>
            (down[i].picture <=> <<down[i].place, down[i].tile>> \in HasPicture)

LEMMA Messages ==
    ASSUME VInv
    PROVE  down \in Seq(Greetings \cup Answers) /\ Len(down) \in Nat
BY GridFacts

\* A message arrives that is no answer, or none does.
LEMMA DueSame ==
    ASSUME VInv, UNCHANGED asked,
           down' = down \/ Arrives("updateLayers") \/ Arrives("updateWorldsAndDims")
    PROVE  \A p, t : Due(p, t)' <=> Due(p, t)
<1> SUFFICES ASSUME NEW p, NEW t
             PROVE  Due(p, t)' <=> Due(p, t)
    OBVIOUS
<1>1. CASE down' = down
    BY <1>1 DEF Due
<1>2. ASSUME NEW kind, kind # "tile", Arrives(kind)
      PROVE  Due(p, t)' <=> Due(p, t)
    <2>1. /\ Len(down) \in Nat \ {0} /\ Len(down') = Len(down) - 1 /\ down[1].kind # "tile"
          /\ \A i \in 1..Len(down') : down'[i] = down[i + 1]
        BY <1>2, ArrivesFacts
    <2> DEFINE Fits(m) == m.kind = "tile" /\ m.place = p /\ m.tile = t
    <2>2. (\E i \in 1..Len(down') : Fits(down'[i])) => \E i \in 1..Len(down) : Fits(down[i])
        <3> SUFFICES ASSUME NEW i \in 1..Len(down'), Fits(down'[i])
                     PROVE  \E j \in 1..Len(down) : Fits(down[j])
            OBVIOUS
        <3>1. i + 1 \in 1..Len(down) /\ down'[i] = down[i + 1]
            BY <2>1
        <3> QED
            BY <3>1
    <2>3. (\E i \in 1..Len(down) : Fits(down[i])) => \E i \in 1..Len(down') : Fits(down'[i])
        <3> SUFFICES ASSUME NEW i \in 1..Len(down), Fits(down[i])
                     PROVE  \E j \in 1..Len(down') : Fits(down'[j])
            OBVIOUS
        <3>1. i # 1
            BY <2>1
        <3>2. i - 1 \in 1..Len(down') /\ down'[i - 1] = down[i]
            BY <2>1, <3>1
        <3> QED
            BY <3>2
    <2> QED
        BY <2>2, <2>3 DEF Due
<1> QED
    BY <1>1, <1>2

LEMMA TruthfulSame ==
    ASSUME VInv, Truthful, NEW kind, down' = down \/ Arrives(kind)
    PROVE  Truthful'
<1>1. CASE down' = down
    BY <1>1 DEF Truthful
<1>2. CASE Arrives(kind)
    <2>1. \A i \in 1..Len(down') : i + 1 \in 1..Len(down) /\ down'[i] = down[i + 1]
        BY <1>2, ArrivesFacts
    <2> QED
        BY <2>1 DEF Truthful
<1> QED
    BY <1>1, <1>2

\* Nothing is asked, nothing is answered; what was shown is, or the tile leaves.
LEMMA AnsweredSame ==
    ASSUME VInv, Answered, UNCHANGED <<subs, asked, overtaken>>,
           \A p, t : Due(p, t)' <=> Due(p, t),
           \A r \in subs : shown'[r[2]] = shown[r[2]] \/ Leaves(r[2])',
           \A t : Leaves(t) => Leaves(t)'
    PROVE  Answered'
BY DEF Answered

\* A tile that is dropped, or created anew, leaves first.
LEMMA LayerAnswered ==
    ASSUME VInv, Followed, Answered, NEW d, NEW c, LayerStep(d, c)
    PROVE  Answered'
<1>1. Longer
    BY TellsFacts DEF Longer
<1>2. UNCHANGED <<subs, asked, overtaken>>
    BY DEF LayerStep, serverVars
<1>3. \A p, t : Due(p, t)' <=> Due(p, t)
    BY <1>2, DueSame DEF LayerStep
<1>4. \A t : Leaves(t) => Leaves(t)'
    BY <1>1, LeavesLater
<1>5. ASSUME NEW r \in subs
      PROVE  shown'[r[2]] = shown[r[2]] \/ Leaves(r[2])'
    <2>1. r[2] \in Tiles
        BY VParts DEF ServerTypes, Requests
    <2>2. CASE r[2] \in d
        <3>1. PICK j \in Len(up) + 1..Len(up') : IsFor(up'[j], "tileUnsubscribe", r[2])
            BY <2>2, TellsFacts
        <3>2. j \in 1..Len(up')
            BY <1>1 DEF Longer
        <3> QED
            BY <3>1, <3>2 DEF Leaves, IsFor
    <2>3. CASE r[2] \in c /\ r[2] \notin d
        <3>1. r[2] \notin DOMAIN grid
            BY <2>3 DEF LayerStep, Reshaped
        <3> QED
            BY <1>4, <3>1 DEF Followed
    <2>4. CASE r[2] \notin c \cup d
        BY <2>1, <2>4 DEF LayerStep, Reshaped
    <2> QED
        BY <2>2, <2>3, <2>4
<1> QED
    BY <1>2, <1>3, <1>4, <1>5, AnsweredSame

\* An answer that is drawn is for the place its tile is subscribed at.
LEMMA DrawAnswered ==
    ASSUME VInv, Followed, Truthful, Answered, Draw
    PROVE  Answered'
<1> DEFINE m == down[1]
<1>1. /\ Arrives("tile") /\ UNCHANGED <<subs, asked, overtaken, up>>
      /\ shown' = IF m.picture /\ m.tile \in DOMAIN grid
                  THEN [shown EXCEPT ![m.tile] = m.place] ELSE shown
    BY ArrivesFacts DEF Draw, serverVars
<1>2. /\ Len(down) \in Nat \ {0} /\ Len(down') = Len(down) - 1 /\ m.kind = "tile"
      /\ \A i \in 1..Len(down') : down'[i] = down[i + 1]
    BY <1>1, ArrivesFacts
<1>3. m.picture <=> <<m.place, m.tile>> \in HasPicture
    BY <1>2 DEF Truthful
<1>0. 1 \in 1..Len(down) /\ down[1] = m
    BY <1>2
<1> HIDE DEF m
<1>4. Due(m.place, m.tile)
    BY <1>0, <1>2, Zenon DEF Due
<1>5. ASSUME NEW p, NEW t, Due(p, t)'
      PROVE  Due(p, t)
    <2>1. CASE asked'[p, t] > 0
        BY <1>1, <2>1 DEF Due
    <2>2. CASE \E i \in 1..Len(down') :
                  down'[i].kind = "tile" /\ down'[i].place = p /\ down'[i].tile = t
        <3>1. PICK i \in 1..Len(down') :
                 down'[i].kind = "tile" /\ down'[i].place = p /\ down'[i].tile = t
            BY <2>2
        <3>2. i + 1 \in 1..Len(down) /\ down'[i] = down[i + 1]
            BY <1>2
        <3> QED
            BY <3>1, <3>2 DEF Due
    <2> QED
        BY <1>5, <2>1, <2>2 DEF Due
<1>6. ASSUME NEW p, NEW t, Due(p, t), ~(p = m.place /\ t = m.tile)
      PROVE  Due(p, t)'
    <2>1. CASE asked[p, t] > 0
        BY <1>1, <2>1 DEF Due
    <2>2. CASE \E i \in 1..Len(down) :
                  down[i].kind = "tile" /\ down[i].place = p /\ down[i].tile = t
        <3>1. PICK i \in 1..Len(down) :
                 down[i].kind = "tile" /\ down[i].place = p /\ down[i].tile = t
            BY <2>2
        <3>2. i # 1
            BY <1>6, <3>1 DEF m
        <3>3. i - 1 \in 1..Len(down') /\ down'[i - 1] = down[i]
            BY <1>2, <3>2
        <3> QED
            BY <3>1, <3>3 DEF Due
    <2> QED
        BY <1>6, <2>1, <2>2 DEF Due
<1>7. \A t : Leaves(t)' <=> Leaves(t)
    BY <1>1 DEF Leaves, IsFor
<1> SUFFICES ASSUME NEW r \in subs, r[1] \in Places, r[2] \notin overtaken
             PROVE  /\ \A p \in Places \ {r[1]} : ~Due(p, r[2])'
                    /\ r \in HasPicture =>
                          shown'[r[2]] = r[1] \/ Due(r[1], r[2])' \/ Leaves(r[2])'
    BY <1>1 DEF Answered
<1>8. /\ \A p \in Places \ {r[1]} : ~Due(p, r[2])
      /\ r \in HasPicture => shown[r[2]] = r[1] \/ Due(r[1], r[2]) \/ Leaves(r[2])
    BY DEF Answered
<1>9. \A p \in Places \ {r[1]} : ~Due(p, r[2])'
    BY <1>5, <1>8
<1>10. r[2] \in Tiles /\ r = <<r[1], r[2]>> /\ shown \in [Tiles -> Selections]
    BY VParts, GridFacts DEF ServerTypes, Requests
<1>11. ASSUME r \in HasPicture
       PROVE  shown'[r[2]] = r[1] \/ Due(r[1], r[2])' \/ Leaves(r[2])'
    <2>1. CASE r[2] = m.tile /\ r[1] = m.place
        <3>1. m.picture
            BY <1>3, <1>10, <1>11, <2>1
        <3>2. CASE r[2] \in DOMAIN grid
            BY <1>1, <1>10, <2>1, <3>1, <3>2
        <3>3. CASE r[2] \notin DOMAIN grid
            BY <1>7, <3>3 DEF Followed
        <3> QED
            BY <3>2, <3>3
    <2>2. CASE r[2] = m.tile /\ r[1] # m.place
        <3>1. m.place \notin Places
            BY <1>4, <1>8, <2>2
        <3>2. ~m.picture
            BY <1>3, <3>1, PicturesOK
        <3>3. shown' = shown
            BY <1>1, <3>2
        <3> QED
            BY <1>6, <1>7, <1>8, <1>11, <2>2, <3>3
    <2>3. CASE r[2] # m.tile
        <3>1. shown'[r[2]] = shown[r[2]]
            BY <1>1, <1>10, <2>3
        <3> QED
            BY <1>6, <1>7, <1>8, <1>11, <2>3, <3>1
    <2> QED
        BY <2>1, <2>2, <2>3
<1> QED
    BY <1>9, <1>11

\* An answer that is due stays due when it is sent.
LEMMA AnswerAnswered ==
    ASSUME VInv, Truthful, Answered, NEW q \in Requests, Answer(q)
    PROVE  Truthful' /\ Answered'
<1> DEFINE m == [kind |-> "tile", place |-> q[1], tile |-> q[2], picture |-> q \in HasPicture]
<1>1. /\ Len(down) \in Nat /\ Len(down') = Len(down) + 1
      /\ \A i \in 1..Len(down) : down'[i] = down[i]
      /\ asked[q] > 0 /\ asked' = [asked EXCEPT ![q] = @ - 1]
    BY AnswerFacts
<1>2. down'[Len(down')] = m
    BY AnswerFacts
<1>3. q = <<q[1], q[2]>> /\ asked \in [Requests -> Nat]
    BY VParts DEF Requests, ServerTypes
<1>4. m.kind = "tile" /\ m.place = q[1] /\ m.tile = q[2] /\ (m.picture <=> q \in HasPicture)
    OBVIOUS
<1> HIDE DEF m
<1>5. Truthful'
    <2> SUFFICES ASSUME NEW i \in 1..Len(down'), down'[i].kind = "tile"
                 PROVE  down'[i].picture <=> <<down'[i].place, down'[i].tile>> \in HasPicture
        BY DEF Truthful
    <2>1. CASE i \in 1..Len(down)
        BY <1>1, <2>1 DEF Truthful
    <2>2. CASE i \notin 1..Len(down)
        <3>1. down'[i] = m
            BY <1>1, <1>2, <2>2
        <3> QED
            BY <1>3, <1>4, <3>1
    <2> QED
        BY <2>1, <2>2
<1>6. Due(q[1], q[2]) /\ Due(q[1], q[2])'
    <2>1. asked[q[1], q[2]] > 0
        BY <1>1, <1>3
    <2>2. Len(down') \in 1..Len(down')
        BY <1>1
    <2> QED
        BY <1>2, <1>4, <2>1, <2>2 DEF Due
<1>7. ASSUME NEW p \in Places, NEW t \in Tiles, <<p, t>> # q
      PROVE  Due(p, t)' <=> Due(p, t)
    <2>1. asked'[<<p, t>>] = asked[<<p, t>>]
        <3>1. <<p, t>> \in Requests
            BY DEF Requests, Places, Selections
        <3> QED
            BY <1>1, <1>3, <1>7, <3>1
    <2>2. \A i \in 1..Len(down') :
             (down'[i].kind = "tile" /\ down'[i].place = p /\ down'[i].tile = t)
             => i \in 1..Len(down)
        <3> SUFFICES ASSUME NEW i \in 1..Len(down'), i \notin 1..Len(down),
                            down'[i].place = p, down'[i].tile = t
                     PROVE  FALSE
            OBVIOUS
        <3>1. i = Len(down')
            BY <1>1
        <3> QED
            BY <1>2, <1>3, <1>4, <1>7, <3>1
    <2>3. \A i \in 1..Len(down) : i \in 1..Len(down') /\ down'[i] = down[i]
        BY <1>1
    <2> QED
        BY <2>1, <2>2, <2>3 DEF Due
<1>8. \A p \in Places, t \in Tiles : Due(p, t)' <=> Due(p, t)
    BY <1>6, <1>7
<1>9. UNCHANGED <<subs, overtaken, shown, up>>
    BY DEF Answer, pageVars
<1>10. \A r \in subs : r[2] \in Tiles
    BY VParts DEF ServerTypes, Requests
<1>11. \A t : Leaves(t)' <=> Leaves(t)
    BY <1>9 DEF Leaves, IsFor
<1>12. Answered'
    <2> SUFFICES ASSUME NEW r \in subs, r[1] \in Places, r[2] \notin overtaken
                 PROVE  /\ \A p \in Places \ {r[1]} : ~Due(p, r[2])'
                        /\ r \in HasPicture =>
                              shown'[r[2]] = r[1] \/ Due(r[1], r[2])' \/ Leaves(r[2])'
        BY <1>9 DEF Answered
    <2>1. /\ \A p \in Places \ {r[1]} : ~Due(p, r[2])
          /\ r \in HasPicture => shown[r[2]] = r[1] \/ Due(r[1], r[2]) \/ Leaves(r[2])
        BY DEF Answered
    <2>2. \A p \in Places \ {r[1]} : ~Due(p, r[2])'
        BY <1>8, <1>10, <2>1
    <2>3. Due(r[1], r[2])' <=> Due(r[1], r[2])
        BY <1>8, <1>10
    <2>4. Leaves(r[2])' <=> Leaves(r[2])
        BY <1>11
    <2>5. shown'[r[2]] = shown[r[2]]
        BY <1>9
    <2> QED
        BY <2>1, <2>2, <2>3, <2>4, <2>5
<1> QED
    BY <1>5, <1>12

\* The session starts a routine for each request of R.
LEMMA AskForFacts ==
    ASSUME VInv, NEW R, R \subseteq Requests, AskFor(R), UNCHANGED down
    PROVE  /\ \A r \in R : r[1] \in Places => Due(r[1], r[2])'
           /\ \A p, t : <<p, t>> \in Requests /\ (<<p, t>> \notin R \/ p \notin Places)
                          => (Due(p, t)' <=> Due(p, t))
           /\ \A r \in R : r[1] \in Places /\ r[2] \notin overtaken' =>
                 \A p \in Places \ {r[1]} : ~Due(p, r[2])
           /\ \A t : (\A r \in R : r[1] \in Places => r[2] # t)
                       => (t \in overtaken' <=> t \in overtaken)
<1>1. asked \in [Requests -> Nat] /\ \A r \in Requests : r = <<r[1], r[2]>>
    BY VParts DEF ServerTypes, Requests
<1> DEFINE started == {r \in R : r[1] \in Places}
           raced   == {r \in started : \E p \in Places \ {r[1]} : Due(p, r[2])}
<1>2. /\ asked' = [r \in Requests |-> IF r \in started THEN asked[r] + 1 ELSE asked[r]]
      /\ overtaken' = (overtaken \ {r[2] : r \in started}) \cup {r[2] : r \in raced}
    BY DEF AskFor
<1>3. ASSUME NEW r \in R, r[1] \in Places
      PROVE  Due(r[1], r[2])'
    <2>1. asked'[r] > 0
        BY <1>1, <1>2, <1>3
    <2>2. asked'[r[1], r[2]] > 0
        BY <1>1, <2>1
    <2> QED
        BY <2>2 DEF Due
<1>4. ASSUME NEW p, NEW t, <<p, t>> \in Requests, <<p, t>> \notin R \/ p \notin Places
      PROVE  Due(p, t)' <=> Due(p, t)
    <2>1. <<p, t>> \notin started
        BY <1>4
    <2>2. asked'[<<p, t>>] = asked[<<p, t>>]
        BY <1>1, <1>2, <1>4, <2>1
    <2> QED
        BY <2>2 DEF Due
<1>5. ASSUME NEW r \in R, r[1] \in Places, r[2] \notin overtaken'
      PROVE  \A p \in Places \ {r[1]} : ~Due(p, r[2])
    <2>1. r \in started
        BY <1>5
    <2>2. r \notin raced
        BY <1>2, <1>5
    <2> QED
        BY <2>1, <2>2
<1>6. ASSUME NEW t, \A r \in R : r[1] \in Places => r[2] # t
      PROVE  t \in overtaken' <=> t \in overtaken
    BY <1>2, <1>6
<1> QED
    BY <1>3, <1>4, <1>5, <1>6

\* A tile that is subscribed to has an answer due.
LEMMA SubscribeAnswered ==
    ASSUME VInv, Followable, Answered, HandleSubscribe
    PROVE  Answered'
<1>0. PICK q : q = <<up[1].place, up[1].tile>>
    OBVIOUS
<1>1. Hears("tileSubscribe") /\ up # <<>>
    BY DEF HandleSubscribe, Hears
<1>2. /\ up[1].kind = "tileSubscribe" /\ up[1].tile \in Tiles /\ up[1].place \in Selections
      /\ Head(up) = up[1]
    BY <1>1, HearsFacts
<1>3. subs' = subs \cup {q} /\ AskFor({q}) /\ UNCHANGED <<down, shown>>
    BY <1>0, <1>2 DEF HandleSubscribe, pageVars
<1>4. q \in Requests /\ q[1] = up[1].place /\ q[2] = up[1].tile
    BY <1>0, <1>2 DEF Requests
<1>5. \A r \in subs : r[1] = q[1] /\ r \in Requests /\ r = <<r[1], r[2]>> /\ r[2] \in Tiles
    BY <1>1, <1>2, <1>4, SamePlace, VParts DEF ServerTypes, Requests
<1>6. \A t : Leaves(t) => Leaves(t)'
    BY <1>1, HearsLeaves
<1>7. q = <<q[1], q[2]>>
    BY <1>0, <1>4
<1>8. {q} \subseteq Requests
    BY <1>4
<1>9. /\ q[1] \in Places => Due(q[1], q[2])'
      /\ \A p, t : <<p, t>> \in Requests /\ (<<p, t>> # q \/ p \notin Places)
                       => (Due(p, t)' <=> Due(p, t))
      /\ q[1] \in Places /\ q[2] \notin overtaken' => \A p \in Places \ {q[1]} : ~Due(p, q[2])
      /\ \A t : (q[1] \in Places => q[2] # t) => (t \in overtaken' <=> t \in overtaken)
    <2>1. PICK R : R = {q}
        OBVIOUS
    <2>2. R \subseteq Requests /\ AskFor(R) /\ UNCHANGED down
        BY <1>3, <1>8, <2>1
    <2>3. /\ \A r \in R : r[1] \in Places => Due(r[1], r[2])'
          /\ \A p, t : <<p, t>> \in Requests /\ (<<p, t>> \notin R \/ p \notin Places)
                         => (Due(p, t)' <=> Due(p, t))
          /\ \A r \in R : r[1] \in Places /\ r[2] \notin overtaken' =>
                \A p \in Places \ {r[1]} : ~Due(p, r[2])
          /\ \A t : (\A r \in R : r[1] \in Places => r[2] # t)
                      => (t \in overtaken' <=> t \in overtaken)
        BY <2>2, AskForFacts
    <2>4. q \in R /\ \A r \in R : r = q
        BY <2>1
    <2>5. q[1] \in Places => Due(q[1], q[2])'
        BY <2>3, <2>4
    <2>6. \A p, t : <<p, t>> \in Requests /\ (<<p, t>> # q \/ p \notin Places)
                       => (Due(p, t)' <=> Due(p, t))
        BY <2>3, <2>4
    <2>7. q[1] \in Places /\ q[2] \notin overtaken' => \A p \in Places \ {q[1]} : ~Due(p, q[2])
        BY <2>3, <2>4
    <2>8. \A t : (q[1] \in Places => q[2] # t) => (t \in overtaken' <=> t \in overtaken)
        BY <2>3, <2>4
    <2> QED
        BY <2>5, <2>6, <2>7, <2>8
<1> SUFFICES ASSUME NEW r \in subs', r[1] \in Places, r[2] \notin overtaken'
             PROVE  /\ \A p \in Places \ {r[1]} : ~Due(p, r[2])'
                    /\ r \in HasPicture =>
                          shown'[r[2]] = r[1] \/ Due(r[1], r[2])' \/ Leaves(r[2])'
    BY DEF Answered
<1>10. r[1] = q[1] /\ r[2] \in Tiles /\ r = <<r[1], r[2]>> /\ r \in Requests
    BY <1>3, <1>4, <1>5, <1>7, <1>2
<1>11. \A p \in Places \ {r[1]} : Due(p, r[2])' <=> Due(p, r[2])
    <2> SUFFICES ASSUME NEW p \in Places \ {r[1]}
                 PROVE  Due(p, r[2])' <=> Due(p, r[2])
        OBVIOUS
    <2>1. <<p, r[2]>> \in Requests /\ <<p, r[2]>> # q
        BY <1>7, <1>10 DEF Requests, Places, Selections
    <2> QED
        BY <1>9, <2>1
<1>12. CASE r[2] = q[2]
    <2>1. r = q
        BY <1>7, <1>10, <1>12
    <2>2. Due(q[1], q[2])' /\ \A p \in Places \ {q[1]} : ~Due(p, q[2])
        BY <1>9, <2>1
    <2> QED
        BY <1>11, <2>1, <2>2
<1>13. CASE r[2] # q[2]
    <2>1. r \in subs /\ r[2] \notin overtaken
        BY <1>3, <1>9, <1>13
    <2>2. Due(r[1], r[2])' <=> Due(r[1], r[2])
        <3>1. <<r[1], r[2]>> \in Requests /\ <<r[1], r[2]>> # q
            BY <1>7, <1>10, <1>13
        <3> QED
            BY <1>9, <3>1
    <2>3. /\ \A p \in Places \ {r[1]} : ~Due(p, r[2])
          /\ r \in HasPicture => shown[r[2]] = r[1] \/ Due(r[1], r[2]) \/ Leaves(r[2])
        BY <2>1 DEF Answered
    <2> QED
        BY <1>3, <1>6, <1>11, <2>2, <2>3
<1> QED
    BY <1>12, <1>13

\* A tile that has left is not subscribed to.
LEMMA UnsubscribeAnswered ==
    ASSUME VInv, Followable, Answered, HandleUnsubscribe
    PROVE  Answered'
<1>1. Hears("tileUnsubscribe") /\ up # <<>>
    BY DEF HandleUnsubscribe, Hears
<1>2. up[1].kind = "tileUnsubscribe" /\ Head(up) = up[1]
    BY <1>1, HearsFacts
<1>3. /\ subs' = subs \ {<<up[1].place, up[1].tile>>}
      /\ UNCHANGED <<down, shown, asked, overtaken>>
    BY <1>2 DEF HandleUnsubscribe, pageVars
<1>4. \A r \in subs : r[1] = up[1].place /\ r = <<r[1], r[2]>>
    BY <1>1, <1>2, SamePlace, VParts DEF ServerTypes, Requests
<1>5. \A p, t : Due(p, t)' <=> Due(p, t)
    BY <1>3, DueSame
<1> SUFFICES ASSUME NEW r \in subs', r[1] \in Places, r[2] \notin overtaken'
             PROVE  /\ \A p \in Places \ {r[1]} : ~Due(p, r[2])'
                    /\ r \in HasPicture =>
                          shown'[r[2]] = r[1] \/ Due(r[1], r[2])' \/ Leaves(r[2])'
    BY DEF Answered
<1>6. r \in subs /\ r[2] # up[1].tile /\ r[2] \notin overtaken
    BY <1>3, <1>4
<1>7. /\ \A p \in Places \ {r[1]} : ~Due(p, r[2])
      /\ r \in HasPicture => shown[r[2]] = r[1] \/ Due(r[1], r[2]) \/ Leaves(r[2])
    BY <1>6 DEF Answered
<1>8. Leaves(r[2]) => Leaves(r[2])'
    BY <1>1, <1>6, HearsLeaves
<1> QED
    BY <1>3, <1>5, <1>7, <1>8

\* Every tile that is moved has an answer due, or was overtaken.
LEMMA ResubAnswered ==
    ASSUME VInv, HandleResub
    PROVE  Answered'
<1> DEFINE moved == {<<up[1].place, r[2]>> : r \in subs}
<1>1. up[1].place \in Selections /\ Head(up) = up[1]
    BY HearsFacts DEF HandleResub
<1>2. subs' = moved /\ AskFor(moved) /\ UNCHANGED <<down, shown>>
    BY <1>1 DEF HandleResub, pageVars
<1>3. moved \subseteq Requests /\ \A r \in moved : r[1] = up[1].place
    BY <1>1, VParts DEF ServerTypes, Requests
<1> HIDE DEF moved
<1>4. /\ \A r \in moved : r[1] \in Places => Due(r[1], r[2])'
      /\ \A p, t : <<p, t>> \in Requests /\ (<<p, t>> \notin moved \/ p \notin Places)
                       => (Due(p, t)' <=> Due(p, t))
      /\ \A r \in moved : r[1] \in Places /\ r[2] \notin overtaken' =>
            \A p \in Places \ {r[1]} : ~Due(p, r[2])
    BY <1>2, <1>3, AskForFacts
<1> SUFFICES ASSUME NEW r \in subs', r[1] \in Places, r[2] \notin overtaken'
             PROVE  /\ \A p \in Places \ {r[1]} : ~Due(p, r[2])'
                    /\ Due(r[1], r[2])'
    BY DEF Answered
<1>5. r \in moved /\ r[1] = up[1].place /\ r[2] \in Tiles
    BY <1>2, <1>3 DEF Requests
<1>6. ASSUME NEW p \in Places \ {r[1]}
      PROVE  ~Due(p, r[2])'
    <2>1. <<p, r[2]>> \in Requests
        BY <1>5 DEF Requests, Places, Selections
    <2>2. <<p, r[2]>> \notin moved
        <3>1. <<p, r[2]>>[1] = p
            OBVIOUS
        <3> QED
            BY <1>3, <1>5, <1>6, <3>1
    <2> QED
        BY <1>4, <1>5, <2>1, <2>2
<1> QED
    BY <1>4, <1>5, <1>6

\* Truthful and Answered are inductive with the invariants above.
LEMMA NextAnswered ==
    ASSUME VInv, Followable, Followed, Truthful, Answered, [Next]_vars
    PROVE  Truthful' /\ Answered'
<1>1. CASE LayerAction
    <2>1. PICK d, c : LayerStep(d, c)
        BY <1>1, LayerActionStep
    <2>2. down' = down \/ Arrives("updateLayers")
        BY <2>1 DEF LayerStep
    <2> QED
        BY <2>1, <2>2, TruthfulSame, LayerAnswered
<1>2. CASE Select \/ ShowWorlds
    <2>1. Longer
        BY <1>2, SelectFacts, ChoiceLonger, ShowWorldsLonger
    <2>2. /\ UNCHANGED <<subs, asked, overtaken, shown>>
          /\ down' = down \/ Arrives("updateWorldsAndDims")
        BY <1>2 DEF Select, ShowWorlds, serverVars
    <2>3. \A p, t : Due(p, t)' <=> Due(p, t)
        BY <2>2, DueSame
    <2>4. \A t : Leaves(t) => Leaves(t)'
        BY <2>1, LeavesLater
    <2> QED
        BY <2>2, <2>3, <2>4, AnsweredSame, TruthfulSame
<1>3. CASE Draw
    <2>1. Arrives("tile")
        BY <1>3 DEF Draw
    <2> QED
        BY <1>3, <2>1, DrawAnswered, TruthfulSame
<1>4. CASE Handler
    <2>1. UNCHANGED down
        BY <1>4 DEF Handler, HandleSubscribe, HandleUnsubscribe, HandleResub
    <2> QED
        BY <1>4, <2>1, SubscribeAnswered, UnsubscribeAnswered, ResubAnswered, TruthfulSame DEF Handler
<1>5. CASE (\E t \in Tiles : TileReady(t)) \/ UNCHANGED vars
    <2>1. UNCHANGED <<down, up, shown, subs, asked, overtaken>>
        BY <1>5, TileReadyFacts DEF vars, pageVars, serverVars
    <2>2. \A p, t : Due(p, t)' <=> Due(p, t)
        BY <2>1, DueSame
    <2>3. \A t : Leaves(t) => Leaves(t)'
        BY <2>1 DEF Leaves, IsFor
    <2> QED
        BY <2>1, <2>2, <2>3, AnsweredSame, TruthfulSame
<1>6. CASE \E r \in Requests : Answer(r)
    BY <1>6, AnswerAnswered
<1> QED
    BY <1>1, <1>2, <1>3, <1>4, <1>5, <1>6, Steps

LEMMA InitAnswered == Init => Followed /\ Truthful /\ Answered
BY DEF Init, Followed, Truthful, Answered, Leaves, IsFor

\* Once everything has been said and answered, a tile of the layer shows the
\* selected place, if there is a picture of it, unless it was asked for while an
\* answer for another place was due: asyncTileRequestor (ws.go:114) answers in no
\* order, and the page (view.gohtml:280) does not look at the place of an answer.
THEOREM WrongPicturesAreOvertaken == Spec => []WrongPictureHasCause
<1>1. VInv /\ SubscriptionsFollowView /\ Answered => WrongPictureHasCause
    <2> SUFFICES ASSUME VInv, SubscriptionsFollowView, Answered, AtRest,
                        NEW t \in DOMAIN grid, <<sel, t>> \in HasPicture
                 PROVE  shown[t] = sel \/ t \in overtaken
        BY DEF WrongPictureHasCause
    <2>1. <<sel, t>> \in subs
        BY DEF SubscriptionsFollowView, AtRest
    <2>2. sel \in Places /\ t \in Tiles
        BY PicturesOK
    <2>3. ~Leaves(t)
        BY DEF Leaves, AtRest
    <2>4. ~Due(sel, t)
        <3>1. <<sel, t>> \in Requests
            BY <2>1, VParts DEF ServerTypes
        <3>2. asked[<<sel, t>>] = 0
            BY <3>1 DEF AtRest
        <3>3. 1..Len(down) = {}
            BY DEF AtRest
        <3>4. ~(asked[<<sel, t>>] > 0)
            BY <3>2
        <3> QED
            BY <3>3, <3>4, Zenon DEF Due
    <2>5. <<sel, t>>[1] = sel /\ <<sel, t>>[2] = t
        OBVIOUS
    <2> QED
        BY <2>1, <2>2, <2>3, <2>4, <2>5 DEF Answered
<1>2. Spec => [](Followed /\ Truthful /\ Answered)
    <2>1. ASSUME VInv, Followable, Followed /\ Truthful /\ Answered, [Next]_vars
          PROVE  (Followed /\ Truthful /\ Answered)'
        BY <2>1, NextFollowed, NextAnswered
    <2> QED
        BY <2>1, Typed, Following, InitAnswered, PTL DEF Spec
<1> QED
    BY <1>1, <1>2, Typed, SessionFollowsPage, PTL
=============================================================================
