------------------------------- MODULE MapView -------------------------------
(***************************************************************************)
(* The map page and the session that serves it: the script of              *)
(* src/templates/view.gohtml, the Leaflet grid layer and loading control   *)
(* it is built on (src/static), and the subscriptions of src/ws.go.        *)
(*                                                                         *)
(* The page keeps one <img> per tile of a layer, subscribes to a tile when *)
(* the layer creates it and unsubscribes when the layer drops it; a change *)
(* of world or dimension moves all subscriptions at the server.  Every     *)
(* subscription and every move starts one goroutine per tile that sends    *)
(* one answer, in no order.  Leaflet works in callbacks: a tile is ready a *)
(* frame after its creation, fades in over frames, and old tiles are       *)
(* pruned by timers.                                                       *)
(*                                                                         *)
(* One layer is modelled, a base layer; tiles and views are abstract, with *)
(* the tiles each view needs and keeps.  An animated zoom is one that loads *)
(* the tiles of its target at once, as those of one level do.  Pinching,   *)
(* and the loss of the connection, after which the page only redraws, are  *)
(* left out.                                                               *)
(***************************************************************************)
EXTENDS Integers, Sequences, SequencesExt, FiniteSets

CONSTANTS
    Tiles,       \* tile coordinates, zoom included
    Zoom,        \* [Tiles -> Int]
    Above,       \* [Tiles -> SUBSET Tiles]: its ancestors, at most five zooms up
    Views,       \* what the window may show, at one zoom each
    Start,       \* the view the page begins with
    Window,      \* [Views -> SUBSET Tiles]: the tiles of the window
    Buffer,      \* [Views -> SUBSET Tiles]: the window and keepBuffer around it
    Still,       \* no zoom animation is under way
    Worlds, Dims,
    Blank,       \* the empty string of a selector
    HasPicture,  \* the places and tiles imageGetSync returns an image for
    Gestures     \* how often the user does something (bound)

ASSUME GridOK ==
    /\ Start \in Views /\ Still \notin Views
    /\ Zoom \in [Tiles -> Int] /\ Above \in [Tiles -> SUBSET Tiles]
    /\ Window \in [Views -> SUBSET Tiles] /\ Buffer \in [Views -> SUBSET Tiles]
    /\ \A v \in Views :
          Window[v] \subseteq Buffer[v] /\ Window[v] # {} /\ IsFiniteSet(Window[v])
    /\ \A t \in Tiles : \A u \in Above[t] : Zoom[u] \in Zoom[t] - 5 .. Zoom[t] - 1
    /\ Gestures \in Nat

Places == [world : Worlds, dim : Dims]
Selections == [world : Worlds \cup {Blank}, dim : Dims \cup {Blank}]
Nowhere == [world |-> Blank, dim |-> Blank]

ASSUME PicturesOK == HasPicture \subseteq Places \X Tiles

VARIABLES
    \* the page
    view,      \* the part of the map in the window
    target,    \* where a zoom animation leads, or Still
    sel,       \* wSelector.value and dSelector.value
    shown,     \* [Tiles -> Selections]: the place on the tile's <img>, or Nowhere
    worlds,    \* whether the selectors are filled
    gestures,  \* what the user has done, counted
    \* the grid layer and the loading control
    layer,     \* none (before the first message), on or off
    grid,      \* _tiles: a function on the tiles it has
    loading,   \* _loading
    indicator, \* the layer's id is in _dataLoaders
    frames,    \* [Tiles -> Nat]: pending calls of _tileReady
    fading,    \* a pending call of _updateOpacity
    timers,    \* pending calls of _pruneTiles
    noPrune,   \* _noPrune
    \* the connection and the session
    up, down,  \* messages on their way to the session and to the page
    subs,      \* subbedTiles
    asked,     \* [Selections \X Tiles -> Nat]: goroutines that get an image
    \* history
    overtaken, \* tiles asked for while an answer for another place was due
    hasty      \* since the last load event a tile was dropped before it was ready

pageVars    == <<view, target, sel, shown, worlds, gestures>>
layerVars   == <<layer, grid, loading, indicator, frames, fading, timers, noPrune, hasty>>
serverVars  == <<subs, asked, overtaken>>
vars == <<pageVars, layerVars, up, down, serverVars>>

Requests == Selections \X Tiles

Init ==
    /\ view = Start /\ target = Still /\ sel = Nowhere /\ shown = [t \in Tiles |-> Nowhere]
    /\ worlds = FALSE /\ gestures = 0
    /\ layer = "none" /\ grid = <<>>
    /\ loading = FALSE /\ indicator = FALSE
    /\ frames = [t \in Tiles |-> 0] /\ fading = FALSE /\ timers = 0 /\ noPrune = FALSE
    /\ up = <<>>
    /\ down = <<[kind |-> "updateLayers"], [kind |-> "updateWorldsAndDims"]>>
    /\ subs = {} /\ asked = [r \in Requests |-> 0]
    /\ overtaken = {} /\ hasty = FALSE

-----------------------------------------------------------------------------
(* What the page tells the session *)

Subscribe(t)   == [kind |-> "tileSubscribe", place |-> sel, tile |-> t]
Unsubscribe(t) == [kind |-> "tileUnsubscribe", place |-> sel, tile |-> t]

\* createTile and handleUnload, once per tile that is created or dropped, with
\* the selection of that moment.  The order among the tiles changes nothing.
Subscriptions(T) ==
    LET s == SetToSeq(T) IN [i \in 1..Len(s) |-> Subscribe(s[i])]
Unsubscriptions(T) ==
    LET s == SetToSeq(T) IN [i \in 1..Len(s) |-> Unsubscribe(s[i])]

\* socket.send.
Say(messages) == up' = up \o messages

-----------------------------------------------------------------------------
(* The grid layer *)

Fresh == [current |-> TRUE, ready |-> "no"]

\* _update: what the tiles become when the window shows v.
Update(g, v) ==
    [t \in DOMAIN g \cup Window[v] |->
        IF t \notin DOMAIN g THEN Fresh
        ELSE [g[t] EXCEPT !.current = t \in Window[v] \/ (@ /\ t \in Buffer[v])]]

Below(t) == {u \in Tiles : t \in Above[u] /\ Zoom[u] <= Zoom[t] + 2}

Is(g, t, states) == t \in DOMAIN g /\ g[t].ready \in states

\* _retainParent and _retainChildren for a tile that is not yet opaque: the
\* loaded tiles over it up to the first opaque one; if none is, those under it,
\* on every branch down to the first opaque one.
Kept(g, t) ==
    LET LoadedIn(S) == {u \in S : Is(g, u, {"loaded", "active"})}
        OpaqueIn(S) == {u \in S : Is(g, u, {"active"})}
        over  == {u \in LoadedIn(Above[t]) : \A x \in OpaqueIn(Above[t]) : u \notin Above[x]}
        under == {u \in LoadedIn(Below(t)) : OpaqueIn(Below(t)) \cap Above[u] = {}}
    IN IF OpaqueIn(Above[t]) # {} THEN over ELSE over \cup under

\* _pruneTiles: the tiles it drops.
Pruned(g) ==
    LET kept == UNION {Kept(g, t) : t \in {u \in DOMAIN g : g[u].current /\ g[u].ready # "active"}}
    IN {t \in DOMAIN g : ~g[t].current} \ kept

Without(g, T) == [t \in DOMAIN g \ T |-> g[t]]

\* The layer has tiles g after it has dropped some and created some: what
\* follows for the images, the pending frames and the loading event.
HastyDrop(dropped) == \E t \in dropped : grid[t].ready = "no"

Regrid(g, dropped, created) ==
    /\ grid' = g
    /\ hasty' = (hasty \/ HastyDrop(dropped))
    /\ frames' = [t \in Tiles |-> IF t \in created THEN frames[t] + 1 ELSE frames[t]]
    /\ shown' = [t \in Tiles |-> IF t \in created \cup dropped THEN Nowhere ELSE shown[t]]
    /\ loading' = (loading \/ created # {})

\* addLoader on the loading event; the event finds no listener while the layer
\* is being added.
Indicate(created) == indicator' = (indicator \/ (~loading /\ created # {}))

-----------------------------------------------------------------------------
(* What the user does *)

Gesture ==
    /\ gestures < Gestures
    /\ gestures' = gestures + 1

SameZoom(v, u) == \E t \in Window[v], x \in Window[u] : Zoom[t] = Zoom[x]

\* _update for the window of v, and what _pruneTiles drops of it.
Refresh(v, dropped) ==
    LET created == Window[v] \ DOMAIN grid
    IN /\ Regrid(Without(Update(grid, v), dropped), dropped, created) /\ Indicate(created)
       /\ Say(Subscriptions(created) \o Unsubscriptions(dropped))

\* A redraw of the window of v: every tile is dropped, those of v are created.
Renew(v) ==
    /\ Regrid([t \in Window[v] |-> Fresh], DOMAIN grid, Window[v]) /\ Indicate(Window[v])
    /\ Say(Unsubscriptions(DOMAIN grid) \o Subscriptions(Window[v]))

Untouched == UNCHANGED <<grid, hasty, frames, shown, loading, indicator, up>>

\* move and moveend: _update.
Pan(v) ==
    /\ Gesture /\ v # view /\ target = Still /\ SameZoom(v, view)
    /\ view' = v
    /\ IF layer = "on" THEN Refresh(v, {}) ELSE Untouched
    /\ UNCHANGED <<target, sel, worlds, layer, fading, timers, noPrune, down, serverVars>>

\* A move too far for an animation, mapGoTo's for one: viewprereset drops all.
Jump(v) ==
    /\ Gesture /\ v # view /\ target = Still
    /\ view' = v
    /\ noPrune' = (noPrune /\ layer # "on")
    /\ IF layer = "on" THEN Renew(v) ELSE Untouched
    /\ UNCHANGED <<target, sel, worlds, layer, fading, timers, down, serverVars>>

\* zoomanim: the tiles of the target are loaded, and none is pruned by a fade
\* until the animation has ended.
ZoomStart(v) ==
    /\ Gesture /\ target = Still /\ ~SameZoom(v, view)
    /\ target' = v
    /\ noPrune' = (noPrune \/ layer = "on")
    /\ IF layer = "on" THEN Refresh(v, {}) ELSE Untouched
    /\ UNCHANGED <<view, sel, worlds, layer, fading, timers, down, serverVars>>

\* _onZoomTransitionEnd: the zoom event makes _setView update and prune.
ZoomEnd ==
    /\ target # Still /\ target' = Still
    /\ view' = target
    /\ noPrune' = (noPrune /\ layer # "on")
    /\ IF layer = "on" THEN Refresh(target, Pruned(Update(grid, target))) ELSE Untouched
    /\ UNCHANGED <<sel, worlds, gestures, layer, fading, timers, down, serverVars>>

\* The map's own centre and zoom: an animation sets them when it begins.
Seen == IF target = Still THEN view ELSE target

\* mapReload: redraw drops every tile and creates those of the window.
Reload ==
    /\ Gesture /\ layer = "on"
    /\ Renew(Seen)
    /\ UNCHANGED <<view, target, sel, worlds, layer, fading, timers, noPrune, down, serverVars>>

\* The layer control switches the layer off: onRemove, then layerremove.
SwitchOffQuietly ==                              \* mutant: no event per tile
    /\ Gesture /\ layer = "on" /\ layer' = "off"
    /\ Regrid(<<>>, DOMAIN grid, {}) /\ indicator' = FALSE
    /\ UNCHANGED <<view, target, sel, worlds, fading, timers, noPrune, up, down, serverVars>>
SwitchOff ==
    /\ Gesture /\ layer = "on" /\ layer' = "off"
    /\ Regrid(<<>>, DOMAIN grid, {}) /\ indicator' = FALSE
    /\ Say(Unsubscriptions(DOMAIN grid))
    /\ UNCHANGED <<view, target, sel, worlds, fading, timers, noPrune, down, serverVars>>

\* onAdd: a new grid for the window.
Populate ==
    /\ layer' = "on" /\ noPrune' = FALSE
    /\ Regrid([t \in Window[Seen] |-> Fresh], {}, Window[Seen])
    /\ Say(Subscriptions(Window[Seen]))

\* The layer control switches it on again: baselayerchange adds a loader.
SwitchOn ==
    /\ Gesture /\ layer = "off"
    /\ Populate /\ indicator' = TRUE
    /\ UNCHANGED <<view, target, sel, worlds, fading, timers, down, serverVars>>

Choose(place) ==
    /\ sel' = place
    /\ Say(<<[kind |-> "resubWorldDimension", place |-> place]>>)

\* A change of wSelector empties dSelector; both tell the session.
Select ==
    /\ Gesture /\ worlds
    /\ \/ \E w \in Worlds \ {sel.world} : Choose([world |-> w, dim |-> Blank])
       \/ \E d \in Dims \ {sel.dim} : sel.world # Blank /\ Choose([sel EXCEPT !.dim = d])
    /\ UNCHANGED <<view, target, shown, worlds, layerVars, down, serverVars>>

-----------------------------------------------------------------------------
(* Leaflet's callbacks *)

\* The load event, which removes the loader; a pruning is due 250 ms later.
LoadedButIndicated ==                            \* mutant: the indicator is not updated
    loading' = FALSE /\ hasty' = FALSE /\ timers' = timers + 1 /\ UNCHANGED indicator
Loaded ==
    /\ loading' = FALSE /\ indicator' = FALSE /\ hasty' = FALSE
    /\ timers' = timers + 1

\* _tileReady, for a tile the layer may have dropped or created anew since.
TileReady(t) ==
    /\ frames[t] > 0 /\ frames' = [frames EXCEPT ![t] = @ - 1]
    /\ IF t \in DOMAIN grid
       THEN /\ grid' = [grid EXCEPT ![t].ready = IF @ = "no" THEN "loaded" ELSE @]
            /\ fading' = TRUE
            /\ IF \A u \in DOMAIN grid \ {t} : grid[u].ready # "no"
               THEN Loaded
               ELSE UNCHANGED <<loading, indicator, hasty, timers>>
       ELSE UNCHANGED <<grid, fading, loading, indicator, hasty, timers>>
    /\ UNCHANGED <<pageVars, layer, noPrune, up, down, serverVars>>

FadingTiles == {t \in DOMAIN grid : grid[t].current /\ grid[t].ready # "no"}

\* _updateOpacity, when the tiles in done have had their 200 ms: it prunes when
\* one of them was opaque before.
FadeWith(done) ==
    LET g == [t \in DOMAIN grid |->
                 IF t \in done THEN [grid[t] EXCEPT !.ready = "active"] ELSE grid[t]]
        prunes == ~noPrune /\ \E t \in done : grid[t].ready = "active"
        dropped == IF prunes THEN Pruned(g) ELSE {}
    IN IF layer = "on"
       THEN /\ Regrid(Without(g, dropped), dropped, {}) /\ Say(Unsubscriptions(dropped))
            /\ fading' = (done # FadingTiles)
       ELSE fading' = FALSE /\ UNCHANGED <<grid, hasty, frames, shown, loading, up>>

Fade(done) ==
    /\ fading /\ FadeWith(done)
    /\ UNCHANGED <<view, target, sel, worlds, gestures, layer, indicator, timers, noPrune,
                   down, serverVars>>

\* The timer of _tileReady, which does not look at _noPrune.
Prune ==
    /\ timers > 0 /\ timers' = timers - 1
    /\ LET dropped == Pruned(grid)
       IN /\ Regrid(Without(grid, dropped), dropped, {})
          /\ Say(Unsubscriptions(dropped))
    /\ UNCHANGED <<view, target, sel, worlds, gestures, layer, indicator, fading, noPrune,
                   down, serverVars>>

-----------------------------------------------------------------------------
(* What the page is told *)

Arrives(kind) == down # <<>> /\ Head(down).kind = kind /\ down' = Tail(down)

\* updateLayers: the default layer is added, before there is a layer control.
ShowLayers ==
    /\ Arrives("updateLayers")
    /\ Populate
    /\ UNCHANGED <<view, target, sel, worlds, gestures, indicator, fading, timers, serverVars>>

\* updateWorldsAndDims, with or without a place in the address.
ShowWorldsSilently ==                            \* mutant: the session is not told
    /\ Arrives("updateWorldsAndDims")
    /\ worlds' = TRUE
    /\ sel' \in Places \cup {[sel EXCEPT !.world = Blank]}
    /\ UNCHANGED <<view, target, shown, gestures, layerVars, up, serverVars>>
ShowWorlds ==
    /\ Arrives("updateWorldsAndDims")
    /\ worlds' = TRUE
    /\ (\E p \in Places : Choose(p)) \/ (sel' = [sel EXCEPT !.world = Blank] /\ UNCHANGED up)
    /\ UNCHANGED <<view, target, shown, gestures, layerVars, serverVars>>

\* A picture is put on the tile of its coordinates, whatever its place; an
\* empty one leaves the tile as it is; one for a dropped tile is not seen.
Draw ==
    /\ Arrives("tile")
    /\ LET m == Head(down)
       IN shown' = IF m.picture /\ m.tile \in DOMAIN grid
                   THEN [shown EXCEPT ![m.tile] = m.place] ELSE shown
    /\ UNCHANGED <<view, target, sel, worlds, gestures, layerVars, up, serverVars>>

-----------------------------------------------------------------------------
(* The session *)

\* go asyncTileRequestor(loc): nothing for a selection that is not complete.
Due(p, t) ==
    \/ asked[p, t] > 0
    \/ \E i \in 1..Len(down) :
          down[i].kind = "tile" /\ down[i].place = p /\ down[i].tile = t

AskFor(R) ==
    LET started == {r \in R : r[1] \in Places}
        raced   == {r \in started : \E p \in Places \ {r[1]} : Due(p, r[2])}
    IN /\ asked' = [r \in Requests |-> IF r \in started THEN asked[r] + 1 ELSE asked[r]]
       /\ overtaken' = (overtaken \ {r[2] : r \in started}) \cup {r[2] : r \in raced}

Hears(kind) == up # <<>> /\ Head(up).kind = kind /\ up' = Tail(up)

HandleSubscribe ==
    /\ Hears("tileSubscribe")
    /\ LET r == <<Head(up).place, Head(up).tile>>
       IN subs' = subs \cup {r} /\ AskFor({r})
    /\ UNCHANGED <<pageVars, layerVars, down>>

HandleUnsubscribe ==
    /\ Hears("tileUnsubscribe")
    /\ subs' = subs \ {<<Head(up).place, Head(up).tile>>}
    /\ UNCHANGED <<pageVars, layerVars, down, asked, overtaken>>

HandleResubSilently ==                           \* mutant: moves them, asks for none
    /\ Hears("resubWorldDimension")
    /\ subs' = {<<Head(up).place, r[2]>> : r \in subs}
    /\ UNCHANGED <<pageVars, layerVars, down, asked, overtaken>>
HandleResub ==
    /\ Hears("resubWorldDimension")
    /\ LET moved == {<<Head(up).place, r[2]>> : r \in subs}
       IN subs' = moved /\ AskFor(moved)
    /\ UNCHANGED <<pageVars, layerVars, down>>

\* The goroutine has its image, nil or an error and sends.
Answer(r) ==
    /\ asked[r] > 0 /\ asked' = [asked EXCEPT ![r] = @ - 1]
    /\ down' = Append(down, [kind |-> "tile", place |-> r[1], tile |-> r[2],
                             picture |-> r \in HasPicture])
    /\ UNCHANGED <<pageVars, layerVars, up, subs, overtaken>>

-----------------------------------------------------------------------------
User     == \/ \E v \in Views : Pan(v) \/ Jump(v) \/ ZoomStart(v)
            \/ Reload \/ SwitchOff \/ SwitchOn \/ Select
Callback == (\E t \in Tiles : TileReady(t)) \/ Prune \/ ZoomEnd
Fading   == \E done \in SUBSET FadingTiles : Fade(done)
Message  == ShowLayers \/ ShowWorlds \/ Draw
Handler  == HandleSubscribe \/ HandleUnsubscribe \/ HandleResub

Next == User \/ Callback \/ Fading \/ Message \/ Handler
        \/ (\E r \in Requests : Answer(r))

Spec == Init /\ [][Next]_vars

\* The event loop of the page and the goroutines of the session run, frames,
\* timers and the end of an animation come, and imageGetSync answers.  A
\* gesture makes finitely many of each, so one condition stands for all.
Fairness ==
    /\ WF_vars(Callback) /\ WF_vars(Fade(FadingTiles))
    /\ WF_vars(Message) /\ WF_vars(Handler) /\ WF_vars(\E r \in Requests : Answer(r))

FairSpec == Spec /\ Fairness
-----------------------------------------------------------------------------
(* Properties *)

\* Every variable has its type; a tile that is dropped shows nothing, and no
\* counter leaves the bounds that the user's gestures set.
TypeOK ==
    /\ view \in Views /\ target \in Views \cup {Still}
    /\ sel \in Selections /\ shown \in [Tiles -> Selections]
    /\ layer \in {"none", "on", "off"}
    /\ DOMAIN grid \subseteq Tiles
    /\ \A t \in DOMAIN grid : grid[t] \in [current : BOOLEAN, ready : {"no", "loaded", "active"}]
    /\ \A t \in Tiles \ DOMAIN grid : shown[t] = Nowhere
    /\ \A t \in Tiles : frames[t] \in 0..Gestures + 1
    /\ {worlds, loading, indicator, fading, noPrune, hasty} \subseteq BOOLEAN
    /\ gestures \in 0..Gestures /\ timers \in Nat
    /\ subs \subseteq Requests /\ overtaken \subseteq Tiles
    /\ asked \in [Requests -> Nat]

\* Nothing is on its way between page and session.
AtRest == up = <<>> /\ down = <<>> /\ \A r \in Requests : asked[r] = 0

\* The type invariant, and: the session is subscribed to the tiles the layer has,
\* at the selected place, whatever was dropped, created and selected meanwhile.
SubscriptionsFollowView ==
    /\ TypeOK
    /\ up = <<>> => subs = {<<sel, t>> : t \in DOMAIN grid}

\* At rest a tile shows the selected place, if there is a picture of it, unless
\* it was asked for while an answer for another place was still due: the page
\* does not look at the place of an answer.
WrongPictureHasCause ==
    AtRest => \A t \in DOMAIN grid :
                 <<sel, t>> \in HasPicture => (shown[t] = sel \/ t \in overtaken)

\* When no tile is waited for, the loading indicator is off, unless the
\* last tile waited for was dropped: no load event follows such a drop.
IndicatorOffWhenReady ==
    (indicator /\ \A t \in Tiles : frames[t] = 0) => hasty

\* In the end every tile of the window that has a picture shows one.
DrawnInTheEnd ==
    <>[](\A t \in DOMAIN grid : <<sel, t>> \in HasPicture => shown[t] # Nowhere)
=============================================================================
