--------------------------- MODULE WsSessionProofs ---------------------------
(***************************************************************************)
(* Theorems about WsSession, for every set of sessions and requestors and  *)
(* every capacity of the channels, given that eQ holds two errors.         *)
(***************************************************************************)
EXTENDS WsSession, SequenceTheorems, TLAPS

-----------------------------------------------------------------------------
(* The inductive invariant *)

\* How far a handler is when it is not counted, not connected, has not started
\* its goroutines.
Uncounted   == {"none", "upgraded"}
Unconnected == {"none", "upgraded", "connect"}
Unstarted   == {"none", "upgraded", "connect", "hello"}

\* The error a goroutine may still report.
Owes(g) == IF g = "exited" THEN 0 ELSE 1

\* What holds of one session: its types and capacities; the errors in eQ and those
\* to come are two; what has not begun has left no trace.
Healthy(x) ==
    /\ x \in SessionType /\ Len(x.wQ) <= WQCap
    /\ x.eQ + Owes(x.writer) + Owes(x.reader) <= 2
    /\ x.handler \in Unstarted => x.writer = "none" /\ x.reader = "none"
    /\ x.handler \in Unconnected => ~x.eClosed

\* The types of everything else.
RestTypes ==
    /\ connects \in Seq(Sessions) /\ Len(connects) <= ConnCap
    /\ disconnects \in Seq(Sessions) /\ Len(disconnects) <= ConnCap
    /\ clients \in SUBSET Sessions
    /\ router \in {"run", "exited"}
    /\ main \in {"run", "web", "clients", "router", "done"}
    /\ web \in {"serve", "stopping", "done"}
    /\ webExit \in 0..1 /\ routerExit \in 0..1
    /\ crashed \in {"no", "tile", "router", "fatal"}
    /\ late \in SUBSET Sessions /\ overtaken \in SUBSET Sessions

\* Who is in the router's queues and its map: a session connects once, and its
\* disconnect is the last it does.
Routed ==
    /\ \A i \in DOMAIN disconnects : sess[disconnects[i]].handler = "done"
    /\ \A i \in DOMAIN connects : sess[connects[i]].handler \notin Unconnected
    /\ \A s \in clients : sess[s].handler \notin Unconnected
    /\ \A i \in DOMAIN connects : connects[i] \notin clients
    /\ \A i, j \in DOMAIN connects : connects[i] = connects[j] => i = j

\* Once main has waited for the sessions, those that are counted came late; only
\* then the router is told to exit.
Drained ==
    /\ routerExit > 0 => main \in {"router", "done"}
    /\ main \in {"router", "done"} => Counted \subseteq late

\* A connect still queued of a session that has left is one that was overtaken.
QueuedLeavers ==
    router = "run" => \A i \in DOMAIN connects :
        sess[connects[i]].eClosed => connects[i] \in overtaken

IInv ==
    /\ sess \in [Sessions -> SessionType] /\ \A s \in Sessions : Healthy(sess[s])
    /\ RestTypes /\ Routed /\ Drained /\ QueuedLeavers
    /\ EventsOpenWhileUsed /\ RouterForgetsLeavers

\* The error queue has room for whoever is about to report.
LEMMA RoomForErrors == IInv => TypeOK /\ ErrorsNeverBlock
<1> SUFFICES ASSUME IInv PROVE TypeOK /\ ErrorsNeverBlock
    OBVIOUS
<1>1. TypeOK
    BY DEF IInv, TypeOK, RestTypes, Healthy
<1>2. ASSUME NEW s \in Sessions, "report" \in {sess[s].writer, sess[s].reader}
      PROVE  sess[s].eQ < EQCap
    <2>1. /\ sess[s].eQ + Owes(sess[s].writer) + Owes(sess[s].reader) <= 2
          /\ sess[s].eQ \in 0..EQCap
        BY DEF IInv, Healthy, SessionType
    <2>2. Owes(sess[s].writer) + Owes(sess[s].reader) >= 1
        BY <1>2 DEF Owes
    <2>3. Owes(sess[s].writer) \in {0, 1} /\ Owes(sess[s].reader) \in {0, 1}
        BY DEF Owes
    <2> QED
        BY <2>1, <2>2, <2>3, BothErrorsFit, CapsPositive
<1> QED
    BY <1>1, <1>2 DEF ErrorsNeverBlock

LEMMA InitIInv == Init => IInv
<1> SUFFICES ASSUME Init PROVE IInv
    OBVIOUS
<1>1. New \in SessionType /\ Healthy(New)
    <2>1. New.rQ \in 0..RQCap /\ New.eQ \in 0..EQCap /\ New.e \in 0..2
        BY CapsPositive DEF New
    <2>2. New.wQ \in Seq({"data", "close"}) /\ Len(New.wQ) <= WQCap
        BY CapsPositive DEF New
    <2>3. New \in SessionType
        BY <2>1, <2>2 DEF New, SessionType
    <2> QED
        BY <2>2, <2>3 DEF New, Healthy, Owes, Unstarted, Unconnected
<1>2. RestTypes
    BY CapsPositive DEF Init, RestTypes
<1>3. Routed /\ QueuedLeavers
    BY DEF Init, Routed, QueuedLeavers
<1>4. Drained /\ EventsOpenWhileUsed /\ RouterForgetsLeavers
    BY DEF Init, Drained, EventsOpenWhileUsed, RouterForgetsLeavers, New
<1> QED
    BY <1>1, <1>2, <1>3, <1>4 DEF Init, IInv

-----------------------------------------------------------------------------
(* Steps within a session *)

\* A session goes from x to y: it does not connect, is not counted, does not come
\* back, and the router has no part in it.
Advance(x, y) ==
    /\ y.eClosed = x.eClosed
    /\ x.handler = "done" => y.handler = "done"
    /\ x.handler \in Unconnected <=> y.handler \in Unconnected
    /\ x.handler \in Uncounted <=> y.handler \in Uncounted

LEMMA AdvanceStep ==
    ASSUME IInv, NEW s \in Sessions, NEW y, Healthy(y), Advance(sess[s], y),
           Becomes(s, y), UNCHANGED <<routerVars, main, routerExit, late, crashed>>,
           web' \in {"serve", "stopping", "done"}, webExit' \in 0..1
    PROVE  IInv'
<1>1. /\ sess \in [Sessions -> SessionType] /\ sess' = [sess EXCEPT ![s] = y]
      /\ y \in SessionType
    BY DEF IInv, Becomes, Healthy
<1>2. /\ sess' \in [Sessions -> SessionType] /\ sess'[s] = y
      /\ \A r \in Sessions \ {s} : sess'[r] = sess[r]
      /\ \A r \in Sessions : Advance(sess[r], sess'[r])
    BY <1>1 DEF Advance
<1>3. \A r \in Sessions : Healthy(sess'[r])
    BY <1>2 DEF IInv
<1>4. UNCHANGED <<connects, disconnects, clients, router, overtaken>>
    BY DEF routerVars
<1>5. RestTypes'
    BY <1>4 DEF IInv, RestTypes
<1>6. Routed'
    <2>1. connects \in Seq(Sessions) /\ disconnects \in Seq(Sessions) /\ clients \subseteq Sessions
        BY DEF IInv, RestTypes
    <2> QED
        BY <1>2, <1>4, <2>1 DEF IInv, Routed, Advance
<1>7. Drained'
    <2>1. Counted' \subseteq Counted
        BY <1>2 DEF Counted, Advance, Uncounted
    <2> QED
        BY <2>1 DEF IInv, Drained
<1>8. QueuedLeavers' /\ EventsOpenWhileUsed'
    <2>1. connects \in Seq(Sessions)
        BY DEF IInv, RestTypes
    <2> QED
        BY <1>2, <1>4, <2>1 DEF IInv, QueuedLeavers, EventsOpenWhileUsed, Advance
<1>9. RouterForgetsLeavers'
    <2>1. clients \subseteq Sessions
        BY DEF IInv, RestTypes
    <2> QED
        BY <1>2, <1>4, <2>1 DEF IInv, RouterForgetsLeavers, Advance
<1> QED
    BY <1>2, <1>3, <1>5, <1>6, <1>7, <1>8, <1>9 DEF IInv

LEMMA LocalStep ==
    ASSUME IInv, NEW s \in Sessions, NEW y, Healthy(y), Advance(sess[s], y), Local(s, y)
    PROVE  IInv'
<1>1. web' \in {"serve", "stopping", "done"} /\ webExit' \in 0..1
    BY DEF Local, mainVars, IInv, RestTypes
<1> QED
    BY <1>1, AdvanceStep DEF Local, mainVars

\* A channel with room takes a message.
LEMMA PutType ==
    ASSUME NEW q \in Seq({"data", "close"}), NEW m \in {"data", "close"}, Len(q) < WQCap
    PROVE  /\ Append(q, m) \in Seq({"data", "close"}) /\ Len(Append(q, m)) <= WQCap
BY CapsPositive

LEMMA HandlerSteps ==
    ASSUME IInv, NEW s \in Sessions,
           \/ Upgrade(s) \/ Ping(s) \/ Hello(s) \/ HelloPanics(s) \/ Relay(s)
           \/ GetError(s) \/ AnyMessage(s) \/ Waited(s)
    PROVE  IInv'
<1> DEFINE x == sess[s]
<1>1. /\ x \in SessionType /\ Len(x.wQ) <= WQCap /\ Healthy(x)
    BY DEF IInv, Healthy
<1> HIDE DEF x
<1>2. CASE Upgrade(s)
    <2> DEFINE y == [x EXCEPT !.handler = "upgraded"]
    <2>1. Local(s, y) /\ x.handler = "none"
        BY <1>2 DEF Upgrade, At, x
    <2>2. Healthy(y) /\ Advance(x, y)
        BY <1>1, <2>1 DEF SessionType, Healthy, Advance, Unstarted, Unconnected, Uncounted
    <2> QED
        BY <2>1, <2>2, LocalStep DEF x
<1>3. CASE Ping(s)
    <2> DEFINE y == [x EXCEPT !.handler = "send"]
    <2>1. Local(s, y) /\ x.handler = "loop"
        BY <1>3 DEF Ping, At, x
    <2>2. Healthy(y) /\ Advance(x, y)
        BY <1>1, <2>1 DEF SessionType, Healthy, Advance, Unstarted, Unconnected, Uncounted
    <2> QED
        BY <2>1, <2>2, LocalStep DEF x
<1>4. CASE Hello(s)
    <2> DEFINE y == [x EXCEPT !.e = 2, !.writer = "idle", !.reader = "reading",
                              !.handler = "loop"]
    <2>1. Local(s, y) /\ x.handler = "hello"
        BY <1>4 DEF Hello, At, x
    <2>2. /\ y \in SessionType /\ y.eQ = x.eQ /\ y.wQ = x.wQ /\ y.eClosed = x.eClosed
          /\ y.writer = "idle" /\ y.reader = "reading" /\ y.handler = "loop"
        <3>1. 2 \in 0..2
            OBVIOUS
        <3> QED
            BY <1>1, <3>1 DEF SessionType
    <2> HIDE DEF y
    <2>3. Healthy(y)
        BY <1>1, <2>1, <2>2 DEF Healthy, Owes, Unstarted, Unconnected
    <2>4. Advance(x, y)
        BY <2>1, <2>2 DEF Advance, Unconnected, Uncounted
    <2> QED
        BY <2>1, <2>3, <2>4, LocalStep DEF x
<1>5. CASE HelloPanics(s)
    <2> DEFINE y == [x EXCEPT !.handler = "disconnect"]
    <2>1. Local(s, y) /\ x.handler = "hello"
        BY <1>5 DEF HelloPanics, At, x
    <2>2. Healthy(y) /\ Advance(x, y)
        BY <1>1, <2>1 DEF SessionType, Healthy, Advance, Unstarted, Unconnected, Uncounted
    <2> QED
        BY <2>1, <2>2, LocalStep DEF x
<1>6. CASE Relay(s)
    <2> DEFINE y == [x EXCEPT !.e = IF @ > 0 THEN @ - 1 ELSE 0, !.handler = "send"]
    <2>1. Local(s, y) /\ x.handler = "loop"
        BY <1>6 DEF Relay, At, x
    <2>2. Healthy(y) /\ Advance(x, y)
        <3>1. (IF x.e > 0 THEN x.e - 1 ELSE 0) \in 0..2
            BY <1>1 DEF SessionType
        <3> QED
            BY <1>1, <2>1, <3>1 DEF SessionType, Healthy, Advance, Unstarted, Unconnected, Uncounted
    <2> QED
        BY <2>1, <2>2, LocalStep DEF x
<1>7. CASE GetError(s)
    <2> DEFINE y == Ended(x)
    <2>1. Local(s, y) /\ x.handler = "loop" /\ x.eQ > 0
        BY <1>7 DEF GetError, At, x
    <2>2. /\ y \in SessionType /\ y.eQ = x.eQ - 1 /\ y.wQ = x.wQ /\ y.eClosed = x.eClosed
          /\ y.writer = x.writer /\ y.reader = x.reader /\ y.handler = "wait"
        <3>1. x.eQ - 1 \in 0..EQCap
            BY <1>1, <2>1, CapsPositive DEF SessionType
        <3> QED
            BY <1>1, <3>1 DEF SessionType, Ended
    <2> HIDE DEF y
    <2>3. Healthy(y)
        <3>1. x.eQ \in Nat /\ Owes(x.writer) \in {0, 1} /\ Owes(x.reader) \in {0, 1}
            BY <1>1, CapsPositive DEF SessionType, Owes
        <3> QED
            BY <1>1, <2>1, <2>2, <3>1 DEF Healthy, Unstarted, Unconnected
    <2>4. Advance(x, y)
        BY <2>1, <2>2 DEF Advance, Unconnected, Uncounted
    <2> QED
        BY <2>1, <2>3, <2>4, LocalStep DEF x
<1>8. CASE AnyMessage(s)
    <2>1. PICK Q \in SUBSET Requestors : Message(s, Q)
        BY <1>8 DEF AnyMessage
    <2> DEFINE y == [x EXCEPT !.rQ = @ - 1,
                       !.tiles = [q \in Requestors |-> IF q \in Q THEN "get" ELSE @[q]]]
    <2>2. Local(s, y) /\ x.handler = "loop" /\ x.rQ > 0
        BY <2>1 DEF Message, At, x
    <2>3. x.rQ - 1 \in 0..RQCap
        BY <1>1, <2>2, CapsPositive DEF SessionType
    <2>4. Healthy(y) /\ Advance(x, y)
        BY <1>1, <2>2, <2>3 DEF SessionType, Healthy, Advance, Unstarted, Unconnected, Uncounted
    <2> QED
        BY <2>2, <2>4, LocalStep DEF x
<1>9. CASE Waited(s)
    <2> DEFINE y == [x EXCEPT !.handler = "disconnect"]
    <2>1. Local(s, y) /\ x.handler = "wait"
        BY <1>9 DEF Waited, At, x
    <2>2. Healthy(y) /\ Advance(x, y)
        BY <1>1, <2>1 DEF SessionType, Healthy, Advance, Unstarted, Unconnected, Uncounted
    <2> QED
        BY <2>1, <2>2, LocalStep DEF x
<1> QED
    BY <1>2, <1>3, <1>4, <1>5, <1>6, <1>7, <1>8, <1>9

\* wQ <- m of the handler or a tile goroutine: y is the sender's next state.
LEMMA PutStep ==
    ASSUME IInv, NEW s \in Sessions, NEW m \in {"data", "close"}, NEW y,
           Healthy(y), Advance(sess[s], y), y.wQ = sess[s].wQ, Put(s, m, y)
    PROVE  IInv'
<1> DEFINE z == [y EXCEPT !.wQ = Append(@, m)]
<1>1. Local(s, z) /\ Len(y.wQ) < WQCap
    BY DEF Put
<1>2. y \in SessionType /\ y.wQ \in Seq({"data", "close"})
    BY DEF Healthy, SessionType
<1>3. Append(y.wQ, m) \in Seq({"data", "close"}) /\ Len(Append(y.wQ, m)) <= WQCap
    BY <1>1, <1>2, PutType
<1>4. z \in SessionType
    BY <1>2, <1>3 DEF SessionType
<1>5. /\ z.wQ = Append(y.wQ, m) /\ z.eQ = y.eQ /\ z.writer = y.writer /\ z.reader = y.reader
      /\ z.handler = y.handler /\ z.eClosed = y.eClosed
    BY <1>2 DEF SessionType
<1> HIDE DEF z
<1>6. Healthy(z) /\ Advance(sess[s], z)
    BY <1>3, <1>4, <1>5 DEF Healthy, Advance
<1> QED
    BY <1>1, <1>6, LocalStep

LEMMA SendSteps ==
    ASSUME IInv, NEW s \in Sessions,
           SendOwn(s) \/ \E q \in Requestors : TileSends(s, q)
    PROVE  IInv'
<1> DEFINE x == sess[s]
<1>1. /\ x \in SessionType /\ Healthy(x)
    BY DEF IInv, Healthy
<1> HIDE DEF x
<1>2. ASSUME NEW h \in {"loop", "close", "wait"}, x.handler \in {"send", "bye", "close"}
      PROVE  /\ Healthy([x EXCEPT !.handler = h])
             /\ Advance(x, [x EXCEPT !.handler = h])
             /\ [x EXCEPT !.handler = h].wQ = x.wQ
    BY <1>1, <1>2 DEF SessionType, Healthy, Advance, Unstarted, Unconnected, Uncounted
<1>3. CASE SendOwn(s)
    <2>1. PICK h \in {"loop", "close", "wait"}, m \in {"data", "close"} :
             x.handler \in {"send", "bye", "close"} /\ Put(s, m, [x EXCEPT !.handler = h])
        BY <1>3 DEF SendOwn, At, x
    <2> QED
        BY <1>2, <2>1, PutStep DEF x
<1>4. ASSUME NEW q \in Requestors, TileSends(s, q) PROVE IInv'
    <2> DEFINE y == [x EXCEPT !.tiles[q] = "none"]
    <2>1. Put(s, "data", y)
        BY <1>4 DEF TileSends, x
    <2>2. Healthy(y) /\ Advance(x, y) /\ y.wQ = x.wQ
        BY <1>1 DEF SessionType, Healthy, Advance
    <2> QED
        BY <2>1, <2>2, PutStep DEF x
<1> QED
    BY <1>3, <1>4

\* A goroutine that has started does not touch the handler.
LEMMA GoroutineStep ==
    ASSUME IInv, NEW s \in Sessions, NEW y, Local(s, y),
           y \in SessionType, Len(y.wQ) <= WQCap,
           y.eQ + Owes(y.writer) + Owes(y.reader) <= 2,
           y.handler = sess[s].handler, y.eClosed = sess[s].eClosed,
           y.handler \in Unstarted => y.writer = "none" /\ y.reader = "none"
    PROVE  IInv'
<1>1. Healthy(sess[s])
    BY DEF IInv
<1>2. Healthy(y) /\ Advance(sess[s], y)
    BY <1>1 DEF Healthy, Advance
<1> QED
    BY <1>2, LocalStep

LEMMA WriterSteps ==
    ASSUME IInv, NEW s \in Sessions, Writer(s)
    PROVE  IInv'
<1> DEFINE x == sess[s]
<1>1. /\ x \in SessionType /\ Len(x.wQ) <= WQCap
      /\ x.eQ + Owes(x.writer) + Owes(x.reader) <= 2
      /\ x.writer # "none" => x.handler \notin Unstarted
      /\ x.eQ \in Nat /\ Owes(x.reader) \in {0, 1} /\ Owes("exited") = 0
      /\ \A g : g # "exited" => Owes(g) = 1
    BY CapsPositive DEF IInv, Healthy, SessionType, Owes
<1> HIDE DEF x
<1>2. CASE WriterTake(s)
    <2> DEFINE y == [x EXCEPT !.writer = Head(x.wQ), !.wQ = Tail(@)]
    <2>1. Local(s, y) /\ x.writer = "idle" /\ x.wQ # <<>>
        BY <1>2 DEF WriterTake, Writing, x
    <2>2. /\ Head(x.wQ) \in {"data", "close"} /\ Tail(x.wQ) \in Seq({"data", "close"})
          /\ Len(Tail(x.wQ)) <= WQCap
        <3>1. x.wQ \in Seq({"data", "close"})
            BY <1>1 DEF SessionType
        <3> QED
            BY <1>1, <2>1, <3>1, CapsPositive
    <2>3. /\ y \in SessionType /\ y.wQ = Tail(x.wQ) /\ y.writer = Head(x.wQ)
          /\ y.eQ = x.eQ /\ y.reader = x.reader
          /\ y.handler = x.handler /\ y.eClosed = x.eClosed
        BY <1>1, <2>2 DEF SessionType
    <2> HIDE DEF y
    <2>4. y.eQ + Owes(y.writer) + Owes(y.reader) <= 2
        BY <1>1, <2>1, <2>2, <2>3
    <2> QED
        BY <1>1, <2>1, <2>2, <2>3, <2>4, GoroutineStep DEF x
<1>3. CASE WriterEnds(s)
    <2> DEFINE y == [x EXCEPT !.writer = "exited"]
    <2>1. Local(s, y) /\ x.writer = "idle"
        BY <1>3 DEF WriterEnds, Writing, x
    <2>2. y \in SessionType /\ y.wQ = x.wQ /\ y.writer = "exited" /\ y.eQ = x.eQ /\ y.reader = x.reader
          /\ y.handler = x.handler /\ y.eClosed = x.eClosed
        BY <1>1 DEF SessionType
    <2> HIDE DEF y
    <2> QED
        BY <1>1, <2>1, <2>2, GoroutineStep DEF x
<1>4. CASE WriterWrites(s)
    <2>1. PICK g \in {"idle", "exited"}, c \in {"open", "gone", "closed"} :
             Local(s, [x EXCEPT !.writer = g, !.conn = c]) /\ x.writer \in {"data", "close"}
        <3>1. CASE Writing(s, "data") /\ Local(s, [x EXCEPT !.writer = "idle"])
            <4>1. [x EXCEPT !.writer = "idle"] = [x EXCEPT !.writer = "idle", !.conn = x.conn]
                BY <1>1 DEF SessionType
            <4>2. x.conn \in {"open", "gone", "closed"}
                BY <1>1 DEF SessionType
            <4> QED
                BY <3>1, <4>1, <4>2 DEF Writing, x
        <3>2. CASE Writing(s, "close") /\ Local(s, [x EXCEPT !.writer = "exited", !.conn = "closed"])
            BY <3>2 DEF Writing, x
        <3> QED
            BY <1>4, <3>1, <3>2 DEF WriterWrites, x
    <2> DEFINE y == [x EXCEPT !.writer = g, !.conn = c]
    <2>2. y \in SessionType /\ y.wQ = x.wQ /\ y.writer = g /\ y.eQ = x.eQ /\ y.reader = x.reader
          /\ y.handler = x.handler /\ y.eClosed = x.eClosed
        BY <1>1 DEF SessionType
    <2>3. Local(s, y)
        BY <2>1
    <2> HIDE DEF y
    <2>4. y.eQ + Owes(y.writer) + Owes(y.reader) <= 2
        BY <1>1, <2>1, <2>2
    <2> QED
        BY <1>1, <2>1, <2>2, <2>3, <2>4, GoroutineStep DEF x
<1>5. CASE WriterFails(s)
    <2> DEFINE y == [x EXCEPT !.writer = "report"]
    <2>1. Local(s, y) /\ x.writer \in {"data", "close"}
        BY <1>5 DEF WriterFails, Writing, x
    <2>2. y \in SessionType /\ y.wQ = x.wQ /\ y.writer = "report" /\ y.eQ = x.eQ /\ y.reader = x.reader
          /\ y.handler = x.handler /\ y.eClosed = x.eClosed
        BY <1>1 DEF SessionType
    <2> HIDE DEF y
    <2> QED
        BY <1>1, <2>1, <2>2, GoroutineStep DEF x
<1>6. CASE WriterReports(s)
    <2> DEFINE z == [x EXCEPT !.writer = "exited"]
               y == [z EXCEPT !.eQ = @ + 1]
    <2>1. Local(s, y) /\ x.writer = "report" /\ x.eQ < EQCap
        BY <1>6 DEF WriterReports, Report, Writing, x
    <2>2. x.eQ + 1 \in 0..EQCap
        BY <1>1, <2>1, CapsPositive
    <2>3. y \in SessionType /\ y.wQ = x.wQ /\ y.writer = "exited" /\ y.eQ = x.eQ + 1
          /\ y.reader = x.reader /\ y.handler = x.handler /\ y.eClosed = x.eClosed
        BY <1>1, <2>2 DEF SessionType
    <2> HIDE DEF y, z
    <2> QED
        BY <1>1, <2>1, <2>3, GoroutineStep DEF x
<1> QED
    BY <1>2, <1>3, <1>4, <1>5, <1>6 DEF Writer

LEMMA ReaderSteps ==
    ASSUME IInv, NEW s \in Sessions, ReaderReads(s) \/ Reader(s)
    PROVE  IInv'
<1> DEFINE x == sess[s]
<1>1. /\ x \in SessionType /\ Len(x.wQ) <= WQCap
      /\ x.eQ + Owes(x.writer) + Owes(x.reader) <= 2
      /\ x.reader # "none" => x.handler \notin Unstarted
      /\ x.eQ \in Nat /\ x.rQ \in Nat /\ Owes(x.writer) \in {0, 1} /\ Owes("exited") = 0
      /\ \A g : g # "exited" => Owes(g) = 1
    BY CapsPositive DEF IInv, Healthy, SessionType, Owes
<1> HIDE DEF x
<1>2. CASE ReaderReads(s) \/ ReaderFails(s)
    <2>1. PICK g \in {"push", "report"} :
             Local(s, [x EXCEPT !.reader = g]) /\ x.reader = "reading"
        BY <1>2 DEF ReaderReads, ReaderFails, Reading, x
    <2> DEFINE y == [x EXCEPT !.reader = g]
    <2>2. y \in SessionType /\ y.wQ = x.wQ /\ y.writer = x.writer /\ y.eQ = x.eQ /\ y.reader = g
          /\ y.handler = x.handler /\ y.eClosed = x.eClosed
        BY <1>1 DEF SessionType
    <2>3. Local(s, y)
        BY <2>1
    <2> HIDE DEF y
    <2>4. y.eQ + Owes(y.writer) + Owes(y.reader) <= 2
        BY <1>1, <2>1, <2>2
    <2> QED
        BY <1>1, <2>1, <2>2, <2>3, <2>4, GoroutineStep DEF x
<1>3. CASE ReaderPushes(s)
    <2> DEFINE y == [x EXCEPT !.rQ = @ + 1, !.reader = "reading"]
    <2>1. Local(s, y) /\ x.reader = "push" /\ x.rQ < RQCap
        BY <1>3 DEF ReaderPushes, Reading, x
    <2>2. x.rQ + 1 \in 0..RQCap
        BY <1>1, <2>1, CapsPositive
    <2>3. y \in SessionType /\ y.wQ = x.wQ /\ y.writer = x.writer /\ y.eQ = x.eQ
          /\ y.reader = "reading" /\ y.handler = x.handler /\ y.eClosed = x.eClosed
        BY <1>1, <2>2 DEF SessionType
    <2> HIDE DEF y
    <2> QED
        BY <1>1, <2>1, <2>3, GoroutineStep DEF x
<1>4. CASE ReaderReports(s)
    <2> DEFINE z == [x EXCEPT !.reader = "exited"]
               y == [z EXCEPT !.eQ = @ + 1]
    <2>1. Local(s, y) /\ x.reader = "report" /\ x.eQ < EQCap
        BY <1>4 DEF ReaderReports, Report, Reading, x
    <2>2. x.eQ + 1 \in 0..EQCap
        BY <1>1, <2>1, CapsPositive
    <2>3. y \in SessionType /\ y.wQ = x.wQ /\ y.writer = x.writer /\ y.eQ = x.eQ + 1
          /\ y.reader = "exited" /\ y.handler = x.handler /\ y.eClosed = x.eClosed
        BY <1>1, <2>2 DEF SessionType
    <2> HIDE DEF y, z
    <2> QED
        BY <1>1, <2>1, <2>3, GoroutineStep DEF x
<1> QED
    BY <1>2, <1>3, <1>4 DEF Reader

\* A tile goroutine has its image, or the peer leaves.
LEMMA OtherSteps ==
    ASSUME IInv, NEW s \in Sessions,
           PeerLeaves(s) \/ \E q \in Requestors : TileReady(s, q)
    PROVE  IInv'
<1> DEFINE x == sess[s]
<1>1. x \in SessionType /\ Healthy(x)
    BY DEF IInv, Healthy
<1> HIDE DEF x
<1>2. CASE PeerLeaves(s)
    <2> DEFINE y == [x EXCEPT !.conn = "gone"]
    <2>1. Local(s, y)
        BY <1>2 DEF PeerLeaves, x
    <2>2. Healthy(y) /\ Advance(x, y)
        BY <1>1 DEF SessionType, Healthy, Advance
    <2> QED
        BY <2>1, <2>2, LocalStep DEF x
<1>3. ASSUME NEW q \in Requestors, TileReady(s, q) PROVE IInv'
    <2>1. PICK g \in {"send", "none"} : Local(s, [x EXCEPT !.tiles[q] = g])
        BY <1>3 DEF TileReady, x
    <2>2. Healthy([x EXCEPT !.tiles[q] = g]) /\ Advance(x, [x EXCEPT !.tiles[q] = g])
        BY <1>1 DEF SessionType, Healthy, Advance
    <2> QED
        BY <2>1, <2>2, LocalStep DEF x
<1> QED
    BY <1>2, <1>3

-----------------------------------------------------------------------------
(* Steps of a session that others see *)

LEMMA GetExitStep ==
    ASSUME IInv, NEW s \in Sessions, GetExit(s)
    PROVE  IInv'
<1> DEFINE x == sess[s]
           y == [x EXCEPT !.handler = "bye"]
<1>1. /\ x.handler = "loop" /\ Becomes(s, y) /\ webExit' = webExit - 1 /\ webExit > 0
      /\ UNCHANGED <<routerVars, main, web, routerExit, late, crashed>>
    BY DEF GetExit, At
<1>2. x \in SessionType /\ Healthy(x)
    BY DEF IInv, Healthy
<1> HIDE DEF x
<1>3. Healthy(y) /\ Advance(x, y)
    BY <1>1, <1>2 DEF SessionType, Healthy, Advance, Unstarted, Unconnected, Uncounted
<1>4. web' \in {"serve", "stopping", "done"} /\ webExit' \in 0..1
    BY <1>1 DEF IInv, RestTypes
<1> QED
    BY <1>1, <1>3, <1>4, AdvanceStep DEF x

LEMMA BecomesFacts ==
    ASSUME IInv, NEW s \in Sessions, NEW y, Healthy(y), Becomes(s, y)
    PROVE  /\ sess' \in [Sessions -> SessionType] /\ \A r \in Sessions : Healthy(sess'[r])
           /\ sess'[s] = y /\ \A r \in Sessions \ {s} : sess'[r] = sess[r]
BY DEF IInv, Becomes, Healthy

LEMMA CountStep ==
    ASSUME IInv, NEW s \in Sessions, Count(s)
    PROVE  IInv'
<1> DEFINE x == sess[s]
           y == [x EXCEPT !.handler = "connect"]
<1>1. /\ x.handler = "upgraded" /\ Becomes(s, y)
      /\ late' = IF main \in {"router", "done"} THEN late \cup {s} ELSE late
      /\ UNCHANGED <<connects, disconnects, clients, router, overtaken, main, web, webExit,
                     routerExit, crashed>>
    BY DEF Count, At, routerVars, mainVars
<1>2. x \in SessionType /\ Healthy(x)
    BY DEF IInv, Healthy
<1> HIDE DEF x
<1>3. Healthy(y) /\ y.handler = "connect" /\ y.eClosed = x.eClosed /\ ~x.eClosed
    BY <1>1, <1>2 DEF SessionType, Healthy, Unstarted, Unconnected
<1> HIDE DEF y
<1>4. /\ sess' \in [Sessions -> SessionType] /\ \A r \in Sessions : Healthy(sess'[r])
      /\ sess'[s] = y /\ \A r \in Sessions \ {s} : sess'[r] = sess[r]
    BY <1>1, <1>3, BecomesFacts
<1>5. RestTypes'
    BY <1>1 DEF IInv, RestTypes
<1>6. /\ \A i \in DOMAIN connects : connects[i] \in Sessions \ {s}
      /\ \A i \in DOMAIN disconnects : disconnects[i] \in Sessions \ {s}
      /\ clients \subseteq Sessions \ {s}
    <2>1. connects \in Seq(Sessions) /\ disconnects \in Seq(Sessions) /\ clients \subseteq Sessions
        BY DEF IInv, RestTypes
    <2>2. x.handler # "done" /\ x.handler \in Unconnected
        BY <1>1 DEF Unconnected
    <2> QED
        BY <2>1, <2>2 DEF IInv, Routed, x
<1>7. Routed' /\ QueuedLeavers'
    BY <1>1, <1>4, <1>6 DEF IInv, Routed, QueuedLeavers
<1>8. Drained'
    <2>1. Counted' \subseteq Counted \cup {s}
        BY <1>4 DEF Counted
    <2> QED
        BY <1>1, <2>1 DEF IInv, Drained
<1>9. EventsOpenWhileUsed' /\ RouterForgetsLeavers'
    BY <1>1, <1>3, <1>4, <1>6 DEF IInv, EventsOpenWhileUsed, RouterForgetsLeavers
<1> QED
    BY <1>4, <1>5, <1>7, <1>8, <1>9 DEF IInv

\* A channel of the router takes a session.
LEMMA SentTo ==
    ASSUME NEW q \in Seq(Sessions), NEW s \in Sessions, Len(q) < ConnCap
    PROVE  /\ Append(q, s) \in Seq(Sessions) /\ Len(Append(q, s)) <= ConnCap
           /\ \A i \in DOMAIN Append(q, s) :
                 \/ i \in DOMAIN q /\ Append(q, s)[i] = q[i]
                 \/ i = Len(q) + 1 /\ Append(q, s)[i] = s /\ i \notin DOMAIN q
BY CapsPositive

LEMMA ConnectStep ==
    ASSUME IInv, NEW s \in Sessions, Connect(s)
    PROVE  IInv'
<1> DEFINE x == sess[s]
           y == [x EXCEPT !.handler = "hello"]
<1>1. /\ x.handler = "connect" /\ Becomes(s, y) /\ connects' = Append(connects, s)
      /\ Len(connects) < ConnCap
      /\ UNCHANGED <<disconnects, clients, router, overtaken, main, web, webExit,
                     routerExit, crashed, late>>
    BY DEF Connect, At, mainVars
<1>2. x \in SessionType /\ Healthy(x)
    BY DEF IInv, Healthy
<1> HIDE DEF x
<1>3. Healthy(y) /\ y.handler = "hello" /\ y.eClosed = x.eClosed /\ ~x.eClosed
    BY <1>1, <1>2 DEF SessionType, Healthy, Unstarted, Unconnected
<1> HIDE DEF y
<1>4. /\ sess' \in [Sessions -> SessionType] /\ \A r \in Sessions : Healthy(sess'[r])
      /\ sess'[s] = y /\ \A r \in Sessions \ {s} : sess'[r] = sess[r]
    BY <1>1, <1>3, BecomesFacts
<1>5. connects \in Seq(Sessions) /\ disconnects \in Seq(Sessions) /\ clients \subseteq Sessions
    BY DEF IInv, RestTypes
<1>6. /\ connects' \in Seq(Sessions) /\ Len(connects') <= ConnCap
      /\ \A i \in DOMAIN connects' :
            \/ i \in DOMAIN connects /\ connects'[i] = connects[i]
            \/ i = Len(connects) + 1 /\ connects'[i] = s /\ i \notin DOMAIN connects
    BY <1>1, <1>5, SentTo
<1>7. RestTypes'
    BY <1>1, <1>6 DEF IInv, RestTypes
<1>8. /\ \A i \in DOMAIN connects : connects[i] \in Sessions \ {s}
      /\ \A i \in DOMAIN disconnects : disconnects[i] \in Sessions \ {s}
      /\ clients \subseteq Sessions \ {s}
    <2>1. x.handler # "done" /\ x.handler \in Unconnected
        BY <1>1 DEF Unconnected
    <2> QED
        BY <1>5, <2>1 DEF IInv, Routed, x
<1>9. Routed'
    <2>1. "hello" \notin Unconnected
        BY DEF Unconnected
    <2>2. \A i \in DOMAIN disconnects' : sess'[disconnects'[i]].handler = "done"
        BY <1>1, <1>4, <1>8 DEF IInv, Routed
    <2>3. /\ \A i \in DOMAIN connects' : sess'[connects'[i]].handler \notin Unconnected
          /\ \A i \in DOMAIN connects' : connects'[i] \notin clients'
        BY <1>1, <1>3, <1>4, <1>6, <1>8, <2>1 DEF IInv, Routed
    <2>4. \A r \in clients' : sess'[r].handler \notin Unconnected
        BY <1>1, <1>4, <1>8 DEF IInv, Routed
    <2>5. \A i, j \in DOMAIN connects' : connects'[i] = connects'[j] => i = j
        BY <1>6, <1>8 DEF IInv, Routed
    <2> QED
        BY <2>2, <2>3, <2>4, <2>5 DEF Routed
<1>10. QueuedLeavers'
    BY <1>1, <1>3, <1>4, <1>6, <1>8 DEF IInv, QueuedLeavers
<1>11. Drained'
    <2>1. Counted' = Counted
        BY <1>1, <1>3, <1>4 DEF Counted, x
    <2> QED
        BY <1>1, <2>1 DEF IInv, Drained
<1>12. EventsOpenWhileUsed' /\ RouterForgetsLeavers'
    BY <1>1, <1>3, <1>4, <1>8 DEF IInv, EventsOpenWhileUsed, RouterForgetsLeavers
<1> QED
    BY <1>4, <1>7, <1>9, <1>10, <1>11, <1>12 DEF IInv

LEMMA LeaveStep ==
    ASSUME IInv, NEW s \in Sessions, Leave(s)
    PROVE  IInv'
<1> DEFINE x == sess[s]
           y == [x EXCEPT !.conn = "closed", !.handler = "done"]
<1>1. /\ x.handler = "disconnect" /\ Becomes(s, y) /\ disconnects' = Append(disconnects, s)
      /\ Len(disconnects) < ConnCap
      /\ UNCHANGED <<connects, clients, router, overtaken, main, web, webExit,
                     routerExit, crashed, late>>
    BY DEF Leave, At, mainVars
<1>2. x \in SessionType /\ Healthy(x)
    BY DEF IInv, Healthy
<1> HIDE DEF x
<1>3. Healthy(y) /\ y.handler = "done" /\ y.eClosed = x.eClosed
    BY <1>1, <1>2 DEF SessionType, Healthy, Unstarted, Unconnected
<1> HIDE DEF y
<1>4. /\ sess' \in [Sessions -> SessionType] /\ \A r \in Sessions : Healthy(sess'[r])
      /\ sess'[s] = y /\ \A r \in Sessions \ {s} : sess'[r] = sess[r]
    BY <1>1, <1>3, BecomesFacts
<1>5. connects \in Seq(Sessions) /\ disconnects \in Seq(Sessions) /\ clients \subseteq Sessions
    BY DEF IInv, RestTypes
<1>6. /\ disconnects' \in Seq(Sessions) /\ Len(disconnects') <= ConnCap
      /\ \A i \in DOMAIN disconnects' :
            \/ i \in DOMAIN disconnects /\ disconnects'[i] = disconnects[i]
            \/ disconnects'[i] = s
    BY <1>1, <1>5, SentTo
<1>7. RestTypes'
    BY <1>1, <1>6 DEF IInv, RestTypes
<1>8. /\ \A r \in Sessions : sess'[r].eClosed = sess[r].eClosed
      /\ \A r \in Sessions : sess'[r].handler \in Unconnected => sess[r].handler \in Unconnected
      /\ \A r \in Sessions : sess[r].handler = "done" => sess'[r].handler = "done"
    BY <1>3, <1>4 DEF Unconnected, x
<1>9. Routed'
    <2>1. \A i \in DOMAIN disconnects' : sess'[disconnects'[i]].handler = "done"
        BY <1>3, <1>4, <1>5, <1>6, <1>8 DEF IInv, Routed
    <2>2. \A i \in DOMAIN connects : connects[i] \in Sessions
        BY <1>5
    <2> QED
        BY <1>1, <1>5, <1>8, <2>1, <2>2 DEF IInv, Routed
<1>10. QueuedLeavers'
    BY <1>1, <1>5, <1>8 DEF IInv, QueuedLeavers
<1>11. Drained'
    <2>1. Counted' \subseteq Counted
        BY <1>3, <1>4 DEF Counted
    <2> QED
        BY <1>1, <2>1 DEF IInv, Drained
<1>12. EventsOpenWhileUsed' /\ RouterForgetsLeavers'
    BY <1>1, <1>5, <1>8 DEF IInv, EventsOpenWhileUsed, RouterForgetsLeavers
<1> QED
    BY <1>4, <1>7, <1>9, <1>10, <1>11, <1>12 DEF IInv

-----------------------------------------------------------------------------
(* The router *)

\* A channel of the router gives a session.
LEMMA TakenFrom ==
    ASSUME NEW q \in Seq(Sessions), q # <<>>
    PROVE  /\ Head(q) \in Sessions /\ Tail(q) \in Seq(Sessions) /\ Len(Tail(q)) <= Len(q)
           /\ Len(q) \in Nat /\ Len(Tail(q)) \in Nat
           /\ 1 \in DOMAIN q /\ Head(q) = q[1]
           /\ \A i \in DOMAIN Tail(q) : i + 1 \in DOMAIN q /\ Tail(q)[i] = q[i + 1]
                                       /\ i \in Nat /\ i + 1 # 1
BY HeadTailProperties

LEMMA RouterConnectStep ==
    ASSUME IInv, RouterConnect
    PROVE  IInv'
<1> DEFINE s == Head(connects)
<1>1. /\ connects # <<>> /\ clients' = clients \cup {s} /\ connects' = Tail(connects)
      /\ router = "run"
      /\ UNCHANGED <<sess, disconnects, router, overtaken, main, web, webExit, routerExit,
                     crashed, late>>
    BY DEF RouterConnect, Routing, mainVars
<1>2. connects \in Seq(Sessions) /\ clients \subseteq Sessions /\ Len(connects) <= ConnCap
    BY DEF IInv, RestTypes
<1>3. /\ s \in Sessions /\ connects' \in Seq(Sessions) /\ Len(connects') <= ConnCap
      /\ 1 \in DOMAIN connects /\ s = connects[1]
      /\ \A i \in DOMAIN connects' : /\ i + 1 \in DOMAIN connects /\ i + 1 # 1 /\ i \in Nat
                                     /\ connects'[i] = connects[i + 1]
    BY <1>1, <1>2, TakenFrom, CapsPositive
<1> HIDE DEF s
<1>4. RestTypes'
    BY <1>1, <1>3 DEF IInv, RestTypes
<1>5. \A i \in DOMAIN connects' : connects'[i] # s
    BY <1>3 DEF IInv, Routed
<1>6. Routed'
    <2>1. \A i \in DOMAIN disconnects' : sess'[disconnects'[i]].handler = "done"
        BY <1>1 DEF IInv, Routed
    <2>2. /\ \A i \in DOMAIN connects' : sess'[connects'[i]].handler \notin Unconnected
          /\ \A i \in DOMAIN connects' : connects'[i] \notin clients'
        BY <1>1, <1>3, <1>5 DEF IInv, Routed
    <2>3. \A r \in clients' : sess'[r].handler \notin Unconnected
        BY <1>1, <1>3 DEF IInv, Routed
    <2>4. \A i, j \in DOMAIN connects' : connects'[i] = connects'[j] => i = j
        <3> SUFFICES ASSUME NEW i \in DOMAIN connects', NEW j \in DOMAIN connects',
                            connects'[i] = connects'[j]
                     PROVE  i = j
            OBVIOUS
        <3>1. i + 1 = j + 1
            BY <1>3 DEF IInv, Routed
        <3> QED
            BY <1>3, <3>1
    <2> QED
        BY <2>1, <2>2, <2>3, <2>4 DEF Routed
<1>7. QueuedLeavers' /\ Drained' /\ EventsOpenWhileUsed'
    <2>1. Counted' = Counted
        BY <1>1 DEF Counted
    <2> QED
        BY <1>1, <1>3, <2>1 DEF IInv, QueuedLeavers, Drained, EventsOpenWhileUsed
<1>8. RouterForgetsLeavers'
    <2>1. sess[s].eClosed => s \in overtaken
        BY <1>1, <1>3 DEF IInv, QueuedLeavers
    <2> QED
        BY <1>1, <2>1 DEF IInv, RouterForgetsLeavers
<1> QED
    BY <1>1, <1>4, <1>6, <1>7, <1>8 DEF IInv

LEMMA RouterDisconnectStep ==
    ASSUME IInv, RouterDisconnect
    PROVE  IInv'
<1> DEFINE s == Head(disconnects)
           x == sess[s]
           y == [x EXCEPT !.eClosed = TRUE]
<1>1. /\ disconnects # <<>> /\ clients' = clients \ {s} /\ disconnects' = Tail(disconnects)
      /\ Becomes(s, y) /\ overtaken' = IF s \in clients THEN overtaken ELSE overtaken \cup {s}
      /\ UNCHANGED <<connects, router, main, web, webExit, routerExit, crashed, late>>
    BY DEF RouterDisconnect, ClientsWithout, mainVars
<1>2. /\ connects \in Seq(Sessions) /\ clients \subseteq Sessions /\ overtaken \subseteq Sessions
      /\ disconnects \in Seq(Sessions) /\ Len(disconnects) <= ConnCap
    BY DEF IInv, RestTypes
<1>3. /\ s \in Sessions /\ disconnects' \in Seq(Sessions) /\ Len(disconnects') <= ConnCap
      /\ 1 \in DOMAIN disconnects /\ s = disconnects[1]
      /\ \A i \in DOMAIN disconnects' : /\ i + 1 \in DOMAIN disconnects
                                        /\ disconnects'[i] = disconnects[i + 1]
    BY <1>1, <1>2, TakenFrom, CapsPositive
<1> HIDE DEF s
<1>4. x \in SessionType /\ Healthy(x) /\ x.handler = "done"
    BY <1>3 DEF IInv, Healthy, Routed
<1> HIDE DEF x
<1>5. Healthy(y) /\ y.handler = "done"
    BY <1>4 DEF Healthy, SessionType, Unstarted, Unconnected
<1> HIDE DEF y
<1>6. /\ sess' \in [Sessions -> SessionType] /\ \A r \in Sessions : Healthy(sess'[r])
      /\ sess'[s] = y /\ \A r \in Sessions \ {s} : sess'[r] = sess[r]
    BY <1>1, <1>3, <1>5, BecomesFacts
<1>7. \A r \in Sessions : sess'[r].handler = sess[r].handler
    BY <1>4, <1>5, <1>6 DEF x
<1>8. RestTypes'
    BY <1>1, <1>2, <1>3 DEF IInv, RestTypes
<1>9. Routed'
    <2>1. \A i \in DOMAIN disconnects' : sess'[disconnects'[i]].handler = "done"
        <3>1. \A i \in DOMAIN disconnects : disconnects[i] \in Sessions
            BY <1>2
        <3> QED
            BY <1>3, <1>7, <3>1 DEF IInv, Routed
    <2>2. \A i \in DOMAIN connects : connects[i] \in Sessions
        BY <1>2
    <2> QED
        BY <1>1, <1>2, <1>7, <2>1, <2>2 DEF IInv, Routed
<1>10. QueuedLeavers'
    <2> SUFFICES ASSUME router' = "run", NEW i \in DOMAIN connects', sess'[connects'[i]].eClosed
                 PROVE  connects'[i] \in overtaken'
        BY DEF QueuedLeavers
    <2>1. connects'[i] = connects[i] /\ i \in DOMAIN connects /\ connects[i] \in Sessions
        BY <1>1, <1>2
    <2>2. CASE connects[i] = s
        <3>1. s \notin clients
            BY <2>1, <2>2 DEF IInv, Routed
        <3> QED
            BY <1>1, <2>1, <2>2, <3>1
    <2>3. CASE connects[i] # s
        BY <1>1, <1>6, <2>1, <2>3 DEF IInv, QueuedLeavers
    <2> QED
        BY <2>2, <2>3
<1>11. Drained'
    <2>1. Counted' = Counted
        BY <1>7 DEF Counted
    <2> QED
        BY <1>1, <2>1 DEF IInv, Drained
<1>12. EventsOpenWhileUsed'
    BY <1>1, <1>5, <1>6 DEF IInv, EventsOpenWhileUsed
<1>13. RouterForgetsLeavers'
    BY <1>1, <1>2, <1>6 DEF IInv, RouterForgetsLeavers
<1> QED
    BY <1>6, <1>8, <1>9, <1>10, <1>11, <1>12, <1>13 DEF IInv

LEMMA RouterExitStep ==
    ASSUME IInv, RouterExit
    PROVE  IInv'
<1>1. /\ routerExit > 0 /\ routerExit' = routerExit - 1 /\ router' = "exited"
      /\ sess' = [s \in Sessions |-> [sess[s] EXCEPT !.eClosed = @ \/ s \in clients]]
      /\ UNCHANGED <<connects, disconnects, clients, overtaken, main, web, webExit, crashed, late>>
    BY DEF RouterExit, AfterExit
<1>2. /\ connects \in Seq(Sessions) /\ clients \subseteq Sessions
      /\ disconnects \in Seq(Sessions) /\ routerExit \in 0..1
    BY DEF IInv, RestTypes
<1>3. ASSUME NEW s \in Sessions
      PROVE  /\ sess'[s] \in SessionType /\ Healthy(sess'[s])
             /\ sess'[s].handler = sess[s].handler
             /\ sess'[s].eClosed <=> sess[s].eClosed \/ s \in clients
    <2> DEFINE x == sess[s]
               y == [x EXCEPT !.eClosed = @ \/ s \in clients]
    <2>1. x \in SessionType /\ Healthy(x)
        BY DEF IInv, Healthy
    <2>2. s \in clients => x.handler \notin Unconnected
        BY DEF IInv, Routed
    <2>3. sess'[s] = y
        BY <1>1
    <2> HIDE DEF x
    <2>4. (x.eClosed \/ s \in clients) \in BOOLEAN
        OBVIOUS
    <2>5. y \in SessionType /\ y.handler = x.handler /\ (y.eClosed <=> x.eClosed \/ s \in clients)
        BY <2>1, <2>4 DEF SessionType
    <2>6. y.wQ = x.wQ /\ y.eQ = x.eQ /\ y.writer = x.writer /\ y.reader = x.reader
        BY <2>1 DEF SessionType
    <2> HIDE DEF y
    <2>7. Healthy(y)
        BY <2>1, <2>2, <2>5, <2>6 DEF Healthy
    <2> QED
        BY <2>3, <2>5, <2>7 DEF x
<1>4. sess' \in [Sessions -> SessionType]
    BY <1>1, <1>3
<1>5. RestTypes'
    BY <1>1, <1>2 DEF IInv, RestTypes
<1>6. Routed'
    <2>1. /\ \A i \in DOMAIN connects : connects[i] \in Sessions
          /\ \A i \in DOMAIN disconnects : disconnects[i] \in Sessions
        BY <1>2
    <2> QED
        BY <1>1, <1>2, <1>3, <2>1 DEF IInv, Routed
<1>7. QueuedLeavers'
    BY <1>1 DEF QueuedLeavers
<1>8. Drained'
    <2>1. Counted' = Counted
        BY <1>3 DEF Counted
    <2> QED
        BY <1>1, <1>2, <2>1 DEF IInv, Drained
<1>9. EventsOpenWhileUsed'
    <2>1. Counted \subseteq late
        BY <1>1 DEF IInv, Drained
    <2> QED
        BY <1>1, <1>3, <2>1 DEF IInv, EventsOpenWhileUsed, Routed, Counted, Unconnected
<1>10. RouterForgetsLeavers'
    BY <1>1 DEF IInv, RouterForgetsLeavers
<1> QED
    BY <1>3, <1>4, <1>5, <1>6, <1>7, <1>8, <1>9, <1>10 DEF IInv

-----------------------------------------------------------------------------
(* main, the web server and the death of the process *)

LEMMA MainSteps ==
    ASSUME IInv, UNCHANGED <<sess, connects, disconnects, clients, router, overtaken, late>>,
           RestTypes', Drained', crashed' = "router" => overtaken # {}
    PROVE  IInv'
<1>1. Routed' /\ QueuedLeavers' /\ EventsOpenWhileUsed'
    BY DEF IInv, Routed, QueuedLeavers, EventsOpenWhileUsed
<1>2. RouterForgetsLeavers'
    BY DEF IInv, RouterForgetsLeavers
<1> QED
    BY <1>1, <1>2 DEF IInv

LEMMA OutsideSteps ==
    ASSUME IInv, Main \/ StopWeb \/ WebExits \/ WebDone
    PROVE  IInv'
<1>1. UNCHANGED <<sess, connects, disconnects, clients, router, overtaken, late, crashed>>
    BY DEF Main, StopWeb, WebExits, WebDone, WebStopped, ClientsDropped, RouterStopped,
           UnchangedByMain, routerVars
<1>2. RestTypes'
    BY <1>1 DEF IInv, RestTypes, Main, StopWeb, WebExits, WebDone, WebStopped, ClientsDropped,
           RouterStopped
<1>3. Drained'
    <2>1. Counted' = Counted
        BY <1>1 DEF Counted
    <2>2. CASE ClientsDropped
        BY <1>1, <2>1, <2>2 DEF Drained, ClientsDropped, WaitedFor
    <2>3. CASE StopWeb \/ WebStopped
        BY <1>1, <2>3 DEF IInv, Drained, StopWeb, WebStopped, MainAt, RestTypes
    <2>4. CASE RouterStopped \/ WebExits \/ WebDone
        BY <1>1, <2>1, <2>4 DEF IInv, Drained, RouterStopped, MainAt, WebExits, WebDone
    <2> QED
        BY <2>2, <2>3, <2>4 DEF Main
<1> QED
    BY <1>1, <1>2, <1>3, MainSteps DEF IInv, RouterForgetsLeavers

\* The router dies of a session it has kept, and it kept it because the connect
\* was overtaken.
LEMMA CrashSteps ==
    ASSUME IInv, \/ RouterPanics \/ WebFatal
                 \/ \E s \in Sessions, q \in Requestors : TilePanics(s, q)
    PROVE  IInv'
<1>1. PICK why \in {"tile", "router", "fatal"} :
         Crash(why) /\ (why = "router" => RouterPanics)
    BY DEF RouterPanics, WebFatal, TilePanics
<1>2. /\ UNCHANGED <<sess, connects, disconnects, clients, router, overtaken, late, main, web,
                     webExit, routerExit>>
      /\ crashed' = why
    BY <1>1 DEF Crash, routerVars, mainVars
<1>3. RestTypes' /\ Drained'
    <2>1. Counted' = Counted
        BY <1>2 DEF Counted
    <2> QED
        BY <1>2, <2>1 DEF IInv, RestTypes, Drained
<1>4. RouterPanics => overtaken # {}
    BY DEF IInv, RouterForgetsLeavers, RouterPanics, Routing
<1> QED
    BY <1>1, <1>2, <1>3, <1>4, MainSteps

LEMMA NextIInv == IInv /\ [Next]_vars => IInv'
<1> SUFFICES ASSUME IInv, [Next]_vars PROVE IInv'
    OBVIOUS
<1>1. ASSUME NEW s \in Sessions, Upgrade(s) \/ PeerLeaves(s) \/ Ping(s) \/ ReaderReads(s)
      PROVE  IInv'
    BY <1>1, HandlerSteps, OtherSteps, ReaderSteps
<1>2. ASSUME NEW s \in Sessions, Handler(s) PROVE IInv'
    BY <1>2, HandlerSteps, SendSteps, CountStep, ConnectStep, GetExitStep, LeaveStep DEF Handler
<1>3. ASSUME NEW s \in Sessions, Writer(s) \/ Reader(s) PROVE IInv'
    BY <1>3, WriterSteps, ReaderSteps
<1>4. ASSUME NEW s \in Sessions, NEW q \in Requestors, Tile(s, q) PROVE IInv'
    BY <1>4, OtherSteps, SendSteps, CrashSteps DEF Tile
<1>5. CASE Router
    BY <1>5, RouterConnectStep, RouterDisconnectStep, RouterExitStep, CrashSteps DEF Router
<1>6. CASE Main \/ Web \/ StopWeb
    BY <1>6, OutsideSteps, CrashSteps DEF Web
<1>7. CASE UNCHANGED vars
    <2>1. /\ UNCHANGED <<sess, connects, disconnects, clients, router, overtaken, late, main,
                         web, webExit, routerExit, crashed>>
          /\ Counted' = Counted
        BY <1>7 DEF vars, routerVars, mainVars, Counted
    <2>2. RestTypes' /\ Drained'
        BY <2>1 DEF IInv, RestTypes, Drained
    <2> QED
        BY <2>1, <2>2, MainSteps DEF IInv, RouterForgetsLeavers
<1> QED
    BY <1>1, <1>2, <1>3, <1>4, <1>5, <1>6, <1>7 DEF Next

LEMMA Inductive == Spec => []IInv
BY InitIInv, NextIInv, PTL DEF Spec

\* With room for two errors in eQ, neither the writer nor the reader ever waits
\* to report one, whatever the handler does (ws.go:96, 288, 302): each owes one.
THEOREM ErrorsAreDelivered == Spec => []ErrorsNeverBlock
<1>1. IInv => ErrorsNeverBlock
    BY RoomForErrors
<1> QED
    BY <1>1, Inductive, PTL

\* No handler uses an events channel the router has closed, unless it was counted
\* after main had waited for the sessions (ws.go:76, main.go:114).
THEOREM OpenUntilDone == Spec => []EventsOpenWhileUsed
<1>1. IInv => EventsOpenWhileUsed
    BY DEF IInv
<1> QED
    BY <1>1, Inductive, PTL

\* The router closes no channel twice and keeps nobody who has left, unless it took
\* a disconnect before the connect sent earlier (eventRouter.go:36-43).
THEOREM LeaversForgotten == Spec => []RouterForgetsLeavers
<1>1. IInv => RouterForgetsLeavers
    BY DEF IInv
<1> QED
    BY <1>1, Inductive, PTL

=============================================================================
