------------------------- MODULE RegionStorageProofs -------------------------
(***************************************************************************)
(* Theorems about RegionStorage, for every set of calls, regions, chunks   *)
(* and workers, every capacity of the channels and every number of failing *)
(* file operations.                                                        *)
(***************************************************************************)
EXTENDS RegionStorage, SequenceTheorems, TLAPS

-----------------------------------------------------------------------------
(* Where a message is in a channel *)

Occurs(s, x) == \E i \in DOMAIN s : s[i] = x
Once(s, x)   == \A i, j \in DOMAIN s : s[i] = x /\ s[j] = x => i = j

LEMMA AppendOccurs ==
    ASSUME NEW S, NEW s \in Seq(S), NEW e \in S, NEW x
    PROVE  /\ Append(s, e) \in Seq(S) /\ Len(Append(s, e)) = Len(s) + 1
           /\ Occurs(Append(s, e), x) <=> Occurs(s, x) \/ x = e
           /\ Once(s, x) /\ (x = e => ~Occurs(s, x)) => Once(Append(s, e), x)
<1> DEFINE t == Append(s, e)
<1>1. /\ t \in Seq(S) /\ Len(t) = Len(s) + 1 /\ Len(s) \in Nat
      /\ DOMAIN s = 1..Len(s) /\ DOMAIN t = 1..(Len(s) + 1)
      /\ \A i \in 1..Len(s) : t[i] = s[i]
      /\ t[Len(s) + 1] = e
    OBVIOUS
<1>2. Occurs(t, x) <=> Occurs(s, x) \/ x = e
    BY <1>1 DEF Occurs
<1>3. ASSUME Once(s, x), x = e => ~Occurs(s, x) PROVE Once(t, x)
    <2> SUFFICES ASSUME NEW i \in DOMAIN t, NEW j \in DOMAIN t, t[i] = x, t[j] = x
                 PROVE  i = j
        BY DEF Once
    <2>1. CASE x = e
        <3>1. i \notin 1..Len(s) /\ j \notin 1..Len(s)
            BY <1>1, <1>3, <2>1 DEF Occurs
        <3> QED
            BY <1>1, <3>1
    <2>2. CASE x # e
        BY <1>1, <1>3, <2>2 DEF Once
    <2> QED
        BY <2>1, <2>2
<1> QED
    BY <1>1, <1>2, <1>3

LEMMA TailOccurs ==
    ASSUME NEW S, NEW s \in Seq(S), s # <<>>, NEW x
    PROVE  /\ Head(s) \in S /\ Tail(s) \in Seq(S) /\ Len(Tail(s)) = Len(s) - 1
           /\ Occurs(s, x) <=> Occurs(Tail(s), x) \/ x = Head(s)
           /\ Once(s, x) => Once(Tail(s), x)
           /\ Once(s, x) /\ x = Head(s) => ~Occurs(Tail(s), x)
<1> DEFINE t == Tail(s)
<1>1. /\ t \in Seq(S) /\ Len(t) = Len(s) - 1 /\ Len(s) \in Nat \ {0}
      /\ DOMAIN s = 1..Len(s) /\ DOMAIN t = 1..(Len(s) - 1)
      /\ \A i \in 1..(Len(s) - 1) : t[i] = s[i + 1]
      /\ Head(s) = s[1] /\ Head(s) \in S
    OBVIOUS
<1>2. Occurs(s, x) => Occurs(t, x) \/ x = Head(s)
    <2> SUFFICES ASSUME NEW i \in 1..Len(s), s[i] = x, i # 1 PROVE Occurs(t, x)
        BY <1>1 DEF Occurs
    <2>1. i - 1 \in 1..(Len(s) - 1) /\ t[i - 1] = s[i]
        BY <1>1
    <2> QED
        BY <1>1, <2>1 DEF Occurs
<1>3. Occurs(t, x) \/ x = Head(s) => Occurs(s, x)
    <2>1. 1 \in 1..Len(s)
        BY <1>1
    <2>2. ASSUME NEW i \in 1..(Len(s) - 1) PROVE i + 1 \in 1..Len(s)
        BY <1>1
    <2> QED
        BY <1>1, <2>1, <2>2 DEF Occurs
<1>4. Once(s, x) => Once(t, x)
    <2> SUFFICES ASSUME Once(s, x), NEW i \in 1..(Len(s) - 1), NEW j \in 1..(Len(s) - 1),
                        t[i] = x, t[j] = x
                 PROVE  i = j
        BY <1>1 DEF Once
    <2>1. i + 1 \in 1..Len(s) /\ j + 1 \in 1..Len(s) /\ s[i + 1] = x /\ s[j + 1] = x
        BY <1>1
    <2>2. i + 1 = j + 1
        BY <1>1, <2>1 DEF Once
    <2> QED
        BY <2>2
<1>5. Once(s, x) /\ x = Head(s) => ~Occurs(t, x)
    <2> SUFFICES ASSUME Once(s, x), x = Head(s), NEW i \in 1..(Len(s) - 1), t[i] = x
                 PROVE  FALSE
        BY <1>1 DEF Occurs
    <2>1. i + 1 \in 1..Len(s) /\ 1 \in 1..Len(s) /\ s[i + 1] = x /\ s[1] = x
        BY <1>1
    <2>2. i + 1 = 1
        BY <1>1, <2>1 DEF Once
    <2> QED
        BY <2>2
<1> QED
    BY <1>1, <1>2, <1>3, <1>4, <1>5

-----------------------------------------------------------------------------
(* The inductive invariant *)

Messages == {CallMsg(c) : c \in Calls} \cup {CloseMsg(g) : g \in Regions} \cup {TickMsg}

\* The type invariant, by part.
ClientTypes ==
    /\ call \in [Calls -> [op : Ops, chunk : Chunks] \cup {NoCall}]
    /\ status \in [Calls -> {"new", "sent", "done", "forgotten"}]
    /\ result \in [Calls -> {"none", "nil", "error", Old} \cup Calls]

RouterTypes ==
    /\ requests \in Seq(Messages) /\ Len(requests) <= ReqCap
    /\ reqClosed \in BOOLEAN /\ panicked \in BOOLEAN
    /\ routing \in Calls \cup {Nil}
    /\ router \in {"run", "stopped"}
    /\ table \in [Regions -> [worker : Workers \cup {Nil}, exists : BOOLEAN]]

WorkerTypes ==
    /\ wpc \in [Workers -> {"none", "opening", "serving", "signal", "draining", "done"}]
    /\ wreg \in [Workers -> Regions \cup {Nil}]
    /\ wcur \in [Workers -> Calls \cup {Nil}]
    /\ wchan \in [Workers -> Seq(Calls)]
    /\ \A w \in Workers : Len(wchan[w]) <= ChanCap
    /\ wclosed \in [Workers -> BOOLEAN]

FileTypes ==
    /\ file \in SUBSET Regions
    /\ data \in [Chunks -> Calls \cup {Old, Nil}]
    /\ damaged \in SUBSET Chunks
    /\ faults \in 0..MaxFaults
    /\ broken \in SUBSET Regions
    /\ written \in SUBSET Calls

\* Worker w has call c, in its hands or in its channel.
At(c, w) == wcur[w] = c \/ InChan(c, w)

\* A call that was sent and not answered is in exactly one place, once.
Placed(c) ==
    /\ status[c] = "sent" <=> Requested(c) \/ routing = c \/ Held(c)
    /\ routing = c => ~Requested(c) /\ ~Held(c)
    /\ Requested(c) => ~Held(c)
    /\ Once(requests, CallMsg(c))
    /\ \A w, v \in Workers : At(c, w) /\ At(c, v) => v = w
    /\ \A w \in Workers : Once(wchan[w], c) /\ (wcur[w] = c => ~InChan(c, w))
    /\ \A w \in Workers : At(c, w) => wreg[w] = RegionOf[call[c].chunk]
    /\ status[c] # "new" => call[c] # NoCall

\* Where a worker can have calls, and when it is finished.
Manned(w) ==
    /\ wcur[w] # Nil => wpc[w] \in {"opening", "serving"}
    /\ wpc[w] = "opening" => wcur[w] # Nil
    /\ wpc[w] \in {"none", "done"} => wchan[w] = <<>>
    /\ wpc[w] = "done" => wclosed[w]
    /\ wpc[w] # "none" => wreg[w] \in Regions

\* The router's entry for a region names a worker of that region, whose channel
\* is open while the entry says so.
Entry(g) ==
    /\ Present(g) => wreg[table[g].worker] = g /\ wpc[table[g].worker] # "none"
    /\ router = "run" /\ table[g].exists => Present(g) /\ ~wclosed[table[g].worker]

RouterRuns ==
    /\ routing # Nil => router = "run"
    /\ router = "stopped" => reqClosed /\ requests = <<>>

Types == ClientTypes /\ RouterTypes /\ WorkerTypes /\ FileTypes

AllPlaced == \A c \in Calls : Placed(c)
AllManned == \A w \in Workers : Manned(w)
AllEntries == \A g \in Regions : Entry(g)

IInv == Types /\ AllPlaced /\ AllManned /\ AllEntries /\ RouterRuns

LEMMA InvariantSays == IInv => OneHome
<1> SUFFICES ASSUME IInv PROVE OneHome
    OBVIOUS
<1>1. TypeOK
    BY DEF IInv, Types, ClientTypes, RouterTypes, WorkerTypes, FileTypes, TypeOK, Messages
<1>2. ASSUME NEW w \in Workers, NEW v \in Workers, NEW c \in Calls,
             wcur[w] = c \/ InChan(c, w)
      PROVE  /\ wpc[w] \in {"opening", "serving", "signal", "draining"}
             /\ wreg[w] = RegionOf[call[c].chunk]
             /\ (wcur[v] = c \/ InChan(c, v)) => v = w
    <2>1. At(c, w) /\ Placed(c) /\ Manned(w) /\ c # Nil
        BY <1>2, Distinct DEF At, IInv, AllPlaced, AllManned
    <2>2. InChan(c, w) => wchan[w] # <<>>
        BY DEF InChan
    <2>3. wpc[w] \in {"opening", "serving", "signal", "draining"}
        BY <1>2, <2>1, <2>2, <1>1 DEF Manned, TypeOK
    <2> QED
        BY <2>1, <2>3 DEF Placed, At
<1> QED
    BY <1>1, <1>2 DEF IInv, AllPlaced, Placed, OneHome

LEMMA InitIInv == Init => IInv
<1> SUFFICES ASSUME Init PROVE IInv
    OBVIOUS
<1>1. Types
    <2>1. ClientTypes
        BY DEF Init, ClientTypes
    <2>2. RouterTypes
        <3>1. <<>> \in Seq(Messages) /\ Len(<<>>) <= ReqCap
            BY CapsPositive
        <3>2. NoEntry \in [worker : Workers \cup {Nil}, exists : BOOLEAN]
            BY DEF NoEntry
        <3> QED
            BY <3>1, <3>2 DEF Init, RouterTypes
    <2>3. WorkerTypes
        BY CapsPositive DEF Init, WorkerTypes
    <2>4. FileTypes
        BY FaultsNat DEF Init, FileTypes
    <2> QED
        BY <2>1, <2>2, <2>3, <2>4 DEF Types
<1>2. AllPlaced
    <2> SUFFICES ASSUME NEW c \in Calls PROVE Placed(c)
        BY DEF AllPlaced
    <2>1. ~Requested(c) /\ routing # c /\ c # Nil
        BY Distinct DEF Init, Requested
    <2>2. \A w \in Workers : ~At(c, w)
        BY <2>1 DEF Init, At, InChan
    <2> QED
        BY <2>1, <2>2 DEF Init, Placed, At, Held, Once
<1>3. AllManned /\ AllEntries /\ RouterRuns
    BY DEF Init, AllManned, Manned, AllEntries, Entry, Present, NoEntry, RouterRuns
<1> QED
    BY <1>1, <1>2, <1>3 DEF IInv

-----------------------------------------------------------------------------
(* Steps that move no call *)

\* Every call that was in s.requests still is, and no other.
SameRequests ==
    \A c \in Calls : /\ Requested(c)' <=> Requested(c)
                     /\ Once(requests, CallMsg(c)) => Once(requests', CallMsg(c))

\* A message that is no call enters or leaves s.requests.
LEMMA RequestsKeepCalls ==
    ASSUME IInv,
           \/ requests' = requests
           \/ \E m \in Messages : m.op # "call" /\ Send(m)
           \/ requests # <<>> /\ Head(requests).op # "call" /\ requests' = Tail(requests)
    PROVE  SameRequests /\ requests' \in Seq(Messages) /\ Len(requests') <= ReqCap
<1>1. /\ requests \in Seq(Messages) /\ Len(requests) <= ReqCap
      /\ Len(requests) \in Nat /\ ReqCap \in Nat
    BY CapsPositive DEF IInv, Types, RouterTypes
<1>2. \A c \in Calls : CallMsg(c).op = "call" /\ CallMsg(c) \in Messages
    BY DEF CallMsg, Messages
<1>3. \A c \in Calls : /\ Requested(c) <=> Occurs(requests, CallMsg(c))
                       /\ Requested(c)' <=> Occurs(requests', CallMsg(c))
    BY DEF Requested, Occurs
<1>4. CASE requests' = requests
    BY <1>1, <1>3, <1>4 DEF SameRequests
<1>5. ASSUME NEW m \in Messages, m.op # "call", Send(m)
      PROVE  SameRequests /\ requests' \in Seq(Messages) /\ Len(requests') <= ReqCap
    <2>1. \A x : /\ Append(requests, m) \in Seq(Messages)
                 /\ Len(Append(requests, m)) = Len(requests) + 1
                 /\ Occurs(Append(requests, m), x) <=> Occurs(requests, x) \/ x = m
                 /\ Once(requests, x) /\ (x = m => ~Occurs(requests, x))
                       => Once(Append(requests, m), x)
        BY <1>1, AppendOccurs
    <2>2. \A c \in Calls : CallMsg(c) # m
        BY <1>2, <1>5
    <2> QED
        BY <1>1, <1>3, <1>5, <2>1, <2>2 DEF Send, SameRequests
<1>6. CASE requests # <<>> /\ Head(requests).op # "call" /\ requests' = Tail(requests)
    <2>1. \A x : /\ Tail(requests) \in Seq(Messages)
                 /\ Len(Tail(requests)) = Len(requests) - 1
                 /\ Occurs(requests, x) <=> Occurs(Tail(requests), x) \/ x = Head(requests)
                 /\ Once(requests, x) => Once(Tail(requests), x)
        BY <1>1, <1>6, TailOccurs
    <2>2. \A c \in Calls : CallMsg(c) # Head(requests)
        BY <1>2, <1>6
    <2> QED
        BY <1>1, <1>3, <1>6, <2>1, <2>2 DEF SameRequests
<1> QED
    BY <1>4, <1>5, <1>6

LEMMA CallsStay ==
    ASSUME IInv, SameRequests, UNCHANGED <<call, status, routing, wreg, wcur, wchan>>
    PROVE  AllPlaced'
<1> SUFFICES ASSUME NEW c \in Calls PROVE Placed(c)'
    BY DEF AllPlaced
<1>1. Placed(c) /\ (Requested(c)' <=> Requested(c)) /\ Once(requests', CallMsg(c))
    BY DEF IInv, AllPlaced, SameRequests, Placed
<1>2. \A w \in Workers : (At(c, w)' <=> At(c, w)) /\ (InChan(c, w)' <=> InChan(c, w))
    BY DEF At, InChan
<1>3. Held(c)' <=> Held(c)
    BY DEF Held, InChan
<1> QED
    BY <1>1, <1>2, <1>3 DEF Placed

\* A step that changes no table, worker or file.
LEMMA Elsewhere ==
    ASSUME IInv, SameRequests, requests' \in Seq(Messages), Len(requests') <= ReqCap,
           UNCHANGED <<clientVars, routerVars, workerVars, fileVars, faults, broken>>,
           reqClosed' \in BOOLEAN, panicked' \in BOOLEAN,
           router = "stopped" => reqClosed' /\ requests' = <<>>
    PROVE  IInv'
<1>1. Types'
    <2>1. ClientTypes' /\ WorkerTypes' /\ FileTypes'
        BY DEF IInv, Types, ClientTypes, WorkerTypes, FileTypes, clientVars, workerVars, fileVars
    <2>2. RouterTypes'
        BY DEF IInv, Types, RouterTypes, routerVars, Messages, CallMsg, CloseMsg, TickMsg
    <2> QED
        BY <2>1, <2>2 DEF Types
<1>2. AllPlaced'
    BY CallsStay DEF clientVars, routerVars, workerVars
<1>3. AllManned' /\ AllEntries' /\ RouterRuns'
    BY DEF IInv, AllManned, Manned, AllEntries, Entry, Present, RouterRuns, routerVars, workerVars
<1> QED
    BY <1>1, <1>2, <1>3 DEF IInv

LEMMA PanicStep ==
    ASSUME IInv, Panic
    PROVE  IInv'
<1>1. SameRequests /\ requests' \in Seq(Messages) /\ Len(requests') <= ReqCap
    BY RequestsKeepCalls DEF Panic
<1>2. reqClosed' \in BOOLEAN /\ (router = "stopped" => reqClosed' /\ requests' = <<>>)
    BY DEF Panic, IInv, Types, RouterTypes, RouterRuns
<1> QED
    BY <1>1, <1>2, Elsewhere DEF Panic

LEMMA TickStep ==
    ASSUME IInv, Tick
    PROVE  IInv'
<1>1. SameRequests /\ requests' \in Seq(Messages) /\ Len(requests') <= ReqCap
    <2>1. TickMsg \in Messages /\ TickMsg.op # "call"
        BY DEF Messages, TickMsg
    <2> QED
        BY <2>1, RequestsKeepCalls DEF Tick
<1>2. router # "stopped" /\ reqClosed' \in BOOLEAN /\ panicked' \in BOOLEAN
    BY DEF Tick, IInv, Types, RouterTypes, RouterRuns
<1> QED
    BY <1>1, <1>2, Elsewhere DEF Tick

LEMMA CloseStep ==
    ASSUME IInv, Close
    PROVE  IInv'
<1>1. SameRequests /\ requests' \in Seq(Messages) /\ Len(requests') <= ReqCap
    BY RequestsKeepCalls DEF Close
<1>2. panicked' \in BOOLEAN /\ (router = "stopped" => reqClosed' /\ requests' = <<>>)
    BY DEF Close, IInv, Types, RouterTypes, RouterRuns
<1> QED
    BY <1>1, <1>2, Elsewhere DEF Close

LEMMA CloseUnknownStep ==
    ASSUME IInv, CloseUnknown
    PROVE  IInv'
<1>1. SameRequests /\ requests' \in Seq(Messages) /\ Len(requests') <= ReqCap
    BY RequestsKeepCalls DEF CloseUnknown, Receiving
<1>2. router # "stopped" /\ reqClosed' \in BOOLEAN /\ panicked' \in BOOLEAN
    BY DEF CloseUnknown, Receiving, IInv, Types, RouterTypes
<1> QED
    BY <1>1, <1>2, Elsewhere DEF CloseUnknown

-----------------------------------------------------------------------------
(* The router closes regions *)

\* What the entries are made of.
LEMMA EntryTypes ==
    ASSUME IInv, NEW g \in Regions, Present(g)
    PROVE  /\ table[g].worker \in Workers /\ table[g].exists \in BOOLEAN
           /\ wreg[table[g].worker] = g /\ wpc[table[g].worker] # "none"
BY DEF IInv, Types, RouterTypes, AllEntries, Entry, Present

\* The router changes its table and closes channels, and the entries are in order.
LEMMA RouterCloses ==
    ASSUME IInv, SameRequests, requests' \in Seq(Messages), Len(requests') <= ReqCap,
           UNCHANGED <<clientVars, reqClosed, routing, wpc, wreg, wcur, wchan, fileVars,
                       faults, panicked, broken>>,
           router' \in {"run", "stopped"},
           table' \in [Regions -> [worker : Workers \cup {Nil}, exists : BOOLEAN]],
           wclosed' \in [Workers -> BOOLEAN], \A w \in Workers : wclosed[w] => wclosed'[w],
           AllEntries', RouterRuns'
    PROVE  IInv'
<1>1. Types'
    <2>1. ClientTypes' /\ WorkerTypes' /\ FileTypes'
        BY DEF IInv, Types, ClientTypes, WorkerTypes, FileTypes, clientVars, fileVars
    <2>2. RouterTypes'
        BY DEF IInv, Types, RouterTypes, Messages, CallMsg, CloseMsg, TickMsg
    <2> QED
        BY <2>1, <2>2 DEF Types
<1>2. AllPlaced'
    BY CallsStay DEF clientVars
<1>3. AllManned'
    BY DEF IInv, AllManned, Manned
<1> QED
    BY <1>1, <1>2, <1>3 DEF IInv

LEMMA CloseRegionStep ==
    ASSUME IInv, CloseRegion
    PROVE  IInv'
<1> DEFINE g == Head(requests).region
           w == table[g].worker
<1>1. SameRequests /\ requests' \in Seq(Messages) /\ Len(requests') <= ReqCap
    BY RequestsKeepCalls DEF CloseRegion, Receiving
<1>2. g \in Regions
    <2>1. Head(requests) \in Messages /\ Head(requests).op = "close"
        BY TailOccurs DEF CloseRegion, Receiving, IInv, Types, RouterTypes
    <2> QED
        BY <2>1 DEF Messages, CallMsg, CloseMsg, TickMsg
<1>3. Present(g) /\ w \in Workers /\ wreg[w] = g
    BY <1>2, EntryTypes DEF CloseRegion
<1>4. /\ table' = [table EXCEPT ![g].exists = FALSE]
      /\ table' \in [Regions -> [worker : Workers \cup {Nil}, exists : BOOLEAN]]
      /\ wclosed' = [wclosed EXCEPT ![w] = TRUE]
      /\ wclosed' \in [Workers -> BOOLEAN]
    BY <1>2, <1>3 DEF CloseRegion, Shut, IInv, Types, RouterTypes, WorkerTypes
<1>5. \A v \in Workers : wclosed[v] => wclosed'[v]
    BY <1>4 DEF IInv, Types, WorkerTypes
<1>6. ASSUME NEW h \in Regions PROVE Entry(h)'
    <2>1. table'[h].worker = table[h].worker /\ (table'[h].exists => table[h].exists /\ h # g)
        BY <1>2, <1>4 DEF IInv, Types, RouterTypes
    <2>2. ASSUME Present(h), h # g PROVE wclosed'[table[h].worker] = wclosed[table[h].worker]
        BY <1>3, <1>4, <2>2, EntryTypes DEF IInv, Types, WorkerTypes
    <2> QED
        BY <2>1, <2>2 DEF CloseRegion, IInv, AllEntries, Entry, Present
<1>7. AllEntries' /\ RouterRuns'
    BY <1>6 DEF AllEntries, CloseRegion, Receiving, IInv, RouterRuns
<1> QED
    BY <1>1, <1>4, <1>5, <1>7, RouterCloses
    DEF CloseRegion, IInv, Types, RouterTypes

LEMMA CloseInactiveStep ==
    ASSUME IInv, NEW S \in SUBSET Regions, CloseInactive(S)
    PROVE  IInv'
<1>1. SameRequests /\ requests' \in Seq(Messages) /\ Len(requests') <= ReqCap
    BY RequestsKeepCalls DEF CloseInactive, Receiving
<1>2. /\ table' \in [Regions -> [worker : Workers \cup {Nil}, exists : BOOLEAN]]
      /\ wclosed' \in [Workers -> BOOLEAN] /\ \A v \in Workers : wclosed[v] => wclosed'[v]
    BY DEF CloseInactive, ClosedFor, NoEntry, IInv, Types, RouterTypes, WorkerTypes
<1>3. ASSUME NEW h \in Regions PROVE Entry(h)'
    <2>1. CASE h \in S
        <3>1. table'[h] = NoEntry
            BY <2>1 DEF CloseInactive
        <3> QED
            BY <3>1 DEF NoEntry, Entry, Present
    <2>2. CASE h \notin S
        <3>1. table'[h] = table[h]
            BY <2>2 DEF CloseInactive
        <3>2. ASSUME Present(h) PROVE wclosed'[table[h].worker] = wclosed[table[h].worker]
            <4>1. ASSUME NEW g \in S PROVE table[g].worker # table[h].worker
                BY <2>2, <3>2, <4>1, EntryTypes DEF CloseInactive
            <4> QED
                BY <3>2, <4>1, EntryTypes DEF CloseInactive, ClosedFor, IInv, Types, WorkerTypes
        <3> QED
            BY <3>1, <3>2 DEF CloseInactive, IInv, AllEntries, Entry, Present
    <2> QED
        BY <2>1, <2>2
<1>4. AllEntries' /\ RouterRuns'
    BY <1>3 DEF AllEntries, CloseInactive, Receiving, IInv, RouterRuns
<1> QED
    BY <1>1, <1>2, <1>4, RouterCloses
    DEF CloseInactive, IInv, Types, RouterTypes

LEMMA StopRouterStep ==
    ASSUME IInv, StopRouter
    PROVE  IInv'
<1>1. SameRequests /\ requests' \in Seq(Messages) /\ Len(requests') <= ReqCap
    BY RequestsKeepCalls DEF StopRouter
<1>2. /\ wclosed' \in [Workers -> BOOLEAN] /\ \A v \in Workers : wclosed[v] => wclosed'[v]
      /\ table' \in [Regions -> [worker : Workers \cup {Nil}, exists : BOOLEAN]]
    BY DEF StopRouter, ClosedFor, IInv, Types, RouterTypes, WorkerTypes
<1>3. AllEntries' /\ RouterRuns'
    BY DEF StopRouter, IInv, AllEntries, Entry, Present, RouterRuns
<1> QED
    BY <1>1, <1>2, <1>3, RouterCloses DEF StopRouter

-----------------------------------------------------------------------------
(* Worker steps that move no call *)

\* A worker goes to another state, still with work or done with it.
LEMMA WorkerGoes ==
    ASSUME IInv, SameRequests, requests' \in Seq(Messages), Len(requests') <= ReqCap,
           NEW w \in Workers, NEW next,
           wpc' = [wpc EXCEPT ![w] = next],
           next \in {"serving", "signal", "draining", "done"},
           UNCHANGED <<clientVars, wcur, wchan, data, damaged, written>>, UnchangedByWorker, NoFault,
           file' \in SUBSET Regions, wreg[w] \in Regions,
           wcur[w] # Nil => next = "serving",
           next = "done" => wclosed[w] /\ wchan[w] = <<>>,
           router = "stopped" => requests' = <<>>
    PROVE  IInv'
<1>1. Types'
    <2>1. ClientTypes' /\ WorkerTypes' /\ FileTypes'
        BY DEF IInv, Types, ClientTypes, WorkerTypes, FileTypes, clientVars, UnchangedByWorker, NoFault
    <2>2. RouterTypes'
        BY DEF IInv, Types, RouterTypes, Messages, CallMsg, CloseMsg, TickMsg, UnchangedByWorker,
               routerVars
    <2> QED
        BY <2>1, <2>2 DEF Types
<1>2. AllPlaced'
    BY CallsStay DEF clientVars, UnchangedByWorker, routerVars
<1>3. ASSUME NEW v \in Workers PROVE Manned(v)'
    BY DEF UnchangedByWorker, IInv, AllManned, Manned, Types, WorkerTypes
<1>4. AllEntries' /\ RouterRuns'
    BY DEF UnchangedByWorker, routerVars, IInv, AllEntries, Entry, Present, RouterRuns, Types, WorkerTypes
<1> QED
    BY <1>1, <1>2, <1>3, <1>4 DEF IInv, AllManned

LEMMA OpenStep ==
    ASSUME IInv, NEW w \in Workers, Open(w)
    PROVE  IInv'
<1>1. SameRequests /\ requests' \in Seq(Messages) /\ Len(requests') <= ReqCap
    BY RequestsKeepCalls DEF Open
<1>2. wreg[w] \in Regions /\ file' \in SUBSET Regions
    BY DEF Open, IInv, AllManned, Manned, Types, FileTypes
<1>3. router = "stopped" => requests' = <<>>
    BY DEF Open, IInv, RouterRuns
<1> QED
    BY <1>1, <1>2, <1>3, WorkerGoes DEF Open

LEMMA SendCloseStep ==
    ASSUME IInv, NEW w \in Workers, SendClose(w)
    PROVE  IInv'
<1>1. wreg[w] \in Regions /\ wcur[w] = Nil
    BY DEF SendClose, IInv, AllManned, Manned
<1>2. SameRequests /\ requests' \in Seq(Messages) /\ Len(requests') <= ReqCap
    <2>1. CloseMsg(wreg[w]) \in Messages /\ CloseMsg(wreg[w]).op # "call"
        BY <1>1 DEF Messages, CloseMsg
    <2> QED
        BY <2>1, RequestsKeepCalls DEF SendClose
<1>3. router # "stopped" /\ file' \in SUBSET Regions
    BY DEF SendClose, IInv, RouterRuns, Types, FileTypes, fileVars
<1> QED
    BY <1>1, <1>2, <1>3, WorkerGoes DEF SendClose, fileVars

LEMMA FinishStep ==
    ASSUME IInv, NEW w \in Workers, Finish(w)
    PROVE  IInv'
<1>1. SameRequests /\ requests' \in Seq(Messages) /\ Len(requests') <= ReqCap
    BY RequestsKeepCalls DEF Finish
<1>2. wreg[w] \in Regions /\ file' \in SUBSET Regions
    BY DEF Finish, IInv, AllManned, Manned, Types, FileTypes, fileVars
<1>3. router = "stopped" => requests' = <<>>
    BY DEF Finish, IInv, RouterRuns
<1> QED
    BY <1>1, <1>2, <1>3, WorkerGoes DEF Finish, fileVars

-----------------------------------------------------------------------------
(* Calls on their way to a worker *)

\* The parts of the place of a call, in terms of the channels.
LEMMA Places ==
    ASSUME NEW c
    PROVE  /\ Requested(c) <=> Occurs(requests, CallMsg(c))
           /\ Requested(c)' <=> Occurs(requests', CallMsg(c))
           /\ Held(c) <=> \E w \in Workers : At(c, w)
           /\ Held(c)' <=> \E w \in Workers : At(c, w)'
           /\ \A w : /\ InChan(c, w) <=> Occurs(wchan[w], c)
                     /\ InChan(c, w)' <=> Occurs(wchan'[w], c)
                     /\ At(c, w) <=> wcur[w] = c \/ InChan(c, w)
                     /\ At(c, w)' <=> wcur'[w] = c \/ InChan(c, w)'
BY DEF Requested, Occurs, Held, At, InChan

LEMMA CallStep ==
    ASSUME IInv, NEW c \in Calls, NEW op \in Ops, NEW x \in Chunks, Call(c, op, x)
    PROVE  IInv'
<1>1. CallMsg(c) \in Messages /\ CallMsg(c).op = "call"
    BY DEF Messages, CallMsg
<1>2. \A d : /\ Append(requests, CallMsg(c)) \in Seq(Messages)
             /\ Len(Append(requests, CallMsg(c))) = Len(requests) + 1
             /\ Occurs(Append(requests, CallMsg(c)), d) <=> Occurs(requests, d) \/ d = CallMsg(c)
             /\ Once(requests, d) /\ (d = CallMsg(c) => ~Occurs(requests, d))
                   => Once(Append(requests, CallMsg(c)), d)
    BY <1>1, AppendOccurs DEF IInv, Types, RouterTypes
<1>3. /\ requests' = Append(requests, CallMsg(c)) /\ requests' \in Seq(Messages)
      /\ Len(requests') <= ReqCap
    <2>1. Len(requests) \in Nat /\ ReqCap \in Nat /\ Len(requests) < ReqCap
        BY CapsPositive DEF Call, Send, IInv, Types, RouterTypes
    <2> QED
        BY <1>2, <2>1 DEF Call, Send
<1>4. Types'
    <2>1. ClientTypes'
        BY DEF Call, IInv, Types, ClientTypes
    <2>2. WorkerTypes' /\ FileTypes'
        BY DEF Call, IInv, Types, WorkerTypes, FileTypes, workerVars, fileVars
    <2>3. RouterTypes'
        BY <1>3 DEF Call, IInv, Types, RouterTypes, Messages, CallMsg, CloseMsg, TickMsg, routerVars
    <2> QED
        BY <2>1, <2>2, <2>3 DEF Types
<1>5. ASSUME NEW d \in Calls PROVE Placed(d)'
    <2>1. Placed(d)
        BY DEF IInv, AllPlaced
    <2>2. UNCHANGED <<routing, wreg, wcur, wchan>>
        BY DEF Call, routerVars, workerVars
    <2>3. \A w \in Workers : (At(d, w)' <=> At(d, w)) /\ (InChan(d, w)' <=> InChan(d, w))
        BY <2>2 DEF At, InChan
    <2>4. Held(d)' <=> Held(d)
        BY <2>3, Places
    <2>5. CASE d = c
        <3>1. ~Requested(c) /\ routing # c /\ ~Held(c) /\ status'[c] = "sent"
            BY <2>1, <2>5 DEF Call, Placed, IInv, Types, ClientTypes
        <3>2. Requested(c)' /\ Once(requests', CallMsg(c))
            BY <1>2, <1>3, <2>1, <2>5, <3>1, Places DEF Placed
        <3>3. call'[c] # NoCall
            <4>1. call'[c] = [op |-> op, chunk |-> x]
                BY DEF Call, IInv, Types, ClientTypes
            <4> QED
                BY <4>1, Distinct DEF NoCall
        <3> QED
            BY <2>1, <2>2, <2>3, <2>4, <2>5, <3>1, <3>2, <3>3, Places DEF Placed
    <2>6. CASE d # c
        <3>1. CallMsg(d) # CallMsg(c)
            BY <2>6 DEF CallMsg
        <3>2. (Requested(d)' <=> Requested(d)) /\ Once(requests', CallMsg(d))
            BY <1>2, <1>3, <2>1, <3>1, Places DEF Placed
        <3>3. call'[d] = call[d] /\ status'[d] = status[d]
            BY <2>6 DEF Call, IInv, Types, ClientTypes
        <3> QED
            BY <2>1, <2>2, <2>3, <2>4, <3>2, <3>3 DEF Placed
    <2> QED
        BY <2>5, <2>6
<1>6. AllManned' /\ AllEntries' /\ RouterRuns'
    BY DEF Call, IInv, AllManned, Manned, AllEntries, Entry, Present, RouterRuns, routerVars, workerVars
<1> QED
    BY <1>4, <1>5, <1>6 DEF IInv, AllPlaced

LEMMA RouteCallStep ==
    ASSUME IInv, RouteCall
    PROVE  IInv'
<1> DEFINE c == Head(requests).call
<1>1. /\ Head(requests) \in Messages /\ Tail(requests) \in Seq(Messages)
      /\ Len(Tail(requests)) = Len(requests) - 1
      /\ \A d : /\ Occurs(requests, d) <=> Occurs(Tail(requests), d) \/ d = Head(requests)
                /\ Once(requests, d) => Once(Tail(requests), d)
                /\ Once(requests, d) /\ d = Head(requests) => ~Occurs(Tail(requests), d)
    BY TailOccurs DEF RouteCall, Receiving, IInv, Types, RouterTypes
<1>2. c \in Calls /\ Head(requests) = CallMsg(c)
    BY <1>1 DEF RouteCall, Receiving, Messages, CallMsg, CloseMsg, TickMsg
<1>3. /\ requests' = Tail(requests) /\ routing = Nil /\ routing' = c
      /\ UNCHANGED <<call, status, wreg, wcur, wchan>>
    BY DEF RouteCall, Receiving, clientVars, workerVars
<1>4. Types'
    <2>1. ClientTypes' /\ WorkerTypes' /\ FileTypes'
        BY DEF RouteCall, IInv, Types, ClientTypes, WorkerTypes, FileTypes, clientVars, workerVars, fileVars
    <2>2. Len(requests') <= ReqCap
        BY <1>1, <1>3, CapsPositive DEF IInv, Types, RouterTypes
    <2>3. RouterTypes'
        BY <1>1, <1>2, <1>3, <2>2
        DEF RouteCall, IInv, Types, RouterTypes, Messages, CallMsg, CloseMsg, TickMsg
    <2> QED
        BY <2>1, <2>3 DEF Types
<1>5. ASSUME NEW d \in Calls PROVE Placed(d)'
    <2>1. Placed(d) /\ routing # d
        BY <1>3, Distinct DEF IInv, AllPlaced
    <2>2. \A w \in Workers : (At(d, w)' <=> At(d, w)) /\ (InChan(d, w)' <=> InChan(d, w))
        BY <1>3 DEF At, InChan
    <2>3. Held(d)' <=> Held(d)
        BY <2>2, Places
    <2>4. Once(requests', CallMsg(d))
        BY <1>1, <1>3, <2>1 DEF Placed
    <2>5. CASE d = c
        <3>1. Once(requests, CallMsg(d)) /\ CallMsg(d) = Head(requests)
            BY <1>2, <2>1, <2>5 DEF Placed
        <3>2. Occurs(requests, CallMsg(d)) /\ ~Occurs(requests', CallMsg(d))
            BY <1>1, <1>3, <3>1
        <3>3. Requested(d) /\ ~Requested(d)' /\ routing' = d /\ d # Nil
            BY <1>3, <2>5, <3>2, Places, Distinct
        <3> HIDE DEF c
        <3> QED
            BY <1>3, <2>1, <2>2, <2>3, <2>4, <3>3 DEF Placed
    <2>6. CASE d # c
        <3>1. CallMsg(d) # Head(requests)
            BY <1>2, <2>6 DEF CallMsg
        <3>2. Requested(d)' <=> Requested(d)
            BY <1>1, <1>3, <3>1, Places
        <3> QED
            BY <1>3, <2>1, <2>2, <2>3, <2>4, <2>6, <3>2 DEF Placed
    <2> QED
        BY <2>5, <2>6
<1>6. AllManned' /\ AllEntries' /\ RouterRuns'
    BY DEF RouteCall, Receiving, IInv, AllManned, Manned, AllEntries, Entry, Present, RouterRuns, workerVars
<1> QED
    BY <1>4, <1>5, <1>6 DEF IInv, AllPlaced

\* The region of the call the router is scheduling.
LEMMA TargetIs ==
    ASSUME IInv, routing # Nil
    PROVE  /\ routing \in Calls /\ status[routing] = "sent"
           /\ call[routing].chunk \in Chunks
           /\ Target \in Regions /\ Target = RegionOf[call[routing].chunk]
           /\ ~Requested(routing) /\ \A w \in Workers : ~At(routing, w)
           /\ router = "run"
<1>1. routing \in Calls /\ router = "run"
    BY DEF IInv, Types, RouterTypes, RouterRuns
<1>2. Placed(routing)
    BY <1>1 DEF IInv, AllPlaced
<1>3. status[routing] = "sent" /\ call[routing] # NoCall
    BY <1>2 DEF Placed
<1>4. call[routing].chunk \in Chunks
    BY <1>1, <1>3 DEF IInv, Types, ClientTypes
<1> QED
    BY <1>1, <1>2, <1>3, <1>4, RegionOfOK, Places DEF Placed, Target

\* The router's call becomes one of worker w's.
LEMMA HandOver ==
    ASSUME IInv, routing # Nil, routing' = Nil, NEW w \in Workers,
           UNCHANGED <<call, status, requests>>,
           \A v \in Workers : v # w => UNCHANGED <<wcur[v], wchan[v], wreg[v]>>,
           wreg'[w] = Target, wreg'[w] = wreg[w] \/ \A d \in Calls : ~At(d, w),
           \/ wcur'[w] = wcur[w] /\ wchan'[w] = Append(wchan[w], routing)
           \/ wcur'[w] = routing /\ wchan'[w] = <<>> /\ \A d \in Calls : ~At(d, w)
    PROVE  AllPlaced'
<1> SUFFICES ASSUME NEW d \in Calls PROVE Placed(d)'
    BY DEF AllPlaced
<1>1. Placed(d)
    BY DEF IInv, AllPlaced
<1>2. /\ routing \in Calls /\ status[routing] = "sent" /\ Target = RegionOf[call[routing].chunk]
      /\ ~Requested(routing) /\ \A v \in Workers : ~At(routing, v)
    BY TargetIs
<1>3. Requested(d)' <=> Requested(d)
    BY Places
<1>4. \A v \in Workers : v # w => (At(d, v)' <=> At(d, v)) /\ (InChan(d, v)' <=> InChan(d, v))
    BY Places
<1>5. /\ At(d, w)' <=> At(d, w) \/ d = routing
      /\ Once(wchan'[w], d) /\ (wcur'[w] = d => ~InChan(d, w)')
    <2>1. CASE wcur'[w] = wcur[w] /\ wchan'[w] = Append(wchan[w], routing)
        <3>1. /\ Occurs(wchan'[w], d) <=> Occurs(wchan[w], d) \/ d = routing
              /\ Once(wchan[w], d) /\ (d = routing => ~Occurs(wchan[w], d)) => Once(wchan'[w], d)
            BY <1>2, <2>1, AppendOccurs DEF IInv, Types, WorkerTypes
        <3>2. /\ Occurs(wchan[w], d) <=> InChan(d, w)
              /\ Occurs(wchan'[w], d) <=> InChan(d, w)'
            BY DEF Occurs, InChan
        <3>3. ~At(routing, w) /\ wcur[w] # routing /\ ~InChan(routing, w)
            BY <1>2 DEF At
        <3>4. Once(wchan[w], d) /\ (wcur[w] = d => ~InChan(d, w))
            BY <1>1 DEF Placed
        <3>5. At(d, w)' <=> At(d, w) \/ d = routing
            BY <2>1, <3>1, <3>2 DEF At
        <3> QED
            BY <2>1, <3>1, <3>2, <3>3, <3>4, <3>5
    <2>2. CASE wcur'[w] = routing /\ wchan'[w] = <<>> /\ \A e \in Calls : ~At(e, w)
        BY <2>2, Places DEF Once, Occurs
    <2> QED
        BY <2>1, <2>2
<1>6. Held(d)' <=> Held(d) \/ d = routing
    BY <1>4, <1>5, Places
<1>7. \A v \in Workers : /\ Once(wchan'[v], d) /\ (wcur'[v] = d => ~InChan(d, v)')
                         /\ At(d, v)' => wreg'[v] = RegionOf[call[d].chunk]
    BY <1>1, <1>2, <1>4, <1>5 DEF Placed
<1>8. \A v, u \in Workers : At(d, v)' /\ At(d, u)' => u = v
    BY <1>1, <1>2, <1>4, <1>5 DEF Placed
<1> QED
    BY <1>1, <1>2, <1>3, <1>6, <1>7, <1>8, Distinct DEF Placed

LEMMA StartWorkerStep ==
    ASSUME IInv, NEW w \in Workers, StartWorker(w)
    PROVE  IInv'
<1>1. routing \in Calls /\ Target \in Regions /\ router = "run" /\ w # Nil
    BY TargetIs, Distinct DEF StartWorker
<1>2. Free(w) /\ wcur[w] = Nil /\ wchan[w] = <<>>
    BY DEF StartWorker, Free, IInv, AllManned, Manned
<1>3. \A d \in Calls : ~At(d, w)
    BY <1>2, Distinct DEF At, InChan
<1>4. /\ table' = [table EXCEPT ![Target] = [worker |-> w, exists |-> TRUE]]
      /\ wpc' = [wpc EXCEPT ![w] = "opening"] /\ wreg' = [wreg EXCEPT ![w] = Target]
      /\ wcur' = [wcur EXCEPT ![w] = routing] /\ wchan' = [wchan EXCEPT ![w] = <<>>]
      /\ wclosed' = [wclosed EXCEPT ![w] = FALSE]
      /\ routing' = Nil
      /\ UNCHANGED <<clientVars, requests, reqClosed, router, fileVars, faults, panicked, broken>>
    BY DEF StartWorker
<1>5. Types'
    <2>1. ClientTypes' /\ FileTypes'
        BY <1>4 DEF IInv, Types, ClientTypes, FileTypes, clientVars, fileVars
    <2>2. WorkerTypes'
        <3>1. <<>> \in Seq(Calls) /\ Len(<<>>) <= ChanCap
            BY CapsPositive
        <3> QED
            BY <1>1, <1>4, <3>1 DEF IInv, Types, WorkerTypes
    <2>3. RouterTypes'
        BY <1>1, <1>4 DEF IInv, Types, RouterTypes, Messages, CallMsg, CloseMsg, TickMsg
    <2> QED
        BY <2>1, <2>2, <2>3 DEF Types
<1>6. AllPlaced'
    <2>1. \A v \in Workers : v # w => UNCHANGED <<wcur[v], wchan[v], wreg[v]>>
        BY <1>4 DEF IInv, Types, WorkerTypes
    <2>2. wreg'[w] = Target /\ wcur'[w] = routing /\ wchan'[w] = <<>>
        BY <1>4 DEF IInv, Types, WorkerTypes
    <2> QED
        BY <1>3, <1>4, <2>1, <2>2, HandOver DEF StartWorker, clientVars
<1>7. ASSUME NEW v \in Workers PROVE Manned(v)'
    BY <1>1, <1>4, Distinct DEF IInv, AllManned, Manned, Types, WorkerTypes
<1>8. ASSUME NEW g \in Regions PROVE Entry(g)'
    <2>1. CASE g = Target
        BY <1>1, <1>4, <2>1 DEF Entry, Present, IInv, Types, RouterTypes, WorkerTypes
    <2>2. CASE g # Target
        <3>1. table'[g] = table[g] /\ table[g].worker # w
            BY <1>2, <1>4, <2>2 DEF Free, IInv, Types, RouterTypes
        <3>2. Present(g) => UNCHANGED <<wreg[table[g].worker], wpc[table[g].worker],
                                        wclosed[table[g].worker]>>
            BY <1>4, <3>1, EntryTypes DEF IInv, Types, WorkerTypes
        <3> QED
            BY <1>1, <1>4, <3>1, <3>2 DEF IInv, AllEntries, Entry, Present
    <2> QED
        BY <2>1, <2>2
<1>9. RouterRuns'
    BY <1>1, <1>4 DEF RouterRuns
<1> QED
    BY <1>5, <1>6, <1>7, <1>8, <1>9 DEF IInv, AllManned, AllEntries

LEMMA PassToWorkerStep ==
    ASSUME IInv, PassToWorker
    PROVE  IInv'
<1> DEFINE w == table[Target].worker
<1>1. routing \in Calls /\ Target \in Regions /\ router = "run"
    BY TargetIs DEF PassToWorker
<1>2. w \in Workers /\ wreg[w] = Target /\ wpc[w] # "none"
    BY <1>1, EntryTypes DEF PassToWorker
<1>3. ~wclosed[w] /\ wpc[w] # "done"
    BY <1>1, <1>2 DEF PassToWorker, IInv, AllEntries, Entry, AllManned, Manned
<1>4. /\ wchan' = [wchan EXCEPT ![w] = Append(wchan[w], routing)] /\ routing' = Nil
      /\ Len(wchan[w]) < ChanCap
      /\ UNCHANGED <<clientVars, requests, reqClosed, router, table, wpc, wreg, wcur, wclosed,
                     fileVars, faults, panicked, broken>>
    BY DEF PassToWorker
<1>5. Types'
    <2>1. ClientTypes' /\ FileTypes'
        BY <1>4 DEF IInv, Types, ClientTypes, FileTypes, clientVars, fileVars
    <2>2. WorkerTypes'
        <3>1. Append(wchan[w], routing) \in Seq(Calls) /\ Len(Append(wchan[w], routing)) <= ChanCap
            BY <1>1, <1>2, <1>4, CapsPositive DEF IInv, Types, WorkerTypes
        <3> QED
            BY <1>2, <1>4, <3>1 DEF IInv, Types, WorkerTypes
    <2>3. RouterTypes'
        BY <1>4 DEF IInv, Types, RouterTypes, Messages, CallMsg, CloseMsg, TickMsg
    <2> QED
        BY <2>1, <2>2, <2>3 DEF Types
<1>6. AllPlaced'
    <2>1. \A v \in Workers : v # w => UNCHANGED <<wcur[v], wchan[v], wreg[v]>>
        BY <1>2, <1>4 DEF IInv, Types, WorkerTypes
    <2>2. /\ wreg'[w] = Target /\ wreg'[w] = wreg[w]
          /\ wcur'[w] = wcur[w] /\ wchan'[w] = Append(wchan[w], routing)
        BY <1>2, <1>4 DEF IInv, Types, WorkerTypes
    <2> QED
        BY <1>2, <1>4, <2>1, <2>2, HandOver DEF PassToWorker, clientVars
<1>7. ASSUME NEW v \in Workers PROVE Manned(v)'
    BY <1>2, <1>3, <1>4 DEF IInv, AllManned, Manned, Types, WorkerTypes
<1>8. AllEntries' /\ RouterRuns'
    BY <1>4 DEF IInv, AllEntries, Entry, Present, RouterRuns
<1> QED
    BY <1>5, <1>6, <1>7, <1>8 DEF IInv, AllManned

LEMMA ReceiveStep ==
    ASSUME IInv, NEW w \in Workers, Receive(w)
    PROVE  IInv'
<1> DEFINE c == Head(wchan[w])
<1>1. /\ c \in Calls /\ Tail(wchan[w]) \in Seq(Calls)
      /\ Len(Tail(wchan[w])) = Len(wchan[w]) - 1
      /\ \A d : /\ Occurs(wchan[w], d) <=> Occurs(Tail(wchan[w]), d) \/ d = c
                /\ Once(wchan[w], d) => Once(Tail(wchan[w]), d)
                /\ Once(wchan[w], d) /\ d = c => ~Occurs(Tail(wchan[w]), d)
    BY TailOccurs DEF Receive, IInv, Types, WorkerTypes
<1> HIDE DEF c
<1>2. /\ wcur[w] = Nil /\ wpc[w] = "serving"
      /\ wcur' = [wcur EXCEPT ![w] = c] /\ wchan' = [wchan EXCEPT ![w] = Tail(wchan[w])]
      /\ UNCHANGED <<clientVars, requests, wpc, fileVars, reqClosed, routerVars, wreg, wclosed,
                     panicked, faults, broken>>
    BY DEF Receive, UnchangedByWorker, NoFault, c
<1>3. Types'
    <2>1. ClientTypes' /\ FileTypes'
        BY <1>2 DEF IInv, Types, ClientTypes, FileTypes, clientVars, fileVars
    <2>2. WorkerTypes'
        <3>1. Len(Tail(wchan[w])) <= ChanCap
            BY <1>1, CapsPositive DEF IInv, Types, WorkerTypes
        <3> QED
            BY <1>1, <1>2, <3>1 DEF IInv, Types, WorkerTypes
    <2>3. RouterTypes'
        BY <1>2 DEF IInv, Types, RouterTypes, Messages, CallMsg, CloseMsg, TickMsg, routerVars
    <2> QED
        BY <2>1, <2>2, <2>3 DEF Types
<1>4. ASSUME NEW d \in Calls PROVE Placed(d)'
    <2>1. Placed(d) /\ d # Nil
        BY Distinct DEF IInv, AllPlaced
    <2>2. UNCHANGED <<call, status, requests, routing, wreg>>
        BY <1>2 DEF clientVars, routerVars
    <2>3. \A v \in Workers : v # w => wcur'[v] = wcur[v] /\ wchan'[v] = wchan[v]
        BY <1>2 DEF IInv, Types, WorkerTypes
    <2>4. wcur'[w] = c /\ wchan'[w] = Tail(wchan[w])
        BY <1>2 DEF IInv, Types, WorkerTypes
    <2>5. \A v \in Workers : At(d, v)' <=> At(d, v)
        BY <1>1, <1>2, <2>1, <2>3, <2>4, Places
    <2>6. \A v \in Workers : Once(wchan'[v], d) /\ (wcur'[v] = d => ~InChan(d, v)')
        BY <1>1, <1>2, <2>1, <2>3, <2>4, Places DEF Placed
    <2>7. (Held(d)' <=> Held(d)) /\ (Requested(d)' <=> Requested(d))
        BY <2>2, <2>5, Places
    <2> QED
        BY <2>1, <2>2, <2>5, <2>6, <2>7 DEF Placed
<1>5. ASSUME NEW v \in Workers PROVE Manned(v)'
    BY <1>2 DEF IInv, AllManned, Manned, Types, WorkerTypes
<1>6. AllEntries' /\ RouterRuns'
    BY <1>2 DEF IInv, AllEntries, Entry, Present, RouterRuns, routerVars
<1> QED
    BY <1>3, <1>4, <1>5, <1>6 DEF IInv, AllPlaced, AllManned

-----------------------------------------------------------------------------
(* Calls that end *)

\* Call c is answered or forgotten.
Ends(c) == /\ call' = call
           /\ \E r \in {"done", "forgotten"} : status' = [status EXCEPT ![c] = r]

LEMMA AnswerTypes ==
    ASSUME IInv, NEW c \in Calls, NEW v, Answered(c, v),
           \/ v \in {"nil", "error", Old} \cup Calls
           \/ call[c].op = "moddate" /\ v = "timestamp"
    PROVE  ClientTypes' /\ Ends(c)
<1>1. CASE call[c].op = "moddate" /\ v # "error"
    BY <1>1 DEF Answered, Ends, IInv, Types, ClientTypes
<1>2. CASE ~(call[c].op = "moddate" /\ v # "error")
    <2>1. v \in {"nil", "error", Old} \cup Calls
        BY <1>2
    <2> QED
        BY <1>2, <2>1 DEF Answered, Ends, IInv, Types, ClientTypes
<1> QED
    BY <1>1, <1>2

\* A call that leaves its one place ends there, and all others stay.
LEMMA EndsWhereItWas ==
    ASSUME IInv, NEW c \in Calls, status[c] = "sent", Ends(c), UNCHANGED <<requests, wreg>>,
           ~Requested(c), routing' # c, \A v \in Workers : ~At(c, v)',
           \A d \in Calls : d # c =>
              /\ routing' = d <=> routing = d
              /\ \A v \in Workers : /\ At(d, v)' <=> At(d, v)
                                    /\ wcur'[v] = d => wcur[v] = d
                                    /\ InChan(d, v)' => InChan(d, v),
           \A d \in Calls, v \in Workers : Once(wchan'[v], d)
    PROVE  AllPlaced'
<1> SUFFICES ASSUME NEW d \in Calls PROVE Placed(d)'
    BY DEF AllPlaced
<1>1. Placed(d)
    BY DEF IInv, AllPlaced
<1>2. Requested(d)' <=> Requested(d)
    BY Places
<1>3. CASE d = c
    <2>1. ~Held(d)' /\ ~Requested(d)' /\ routing' # d
        BY <1>2, <1>3, Places
    <2>2. status'[d] # "sent" /\ status[d] # "new" /\ call' = call
        <3>1. status'[d] \in {"done", "forgotten"} /\ call' = call
            BY <1>3 DEF Ends, IInv, Types, ClientTypes
        <3> QED
            BY <1>3, <3>1
    <2>3. \A v \in Workers : ~InChan(d, v)' /\ wcur'[v] # d
        BY <1>3, Places
    <2> QED
        BY <1>1, <1>3, <2>1, <2>2, <2>3 DEF Placed
<1>4. CASE d # c
    <2>1. status'[d] = status[d] /\ call' = call
        BY <1>4 DEF Ends, IInv, Types, ClientTypes
    <2>2. Held(d)' <=> Held(d)
        BY <1>4, Places
    <2> QED
        BY <1>1, <1>2, <1>4, <2>1, <2>2 DEF Placed
<1> QED
    BY <1>3, <1>4

LEMMA AnswerForClosedStep ==
    ASSUME IInv, AnswerForClosed
    PROVE  IInv'
<1>1. /\ routing \in Calls /\ status[routing] = "sent" /\ router = "run"
      /\ ~Requested(routing) /\ \A w \in Workers : ~At(routing, w)
    BY TargetIs DEF AnswerForClosed
<1>2. ClientTypes' /\ Ends(routing)
    BY <1>1, AnswerTypes DEF AnswerForClosed
<1>3. /\ routing' = Nil /\ Nil \notin Calls
      /\ UNCHANGED <<requests, reqClosed, router, table, wpc, wreg, wcur, wchan, wclosed,
                     file, data, damaged, written, faults, panicked, broken>>
    BY Distinct DEF AnswerForClosed, workerVars, fileVars
<1>4. Types'
    <2>1. WorkerTypes' /\ FileTypes'
        BY <1>3 DEF IInv, Types, WorkerTypes, FileTypes
    <2>2. RouterTypes'
        BY <1>3 DEF IInv, Types, RouterTypes, Messages, CallMsg, CloseMsg, TickMsg
    <2> QED
        BY <1>2, <2>1, <2>2 DEF Types
<1>5. AllPlaced'
    <2>1. \A d \in Calls, v \in Workers : Once(wchan'[v], d)
        BY <1>3 DEF IInv, AllPlaced, Placed
    <2>2. \A d, v : (At(d, v)' <=> At(d, v)) /\ (InChan(d, v)' <=> InChan(d, v))
        BY <1>3 DEF At, InChan
    <2> QED
        BY <1>1, <1>2, <1>3, <2>1, <2>2, EndsWhereItWas
<1>6. AllManned' /\ AllEntries' /\ RouterRuns'
    BY <1>1, <1>3 DEF IInv, AllManned, Manned, AllEntries, Entry, Present, RouterRuns
<1> QED
    BY <1>4, <1>5, <1>6 DEF IInv

LEMMA DrainStep ==
    ASSUME IInv, NEW w \in Workers, Drain(w)
    PROVE  IInv'
<1>c. PICK c \in Calls : c = Head(wchan[w])
    BY TailOccurs DEF Drain, IInv, Types, WorkerTypes
<1>1. /\ Tail(wchan[w]) \in Seq(Calls)
      /\ Len(Tail(wchan[w])) = Len(wchan[w]) - 1
      /\ \A d : /\ Occurs(wchan[w], d) <=> Occurs(Tail(wchan[w]), d) \/ d = c
                /\ Once(wchan[w], d) => Once(Tail(wchan[w]), d)
                /\ Once(wchan[w], d) /\ d = c => ~Occurs(Tail(wchan[w]), d)
    BY <1>c, TailOccurs DEF Drain, IInv, Types, WorkerTypes
<1>2. Answered(c, "error")
    BY <1>c DEF Drain
<1>3. ClientTypes' /\ Ends(c)
    BY <1>1, <1>2, AnswerTypes
<1>4. /\ wpc[w] = "draining" /\ wchan' = [wchan EXCEPT ![w] = Tail(wchan[w])]
      /\ UNCHANGED <<requests, wpc, wcur, fileVars, reqClosed, routerVars, wreg, wclosed,
                     panicked, faults, broken>>
    BY DEF Drain, UnchangedByWorker, NoFault
<1>5. Types'
    <2>1. FileTypes'
        BY <1>4 DEF IInv, Types, FileTypes, fileVars
    <2>2. WorkerTypes'
        <3>1. Len(Tail(wchan[w])) <= ChanCap
            BY <1>1, CapsPositive DEF IInv, Types, WorkerTypes
        <3> QED
            BY <1>1, <1>4, <3>1 DEF IInv, Types, WorkerTypes
    <2>3. RouterTypes'
        BY <1>4 DEF IInv, Types, RouterTypes, Messages, CallMsg, CloseMsg, TickMsg, routerVars
    <2> QED
        BY <1>3, <2>1, <2>2, <2>3 DEF Types
<1>6. AllPlaced'
    <2>1. Placed(c) /\ At(c, w)
        BY <1>1, Places DEF IInv, AllPlaced
    <2>2. /\ status[c] = "sent" /\ ~Requested(c) /\ routing # c
          /\ \A v \in Workers : At(c, v) => v = w
        BY <2>1, Places DEF Placed
    <2>3. \A v \in Workers : v # w => wchan'[v] = wchan[v]
        BY <1>4 DEF IInv, Types, WorkerTypes
    <2>4. wchan'[w] = Tail(wchan[w]) /\ wcur' = wcur /\ routing' = routing
        BY <1>4 DEF IInv, Types, WorkerTypes, routerVars
    <2>5. \A d \in Calls, v \in Workers : Once(wchan'[v], d)
        BY <1>1, <2>3, <2>4 DEF IInv, AllPlaced, Placed
    <2>6. \A v \in Workers : ~At(c, v)'
        <3>1. Once(wchan[w], c) /\ wcur[w] # c
            BY <1>1, <2>1, Places DEF Placed
        <3>2. ~Occurs(wchan'[w], c)
            BY <1>1, <2>4, <3>1
        <3> QED
            BY <2>2, <2>3, <2>4, <3>1, <3>2, Places
    <2>7. \A d \in Calls, v \in Workers : d # c => /\ At(d, v)' <=> At(d, v)
                                                   /\ InChan(d, v)' => InChan(d, v)
        BY <1>1, <2>3, <2>4, Places
    <2> QED
        BY <1>1, <1>3, <1>4, <2>2, <2>4, <2>5, <2>6, <2>7, EndsWhereItWas
<1>7. ASSUME NEW v \in Workers PROVE Manned(v)'
    BY <1>4 DEF IInv, AllManned, Manned, Types, WorkerTypes
<1>8. AllEntries' /\ RouterRuns'
    BY <1>4 DEF IInv, AllEntries, Entry, Present, RouterRuns, routerVars
<1> QED
    BY <1>5, <1>6, <1>7, <1>8 DEF IInv, AllManned

\* The steps that end the call a worker has in its hands.
EndsCall(w) ==
    \/ OpenMissing(w) \/ OpenFails(w) \/ CreateFails(w)
    \/ WriteChunk(w) \/ ReadChunk(w) \/ ReadModDate(w) \/ RequestFails(w)

\* What they have in common.
LetsGo(w) ==
    /\ wcur[w] \in Calls /\ Ends(wcur[w])
    /\ \E next \in {"serving", "signal"} : Proceed(w, next)
    /\ wpc[w] \in {"opening", "serving"} /\ wreg[w] \in Regions
    /\ ClientTypes' /\ FileTypes' /\ UNCHANGED requests /\ UnchangedByWorker

LEMMA FaultTypes ==
    ASSUME IInv, NEW w \in Workers, wpc[w] # "none", Fault(wreg[w])
    PROVE  faults' \in 0..MaxFaults /\ broken' \in SUBSET Regions
BY FaultsNat DEF Fault, IInv, Types, FileTypes, AllManned, Manned

LEMMA EndsCallIs ==
    ASSUME IInv, NEW w \in Workers, EndsCall(w)
    PROVE  LetsGo(w)
<1>1. wpc[w] \in {"opening", "serving"} /\ wcur[w] # Nil
    BY DEF EndsCall, OpenMissing, OpenFails, CreateFails, WriteChunk, ReadChunk, ReadModDate,
           RequestFails, Serving, IInv, AllManned, Manned
<1>2. wcur[w] \in Calls /\ wreg[w] \in Regions
    BY <1>1 DEF IInv, Types, WorkerTypes, AllManned, Manned
<1> DEFINE c == wcur[w]
<1>3. call[c].chunk \in Chunks
    <2>1. status[c] = "sent" /\ call[c] # NoCall
        BY <1>2, Places DEF IInv, AllPlaced, Placed
    <2> QED
        BY <1>2, <2>1 DEF IInv, Types, ClientTypes
<1>4. CASE OpenMissing(w)
    <2>1. FileTypes'
        BY <1>4 DEF OpenMissing, NoFault, fileVars, IInv, Types, FileTypes
    <2> QED
        BY <1>1, <1>2, <1>4, <2>1, AnswerTypes DEF OpenMissing, LetsGo
<1>5. CASE OpenFails(w)
    <2>1. FileTypes'
        BY <1>1, <1>5, FaultTypes DEF OpenFails, fileVars, IInv, Types, FileTypes
    <2> QED
        BY <1>1, <1>2, <1>5, <2>1, AnswerTypes DEF OpenFails, LetsGo
<1>6. CASE CreateFails(w)
    <2>1. FileTypes'
        BY <1>1, <1>6, FaultTypes DEF CreateFails, fileVars, IInv, Types, FileTypes
    <2> QED
        BY <1>1, <1>2, <1>6, <2>1, AnswerTypes DEF CreateFails, LetsGo
<1>7. CASE WriteChunk(w)
    <2>1. FileTypes'
        BY <1>2, <1>3, <1>7 DEF WriteChunk, NoFault, IInv, Types, FileTypes
    <2> QED
        BY <1>1, <1>2, <1>7, <2>1, AnswerTypes DEF WriteChunk, LetsGo
<1>8. CASE ReadChunk(w)
    <2>1. FileTypes'
        BY <1>8 DEF ReadChunk, NoFault, fileVars, IInv, Types, FileTypes
    <2>2. data[call[c].chunk] \in Calls \cup {Old, Nil}
        BY <1>3 DEF IInv, Types, FileTypes
    <2>3. PICK v \in {"nil", "error", Old} \cup Calls : Answered(c, v)
        BY <1>8, <2>2 DEF ReadChunk
    <2>5. ClientTypes' /\ Ends(c)
        BY <1>2, <2>3, AnswerTypes
    <2> QED
        BY <1>1, <1>2, <1>8, <2>1, <2>5 DEF ReadChunk, LetsGo
<1>9. CASE ReadModDate(w)
    <2>1. FileTypes'
        BY <1>9 DEF ReadModDate, NoFault, fileVars, IInv, Types, FileTypes
    <2> QED
        BY <1>1, <1>2, <1>9, <2>1, AnswerTypes DEF ReadModDate, Serving, LetsGo
<1>10. CASE RequestFails(w)
    <2>1. FileTypes'
        BY <1>1, <1>3, <1>10, FaultTypes DEF RequestFails, IInv, Types, FileTypes
    <2>2. ClientTypes' /\ Ends(c)
        BY <1>2, <1>10 DEF RequestFails, Ends, IInv, Types, ClientTypes
    <2> QED
        BY <1>1, <1>2, <1>10, <2>1, <2>2 DEF RequestFails, LetsGo
<1> QED
    BY <1>4, <1>5, <1>6, <1>7, <1>8, <1>9, <1>10 DEF EndsCall

LEMMA EndsCallStep ==
    ASSUME IInv, NEW w \in Workers, EndsCall(w)
    PROVE  IInv'
<1>1. LetsGo(w)
    BY EndsCallIs
<1>c. PICK c \in Calls : c = wcur[w]
    BY <1>1 DEF LetsGo
<1>2. PICK next \in {"serving", "signal"} : Proceed(w, next)
    BY <1>1 DEF LetsGo
<1>3. /\ wpc' = [wpc EXCEPT ![w] = next] /\ wcur' = [wcur EXCEPT ![w] = Nil]
      /\ UNCHANGED <<requests, wchan, reqClosed, routing, router, table, wreg, wclosed, panicked>>
    BY <1>1, <1>2 DEF LetsGo, Proceed, UnchangedByWorker, routerVars
<1>4. Types'
    <2>1. WorkerTypes'
        BY <1>3 DEF IInv, Types, WorkerTypes
    <2>2. RouterTypes'
        BY <1>3 DEF IInv, Types, RouterTypes, Messages, CallMsg, CloseMsg, TickMsg
    <2> QED
        BY <1>1, <2>1, <2>2 DEF LetsGo, Types
<1>5. AllPlaced'
    <2>1. c \in Calls /\ Ends(c) /\ Placed(c) /\ At(c, w)
        BY <1>c, <1>1, Places DEF LetsGo, IInv, AllPlaced
    <2>2. /\ status[c] = "sent" /\ ~Requested(c) /\ routing # c
          /\ \A v \in Workers : (At(c, v) => v = w) /\ ~InChan(c, w)
        BY <1>c, <2>1, Places DEF Placed
    <2>3. \A v \in Workers : v # w => wcur'[v] = wcur[v]
        BY <1>3 DEF IInv, Types, WorkerTypes
    <2>4. wcur'[w] = Nil /\ wchan' = wchan /\ routing' = routing /\ Nil \notin Calls
        BY <1>3, Distinct DEF IInv, Types, WorkerTypes
    <2>5. \A d \in Calls, v \in Workers : Once(wchan'[v], d)
        BY <2>4 DEF IInv, AllPlaced, Placed
    <2>6. \A v \in Workers : ~At(c, v)'
        BY <2>1, <2>2, <2>3, <2>4, Places
    <2>7. \A d \in Calls, v \in Workers : d # c => /\ At(d, v)' <=> At(d, v)
                                                   /\ wcur'[v] = d => wcur[v] = d
                                                   /\ InChan(d, v)' => InChan(d, v)
        BY <1>c, <2>1, <2>3, <2>4, Places
    <2> QED
        BY <1>3, <2>1, <2>2, <2>4, <2>5, <2>6, <2>7, EndsWhereItWas
<1>6. ASSUME NEW v \in Workers PROVE Manned(v)'
    BY <1>1, <1>3 DEF LetsGo, IInv, AllManned, Manned, Types, WorkerTypes
<1>7. AllEntries' /\ RouterRuns'
    BY <1>3 DEF IInv, AllEntries, Entry, Present, RouterRuns, Types, WorkerTypes
<1> QED
    BY <1>4, <1>5, <1>6, <1>7 DEF IInv, AllManned

-----------------------------------------------------------------------------
(* Every step *)

LEMMA NextIInv == IInv /\ [Next]_vars => IInv'
<1> SUFFICES ASSUME IInv, [Next]_vars PROVE IInv'
    OBVIOUS
<1>1. CASE UNCHANGED vars
    <2>1. SameRequests /\ requests' \in Seq(Messages) /\ Len(requests') <= ReqCap
        BY <1>1, RequestsKeepCalls DEF vars
    <2>2. /\ reqClosed' \in BOOLEAN /\ panicked' \in BOOLEAN
          /\ router = "stopped" => reqClosed' /\ requests' = <<>>
        BY <1>1 DEF vars, IInv, Types, RouterTypes, RouterRuns
    <2> QED
        BY <1>1, <2>1, <2>2, Elsewhere DEF vars
<1>2. CASE Client
    BY <1>2, PanicStep, CallStep, TickStep, CloseStep
    DEF Client, CallAfterClose, TickAfterClose
<1>3. CASE Router
    BY <1>3, RouteCallStep, StartWorkerStep, PassToWorkerStep, AnswerForClosedStep,
       CloseUnknownStep, CloseRegionStep, PanicStep, CloseInactiveStep, StopRouterStep
    DEF Router, CloseRegionTwice
<1>4. ASSUME NEW w \in Workers, Worker(w) PROVE IInv'
    BY <1>4, OpenStep, EndsCallStep, ReceiveStep, SendCloseStep, PanicStep, DrainStep, FinishStep
    DEF Worker, EndsCall, SendCloseAfterClose
<1> QED
    BY <1>1, <1>2, <1>3, <1>4 DEF Next

\* The table of regions, the workers, their channels and the calls fit together
\* (filesystemChunkStorage.go and region.go): the invariant that the theorem
\* after this one needs.
THEOREM Invariance == Spec => []IInv
BY InitIInv, NextIInv, PTL DEF Spec

\* A chunk call that was sent and not answered is in exactly one place, and the
\* worker that has it is one of the chunk's own region that will still look at it:
\* region.go:95-126 hands a request to one worker, and no worker leaves before its
\* channel is closed and empty (region.go:251-262, 346-357).
THEOREM RequestsHaveOneHome == Spec => []OneHome
BY Invariance, InvariantSays, PTL

-----------------------------------------------------------------------------
(* One user for each region file, given that no worker leaves a request    *)
(* lying for over a minute                                                  *)

AskedToClose(g) == Occurs(requests, CloseMsg(g))

\* The worker is the one its region's entry names, and the entry is open.
Owns(w) == table[wreg[w]] = [worker |-> w, exists |-> TRUE]

\* The worker has calls to carry out, or is about to ask for its end.
Busy(w) ==
    \/ wpc[w] \in {"opening", "signal"}
    \/ wpc[w] = "serving" /\ (wcur[w] # Nil \/ wchan[w] # <<>>)

BusyOwns == \A w \in Workers : Busy(w) => Owns(w)

\* A region is asked to be closed once, by its own worker, which then only drains.
Closing(g) ==
    /\ AskedToClose(g) => /\ Present(g) /\ table[g].exists
                          /\ wpc[table[g].worker] = "draining"
    /\ Once(requests, CloseMsg(g))
    /\ Present(g) /\ ~table[g].exists => wpc[table[g].worker] \in {"draining", "done"}

\* A region the router keeps closed, or will close, has failed or has no file.
Failed(g) ==
    Present(g) /\ (~table[g].exists \/ wpc[table[g].worker] \in {"signal", "draining"})
        => g \in broken \/ g \notin file

\* What cannot be read was there at the start or is in a region that failed.
OldDamage == \A x \in damaged : data[x] = Old \/ RegionOf[x] \in broken

\* Chunks are in files, and a worker that serves has one.
Stored ==
    /\ \A x \in Chunks : RegionOf[x] \notin file => data[x] = Nil
    /\ \A w \in Workers : wpc[w] = "serving" => wreg[w] \in file
    /\ OldDamage

Orderly == /\ BusyOwns /\ (\A g \in Regions : Closing(g) /\ Failed(g)) /\ Stored
           /\ panicked => reqClosed

OInv == IInv /\ Orderly

LEMMA InitOrderly == Init => OInv
<1> SUFFICES ASSUME Init PROVE OInv
    OBVIOUS
<1>1. \A g \in Regions : ~Present(g) /\ ~AskedToClose(g) /\ Once(requests, CloseMsg(g))
    BY DEF Init, Present, NoEntry, AskedToClose, Occurs, Once
<1>2. \A w \in Workers : wpc[w] = "none"
    BY DEF Init
<1>3. Stored
    BY <1>2 DEF Init, Stored, OldDamage
<1>4. BusyOwns /\ ~panicked
    BY <1>2 DEF Init, BusyOwns, Busy
<1> QED
    BY <1>1, <1>3, <1>4, InitIInv DEF OInv, Orderly, Closing, Failed

\* No region is newly asked to be closed, and none twice.
NoNewClose ==
    \A g \in Regions : /\ AskedToClose(g)' => AskedToClose(g)
                       /\ Once(requests, CloseMsg(g)) => Once(requests', CloseMsg(g))

LEMMA RequestsKeepCloses ==
    ASSUME IInv,
           \/ requests' = requests
           \/ \E m \in Messages : m.op # "close" /\ Send(m)
           \/ requests # <<>> /\ requests' = Tail(requests)
    PROVE  NoNewClose
<1>1. requests \in Seq(Messages)
    BY DEF IInv, Types, RouterTypes
<1>2. \A g : CloseMsg(g).op = "close"
    BY DEF CloseMsg
<1>3. CASE requests' = requests
    BY <1>3 DEF NoNewClose, AskedToClose
<1>4. ASSUME NEW m \in Messages, m.op # "close", Send(m) PROVE NoNewClose
    <2>1. \A x : /\ Occurs(Append(requests, m), x) <=> Occurs(requests, x) \/ x = m
                 /\ Once(requests, x) /\ (x = m => ~Occurs(requests, x))
                       => Once(Append(requests, m), x)
        BY <1>1, AppendOccurs
    <2>2. \A g : CloseMsg(g) # m
        BY <1>2, <1>4
    <2> QED
        BY <1>4, <2>1, <2>2 DEF Send, NoNewClose, AskedToClose
<1>5. CASE requests # <<>> /\ requests' = Tail(requests)
    BY <1>1, <1>5, TailOccurs DEF NoNewClose, AskedToClose
<1> QED
    BY <1>3, <1>4, <1>5

LEMMA OrderlyElsewhere ==
    ASSUME OInv, NoNewClose,
           UNCHANGED <<table, wpc, wreg, wcur, wchan, file, data, damaged, broken>>,
           panicked' => reqClosed'
    PROVE  Orderly'
<1>1. BusyOwns'
    BY DEF OInv, Orderly, BusyOwns, Busy, Owns
<1>2. ASSUME NEW g \in Regions PROVE Closing(g)' /\ Failed(g)'
    BY DEF OInv, Orderly, Closing, Failed, Present, NoNewClose
<1>3. Stored'
    BY DEF OInv, Orderly, Stored, OldDamage
<1> QED
    BY <1>1, <1>2, <1>3 DEF Orderly

LEMMA OrderlyStartWorker ==
    ASSUME OInv, IInv', NEW w \in Workers, StartWorker(w)
    PROVE  Orderly'
<1>1. Target \in Regions /\ ~Present(Target) /\ Free(w) /\ w # Nil /\ routing # Nil
    BY TargetIs, Distinct DEF StartWorker, OInv
<1>2. /\ table' = [table EXCEPT ![Target] = [worker |-> w, exists |-> TRUE]]
      /\ wpc' = [wpc EXCEPT ![w] = "opening"] /\ wreg' = [wreg EXCEPT ![w] = Target]
      /\ wcur' = [wcur EXCEPT ![w] = routing] /\ wchan' = [wchan EXCEPT ![w] = <<>>]
      /\ UNCHANGED <<requests, reqClosed, file, data, damaged, panicked, broken>>
    BY DEF StartWorker, fileVars
<1> DEFINE t == Target
<1>3. t \in Regions /\ ~Present(t)
    BY <1>1
<1>4. /\ table' = [table EXCEPT ![t] = [worker |-> w, exists |-> TRUE]]
      /\ wreg' = [wreg EXCEPT ![w] = t]
    BY <1>2
<1> HIDE DEF t
<1>5. /\ table \in [Regions -> [worker : Workers \cup {Nil}, exists : BOOLEAN]]
      /\ wpc \in [Workers -> {"none", "opening", "serving", "signal", "draining", "done"}]
      /\ wreg \in [Workers -> Regions \cup {Nil}]
      /\ wcur \in [Workers -> Calls \cup {Nil}] /\ wchan \in [Workers -> Seq(Calls)]
    BY DEF OInv, IInv, Types, RouterTypes, WorkerTypes
<1>6. BusyOwns'
    <2> SUFFICES ASSUME NEW v \in Workers, Busy(v)' PROVE Owns(v)'
        BY DEF BusyOwns
    <2>1. CASE v = w
        BY <1>3, <1>4, <1>5, <2>1 DEF Owns
    <2>2. CASE v # w
        <3>1. UNCHANGED <<wpc[v], wreg[v], wcur[v], wchan[v]>>
            BY <1>2, <1>5, <2>2
        <3>2. Busy(v) /\ Owns(v)
            BY <3>1 DEF Busy, OInv, Orderly, BusyOwns
        <3>3. wreg[v] \in Regions
            BY <3>2 DEF Busy, OInv, IInv, AllManned, Manned
        <3>4. table[wreg[v]].worker = v /\ v # Nil
            BY <3>2, Distinct DEF Owns
        <3>5. wreg[v] # t
            BY <1>3, <3>4 DEF Present
        <3> QED
            BY <1>4, <1>5, <3>1, <3>2, <3>3, <3>5 DEF Owns
    <2> QED
        BY <2>1, <2>2
<1>7. ASSUME NEW g \in Regions PROVE Closing(g)' /\ Failed(g)'
    <2>1. AskedToClose(g)' <=> AskedToClose(g)
        BY <1>2 DEF AskedToClose
    <2>2. Closing(g) /\ Failed(g)
        BY DEF OInv, Orderly
    <2>3. CASE g = t
        <3>1. table'[g].exists /\ table'[g].worker = w /\ wpc'[w] = "opening"
            BY <1>2, <1>3, <1>4, <1>5, <2>3
        <3>2. ~AskedToClose(g)'
            BY <1>3, <2>1, <2>2, <2>3 DEF Closing
        <3> QED
            BY <1>2, <2>2, <3>1, <3>2 DEF Closing, Failed
    <2>4. CASE g # t
        <3>1. table'[g] = table[g] /\ table[g].worker # w
            BY <1>1, <1>4, <1>5, <2>4 DEF Free
        <3>2. Present(g) => wpc'[table[g].worker] = wpc[table[g].worker]
            BY <1>2, <1>5, <3>1 DEF Present
        <3> QED
            BY <1>2, <2>1, <2>2, <3>1, <3>2 DEF Closing, Failed, Present
    <2> QED
        BY <2>3, <2>4
<1>8. Stored'
    BY <1>2, <1>5 DEF OInv, Orderly, Stored, OldDamage
<1> QED
    BY <1>2, <1>6, <1>7, <1>8 DEF OInv, Orderly

LEMMA OrderlyPassToWorker ==
    ASSUME OInv, PassToWorker
    PROVE  Orderly'
<1>1. Target \in Regions /\ routing # Nil
    BY TargetIs DEF PassToWorker, OInv
<1>2. PICK w \in Workers : w = table[Target].worker
    BY <1>1, EntryTypes DEF PassToWorker, OInv
<1>3. wreg[w] = Target
    BY <1>1, <1>2, EntryTypes DEF PassToWorker, OInv
<1>4. Owns(w)
    BY <1>1, <1>2, <1>3 DEF PassToWorker, Owns, OInv, IInv, Types, RouterTypes
<1>5. /\ wchan' = [wchan EXCEPT ![w] = Append(wchan[w], routing)]
      /\ UNCHANGED <<requests, reqClosed, table, wpc, wreg, wcur, file, data, damaged, panicked, broken>>
    BY <1>2 DEF PassToWorker, fileVars
<1>6. BusyOwns'
    <2> SUFFICES ASSUME NEW v \in Workers, Busy(v)' PROVE Owns(v)'
        BY DEF BusyOwns
    <2>1. v # w => Busy(v)
        BY <1>5 DEF Busy, OInv, IInv, Types, WorkerTypes
    <2>2. Owns(v)
        BY <1>4, <2>1 DEF OInv, Orderly, BusyOwns
    <2> QED
        BY <1>5, <2>2 DEF Owns
<1>7. ASSUME NEW g \in Regions PROVE Closing(g)' /\ Failed(g)'
    BY <1>5 DEF OInv, Orderly, Closing, Failed, Present, AskedToClose
<1>8. Stored'
    BY <1>5 DEF OInv, Orderly, Stored, OldDamage
<1> QED
    BY <1>5, <1>6, <1>7, <1>8 DEF OInv, Orderly

LEMMA OrderlyCloseRegion ==
    ASSUME OInv, CloseRegion
    PROVE  Orderly'
<1>1. requests # <<>> /\ requests' = Tail(requests) /\ requests \in Seq(Messages)
    BY DEF CloseRegion, Receiving, OInv, IInv, Types, RouterTypes
<1>2. Head(requests) \in Messages /\ Head(requests).op = "close"
    BY <1>1, TailOccurs DEF CloseRegion, Receiving
<1>3. PICK g \in Regions : Head(requests) = CloseMsg(g)
    BY <1>2 DEF Messages, CallMsg, CloseMsg, TickMsg
<1>4. Head(requests).region = g
    BY <1>3 DEF CloseMsg
<1>5. /\ table' = [table EXCEPT ![g].exists = FALSE]
      /\ UNCHANGED <<reqClosed, wpc, wreg, wcur, wchan, file, data, damaged, panicked, broken>>
    BY <1>4 DEF CloseRegion, Shut, fileVars
<1>6. NoNewClose
    BY <1>1, RequestsKeepCloses DEF OInv
<1>7. AskedToClose(g) /\ ~AskedToClose(g)'
    BY <1>1, <1>3, TailOccurs DEF AskedToClose, OInv, Orderly, Closing
<1>8. table[g].exists /\ wpc[table[g].worker] = "draining" /\ Present(g)
    BY <1>7 DEF OInv, Orderly, Closing
<1>9. \A h \in Regions : /\ table'[h].worker = table[h].worker
                         /\ h # g => table'[h] = table[h]
                         /\ ~table'[g].exists
    BY <1>5 DEF OInv, IInv, Types, RouterTypes
<1>10. BusyOwns'
    <2> SUFFICES ASSUME NEW v \in Workers, Busy(v)' PROVE Owns(v)'
        BY DEF BusyOwns
    <2>1. Busy(v) /\ Owns(v) /\ wreg[v] \in Regions
        BY <1>5 DEF Busy, OInv, Orderly, BusyOwns, IInv, AllManned, Manned
    <2>2. wreg[v] # g
        BY <1>8, <2>1 DEF Busy, Owns
    <2> QED
        BY <1>5, <1>9, <2>1, <2>2 DEF Owns
<1>11. ASSUME NEW h \in Regions PROVE Closing(h)' /\ Failed(h)'
    <2>1. Closing(h) /\ Failed(h) /\ (Present(h)' <=> Present(h))
        BY <1>9 DEF OInv, Orderly, Present
    <2>2. CASE h = g
        BY <1>5, <1>6, <1>7, <1>8, <1>9, <2>1, <2>2 DEF Closing, Failed, NoNewClose
    <2>3. CASE h # g
        BY <1>5, <1>6, <1>9, <2>1, <2>3 DEF Closing, Failed, NoNewClose
    <2> QED
        BY <2>2, <2>3
<1>12. Stored'
    BY <1>5 DEF OInv, Orderly, Stored, OldDamage
<1> QED
    BY <1>5, <1>10, <1>11, <1>12 DEF OInv, Orderly

\* What is closed for lack of requests had nobody asking for its end.
LEMMA OrderlyCloseInactive ==
    ASSUME ~SlowWorkers, OInv, NEW S \in SUBSET Regions, CloseInactive(S)
    PROVE  Orderly'
<1>1. /\ table' = [g \in Regions |-> IF g \in S THEN NoEntry ELSE table[g]]
      /\ UNCHANGED <<reqClosed, wpc, wreg, wcur, wchan, file, data, damaged, panicked, broken>>
    BY DEF CloseInactive, fileVars
<1>2. NoNewClose
    BY RequestsKeepCloses DEF CloseInactive, Receiving, OInv
<1>3. ASSUME NEW g \in S
      PROVE  \/ ~table[g].exists
             \/ wpc[table[g].worker] = "serving" /\ ~Busy(table[g].worker)
    BY DEF CloseInactive, Inactive, Busy
<1>4. BusyOwns'
    <2> SUFFICES ASSUME NEW v \in Workers, Busy(v)' PROVE Owns(v)'
        BY DEF BusyOwns
    <2>1. Busy(v) /\ Owns(v) /\ wreg[v] \in Regions
        BY <1>1 DEF Busy, OInv, Orderly, BusyOwns, IInv, AllManned, Manned
    <2>2. wreg[v] \notin S
        BY <1>3, <2>1 DEF Owns
    <2> QED
        BY <1>1, <2>1, <2>2 DEF Owns
<1>5. ASSUME NEW g \in Regions PROVE Closing(g)' /\ Failed(g)'
    <2>1. Closing(g) /\ Failed(g)
        BY DEF OInv, Orderly
    <2>2. CASE g \in S
        <3>1. ~Present(g)' /\ ~AskedToClose(g)
            BY <1>1, <1>3, <2>1, <2>2 DEF Present, NoEntry, Closing
        <3> QED
            BY <1>2, <2>1, <3>1 DEF Closing, Failed, NoNewClose
    <2>3. CASE g \notin S
        BY <1>1, <1>2, <2>1, <2>3 DEF Closing, Failed, Present, NoNewClose
    <2> QED
        BY <2>2, <2>3
<1>6. Stored'
    BY <1>1 DEF OInv, Orderly, Stored, OldDamage
<1> QED
    BY <1>1, <1>4, <1>5, <1>6 DEF OInv, Orderly

\* A worker goes from one state to another that is no busier: it opens, ends a
\* call, receives or drains.
LEMMA OrderlyWorkerGoes ==
    ASSUME OInv, NEW w \in Workers, NEW next, wpc' = [wpc EXCEPT ![w] = next],
           NoNewClose,
           UNCHANGED <<table, wreg, reqClosed, panicked>>,
           \A v \in Workers : v # w => UNCHANGED <<wcur[v], wchan[v]>>,
           Busy(w)' => Busy(w),
           wpc[w] \in {"opening", "serving", "draining"},
           next \in {"serving", "signal", "draining"},
           next = "draining" <=> wpc[w] = "draining",
           next = "signal" => wreg[w] \in broken' \/ wreg[w] \notin file',
           next = "serving" => wreg[w] \in file',
           broken \subseteq broken', file \subseteq file',
           \A g \in file' \ file : g = wreg[w] /\ next = "serving" /\ Busy(w),
           \A x \in Chunks : RegionOf[x] \notin file' => data'[x] = data[x],
           OldDamage'
    PROVE  Orderly'
<1>1. /\ wpc \in [Workers -> {"none", "opening", "serving", "signal", "draining", "done"}]
      /\ \A v \in Workers : v # w => wpc'[v] = wpc[v]
      /\ wpc'[w] = next
    BY DEF OInv, IInv, Types, WorkerTypes
<1>2. BusyOwns'
    <2> SUFFICES ASSUME NEW v \in Workers, Busy(v)' PROVE Owns(v)'
        BY DEF BusyOwns
    <2>1. Busy(v)
        BY <1>1 DEF Busy
    <2> QED
        BY <2>1 DEF OInv, Orderly, BusyOwns, Owns
<1>3. ASSUME NEW g \in Regions PROVE Closing(g)' /\ Failed(g)'
    <2>1. Closing(g) /\ Failed(g) /\ (Present(g)' <=> Present(g))
        BY DEF OInv, Orderly, Present
    <2>2. CASE table[g].worker # w
        <3>1. Present(g) => wpc'[table[g].worker] = wpc[table[g].worker]
            BY <1>1, <2>2, EntryTypes DEF OInv
        <3>2. g \in file' => g \in file \/ ~Present(g)
            <4> SUFFICES ASSUME g \in file' \ file PROVE ~Present(g)
                OBVIOUS
            <4>1. g = wreg[w] /\ Owns(w)
                BY DEF OInv, Orderly, BusyOwns
            <4> QED
                BY <2>2, <4>1 DEF Owns
        <3> QED
            BY <2>1, <3>1, <3>2 DEF Closing, Failed, NoNewClose
    <2>3. CASE table[g].worker = w
        <3>1. Present(g) => wreg[w] = g
            BY <2>3, EntryTypes DEF OInv
        <3>2. Closing(g)'
            BY <1>1, <2>1, <2>3 DEF Closing, NoNewClose
        <3>3. Failed(g)'
            <4>1. CASE next = "serving"
                <5>1. Present(g) => table[g].exists
                    <6>1. Present(g) /\ ~table[g].exists => wpc[w] \in {"draining", "done"}
                        BY <2>1, <2>3 DEF Closing
                    <6> QED
                        BY <4>1, <6>1
                <5> QED
                    BY <1>1, <2>1, <2>3, <4>1, <5>1 DEF Failed
            <4>2. CASE next = "signal"
                BY <1>1, <2>1, <2>3, <3>1, <4>2 DEF Failed
            <4>3. CASE next = "draining"
                <5>1. g \in file' => g \in file
                    BY <4>3
                <5> QED
                    BY <1>1, <2>1, <2>3, <4>3, <5>1 DEF Failed
            <4> QED
                BY <4>1, <4>2, <4>3
        <3> QED
            BY <3>2, <3>3
    <2> QED
        BY <2>2, <2>3
<1>4. Stored'
    <2>1. \A x \in Chunks : RegionOf[x] \notin file' => data'[x] = Nil
        BY DEF OInv, Orderly, Stored, OldDamage
    <2>2. \A v \in Workers : wpc'[v] = "serving" => wreg[v] \in file'
        BY <1>1 DEF OInv, Orderly, Stored, OldDamage
    <2> QED
        BY <2>1, <2>2 DEF Stored
<1> QED
    BY <1>2, <1>3, <1>4 DEF OInv, Orderly

LEMMA OrderlySendClose ==
    ASSUME OInv, NEW w \in Workers, SendClose(w)
    PROVE  Orderly'
<1>1. /\ wpc[w] = "signal" /\ wpc' = [wpc EXCEPT ![w] = "draining"]
      /\ requests' = Append(requests, CloseMsg(wreg[w]))
      /\ UNCHANGED <<table, wreg, wcur, wchan, file, data, damaged, panicked, reqClosed, broken>>
    BY DEF SendClose, Send, UnchangedByWorker, NoFault, routerVars, fileVars
<1>2. PICK r \in Regions : r = wreg[w]
    BY <1>1 DEF OInv, IInv, AllManned, Manned
<1>3. table[r] = [worker |-> w, exists |-> TRUE]
    BY <1>1, <1>2 DEF OInv, Orderly, BusyOwns, Busy, Owns
<1>4. table[r].worker = w /\ table[r].exists /\ Present(r)
    BY <1>3, Distinct DEF Present
<1>5. /\ wpc \in [Workers -> {"none", "opening", "serving", "signal", "draining", "done"}]
      /\ \A v \in Workers : v # w => wpc'[v] = wpc[v]
      /\ wpc'[w] = "draining"
    BY <1>1 DEF OInv, IInv, Types, WorkerTypes
<1>6. ASSUME NEW g \in Regions
      PROVE  /\ g # r => (AskedToClose(g)' => AskedToClose(g))
             /\ Once(requests', CloseMsg(g))
    <2>1. CloseMsg(r) \in Messages /\ requests \in Seq(Messages)
        BY DEF Messages, OInv, IInv, Types, RouterTypes
    <2>2. /\ AskedToClose(g)' <=> AskedToClose(g) \/ CloseMsg(g) = CloseMsg(r)
          /\ Once(requests, CloseMsg(g)) /\ (CloseMsg(g) = CloseMsg(r) => ~AskedToClose(g))
                => Once(requests', CloseMsg(g))
        BY <1>1, <1>2, <2>1, AppendOccurs DEF AskedToClose
    <2>3. CloseMsg(g) = CloseMsg(r) => g = r
        BY DEF CloseMsg
    <2>4. ~AskedToClose(r)
        BY <1>1, <1>4 DEF OInv, Orderly, Closing
    <2> QED
        BY <2>2, <2>3, <2>4 DEF OInv, Orderly, Closing
<1>7. BusyOwns'
    <2> SUFFICES ASSUME NEW v \in Workers, Busy(v)' PROVE Owns(v)'
        BY DEF BusyOwns
    <2>1. Busy(v)
        BY <1>1, <1>5 DEF Busy
    <2> QED
        BY <1>1, <2>1 DEF OInv, Orderly, BusyOwns, Owns
<1>8. ASSUME NEW g \in Regions PROVE Closing(g)' /\ Failed(g)'
    <2>1. Closing(g) /\ Failed(g) /\ (Present(g)' <=> Present(g))
        BY <1>1 DEF OInv, Orderly, Present
    <2>2. CASE g = r
        BY <1>1, <1>4, <1>5, <1>6, <2>1, <2>2 DEF Closing, Failed
    <2>3. CASE g # r
        <3>1. Present(g) => wpc'[table[g].worker] = wpc[table[g].worker]
            BY <1>2, <1>5, <2>3, EntryTypes DEF OInv
        <3> QED
            BY <1>1, <1>6, <2>1, <2>3, <3>1 DEF Closing, Failed
    <2> QED
        BY <2>2, <2>3
<1>9. Stored'
    BY <1>1, <1>5 DEF OInv, Orderly, Stored, OldDamage
<1> QED
    BY <1>1, <1>7, <1>8, <1>9 DEF OInv, Orderly

LEMMA OrderlyFinish ==
    ASSUME OInv, NEW w \in Workers, Finish(w)
    PROVE  Orderly'
<1>1. /\ wpc[w] \in {"serving", "draining"} /\ wclosed[w] /\ wpc' = [wpc EXCEPT ![w] = "done"]
      /\ UNCHANGED <<requests, table, wreg, wcur, wchan, file, data, damaged, panicked, reqClosed, broken>>
    BY DEF Finish, UnchangedByWorker, NoFault, routerVars, fileVars
<1>2. /\ wpc \in [Workers -> {"none", "opening", "serving", "signal", "draining", "done"}]
      /\ \A v \in Workers : v # w => wpc'[v] = wpc[v]
      /\ wpc'[w] = "done"
    BY <1>1 DEF OInv, IInv, Types, WorkerTypes
<1>3. BusyOwns'
    <2> SUFFICES ASSUME NEW v \in Workers, Busy(v)' PROVE Owns(v)'
        BY DEF BusyOwns
    <2>1. Busy(v)
        BY <1>1, <1>2 DEF Busy
    <2> QED
        BY <1>1, <2>1 DEF OInv, Orderly, BusyOwns, Owns
<1>4. ASSUME NEW g \in Regions PROVE Closing(g)' /\ Failed(g)'
    <2>1. /\ Closing(g) /\ Failed(g) /\ (Present(g)' <=> Present(g))
          /\ AskedToClose(g)' <=> AskedToClose(g)
        BY <1>1 DEF OInv, Orderly, Present, AskedToClose
    <2>2. CASE table[g].worker = w
        <3>1. ~AskedToClose(g)
            <4> SUFFICES ASSUME AskedToClose(g) PROVE FALSE
                OBVIOUS
            <4>1. requests # <<>> /\ table[g].exists
                BY <2>1 DEF AskedToClose, Occurs, Closing
            <4>2. router = "run"
                BY <4>1 DEF OInv, IInv, RouterRuns, Types, RouterTypes
            <4> QED
                BY <1>1, <2>2, <4>1, <4>2 DEF OInv, IInv, AllEntries, Entry
        <3> QED
            BY <1>1, <1>2, <2>1, <2>2, <3>1 DEF Closing, Failed
    <2>3. CASE table[g].worker # w
        <3>1. Present(g) => wpc'[table[g].worker] = wpc[table[g].worker]
            BY <1>2, <2>3, EntryTypes DEF OInv
        <3> QED
            BY <1>1, <2>1, <3>1 DEF Closing, Failed
    <2> QED
        BY <2>2, <2>3
<1>5. Stored'
    BY <1>1, <1>2 DEF OInv, Orderly, Stored, OldDamage
<1> QED
    BY <1>1, <1>3, <1>4, <1>5 DEF OInv, Orderly

LEMMA OrderlyOpen ==
    ASSUME OInv, NEW w \in Workers, Open(w)
    PROVE  Orderly'
<1>1. /\ wpc[w] = "opening" /\ wpc' = [wpc EXCEPT ![w] = "serving"]
      /\ file' = file \cup {wreg[w]}
      /\ UNCHANGED <<requests, table, wreg, wcur, wchan, data, damaged, panicked, reqClosed, broken>>
    BY DEF Open, UnchangedByWorker, NoFault, routerVars
<1>2. NoNewClose
    BY <1>1, RequestsKeepCloses DEF OInv
<1>3. Busy(w)
    BY <1>1 DEF Busy
<1>9. OldDamage'
    BY <1>1 DEF OInv, Orderly, Stored, OldDamage
<1> QED
    BY <1>1, <1>2, <1>3, <1>9, OrderlyWorkerGoes

LEMMA OrderlyReceive ==
    ASSUME OInv, NEW w \in Workers, Receive(w)
    PROVE  Orderly'
<1>1. /\ wpc[w] = "serving" /\ wpc' = [wpc EXCEPT ![w] = "serving"] /\ wchan[w] # <<>>
      /\ UNCHANGED <<requests, table, wreg, file, data, damaged, panicked, reqClosed, broken>>
      /\ \A v \in Workers : v # w => UNCHANGED <<wcur[v], wchan[v]>>
    BY DEF Receive, UnchangedByWorker, NoFault, routerVars, fileVars, OInv, IInv, Types, WorkerTypes
<1>2. NoNewClose
    BY <1>1, RequestsKeepCloses DEF OInv
<1>3. Busy(w) /\ wreg[w] \in file
    BY <1>1 DEF Busy, OInv, Orderly, Stored
<1>9. OldDamage'
    BY <1>1 DEF OInv, Orderly, Stored, OldDamage
<1> QED
    BY <1>1, <1>2, <1>3, <1>9, OrderlyWorkerGoes

LEMMA OrderlyDrain ==
    ASSUME OInv, NEW w \in Workers, Drain(w)
    PROVE  Orderly'
<1>1. /\ wpc[w] = "draining" /\ wpc' = [wpc EXCEPT ![w] = "draining"]
      /\ UNCHANGED <<requests, table, wreg, file, data, damaged, panicked, reqClosed, broken>>
      /\ \A v \in Workers : v # w => UNCHANGED <<wcur[v], wchan[v]>>
    BY DEF Drain, UnchangedByWorker, NoFault, routerVars, fileVars, OInv, IInv, Types, WorkerTypes
<1>2. NoNewClose
    BY <1>1, RequestsKeepCloses DEF OInv
<1>3. ~Busy(w)'
    BY <1>1 DEF Busy, OInv, IInv, Types, WorkerTypes
<1>9. OldDamage'
    BY <1>1 DEF OInv, Orderly, Stored, OldDamage
<1> QED
    BY <1>1, <1>2, <1>3, <1>9, OrderlyWorkerGoes

\* Where the call in a worker's hands belongs.
LEMMA InHandIs ==
    ASSUME IInv, NEW w \in Workers, wcur[w] # Nil
    PROVE  /\ wcur[w] \in Calls /\ status[wcur[w]] = "sent" /\ wcur[w] # routing
           /\ call[wcur[w]].chunk \in Chunks /\ RegionOf[call[wcur[w]].chunk] = wreg[w]
           /\ \A v \in Workers : v # w => wcur[v] # wcur[w]
<1>1. wcur[w] \in Calls
    BY DEF IInv, Types, WorkerTypes
<1>2. Placed(wcur[w]) /\ At(wcur[w], w) /\ Held(wcur[w])
    BY <1>1, Places DEF IInv, AllPlaced
<1>3. status[wcur[w]] = "sent" /\ call[wcur[w]] # NoCall /\ wcur[w] # routing
    BY <1>2 DEF Placed
<1>4. call[wcur[w]].chunk \in Chunks
    BY <1>1, <1>3 DEF IInv, Types, ClientTypes
<1> QED
    BY <1>1, <1>2, <1>3, <1>4, Places DEF Placed

\* What ending a call does to the files: a worker that gives up failed or found no
\* file, and what is written is in one.
LEMMA EndsCallEffect ==
    ASSUME OInv, NEW w \in Workers, EndsCall(w)
    PROVE  /\ \E next \in {"serving", "signal"} :
                  /\ wpc' = [wpc EXCEPT ![w] = next]
                  /\ next = "serving" => wpc[w] = "serving"
                  /\ next = "signal" => wreg[w] \in broken' \/ wreg[w] \notin file
           /\ wpc[w] \in {"opening", "serving"}
           /\ wcur' = [wcur EXCEPT ![w] = Nil]
           /\ UNCHANGED <<requests, reqClosed, routerVars, wreg, wchan, wclosed, panicked, file>>
           /\ broken \subseteq broken'
           /\ \A x \in Chunks : RegionOf[x] \notin file => data'[x] = data[x]
           /\ OldDamage'
<1> USE DEF OldDamage
<1>0. OldDamage /\ damaged \in SUBSET Chunks
    BY DEF OInv, Orderly, Stored, IInv, Types, FileTypes
<1>1. CASE OpenMissing(w)
    BY <1>0, <1>1 DEF OpenMissing, Proceed, NoFault, UnchangedByWorker, fileVars
<1>2. CASE OpenFails(w)
    BY <1>0, <1>2 DEF OpenFails, Proceed, Fault, UnchangedByWorker, fileVars
<1>3. CASE CreateFails(w)
    BY <1>0, <1>3 DEF CreateFails, Proceed, Fault, UnchangedByWorker, fileVars
<1>4. CASE WriteChunk(w)
    <2>1. wpc[w] = "serving" /\ wreg[w] \in file
        BY <1>4 DEF WriteChunk, Serving, OInv, Orderly, Stored
    <2>2. call[wcur[w]].chunk \in Chunks /\ RegionOf[call[wcur[w]].chunk] = wreg[w]
        BY <1>4, InHandIs DEF WriteChunk, Serving, OInv
    <2>3. \A x \in Chunks : RegionOf[x] \notin file => data'[x] = data[x]
        BY <1>4, <2>1, <2>2 DEF WriteChunk, OInv, IInv, Types, FileTypes
    <2>4. OldDamage'
        BY <1>0, <1>4, <2>2 DEF WriteChunk, NoFault, OInv, IInv, Types, FileTypes
    <2> QED
        BY <1>4, <2>1, <2>3, <2>4 DEF WriteChunk, Proceed, NoFault, UnchangedByWorker
<1>5. CASE ReadChunk(w)
    BY <1>0, <1>5 DEF ReadChunk, Serving, Proceed, NoFault, UnchangedByWorker, fileVars
<1>6. CASE ReadModDate(w)
    BY <1>0, <1>6 DEF ReadModDate, Serving, Proceed, NoFault, UnchangedByWorker, fileVars
<1>7. CASE RequestFails(w)
    <2>1. call[wcur[w]].chunk \in Chunks /\ RegionOf[call[wcur[w]].chunk] = wreg[w]
        BY <1>7, InHandIs DEF RequestFails, Serving, OInv
    <2>2. OldDamage'
        BY <1>0, <1>7, <2>1 DEF RequestFails, Fault
    <2> QED
        BY <1>7, <2>2 DEF RequestFails, Serving, Proceed, Fault, UnchangedByWorker
<1> QED
    BY <1>1, <1>2, <1>3, <1>4, <1>5, <1>6, <1>7 DEF EndsCall

LEMMA OrderlyEndsCall ==
    ASSUME OInv, NEW w \in Workers, EndsCall(w)
    PROVE  Orderly'
<1>1. PICK next \in {"serving", "signal"} :
          /\ wpc' = [wpc EXCEPT ![w] = next]
          /\ next = "serving" => wpc[w] = "serving"
          /\ next = "signal" => wreg[w] \in broken' \/ wreg[w] \notin file
    BY EndsCallEffect
<1>2. /\ wpc[w] \in {"opening", "serving"} /\ wcur' = [wcur EXCEPT ![w] = Nil]
      /\ UNCHANGED <<requests, reqClosed, table, wreg, wchan, panicked, file>>
      /\ broken \subseteq broken'
      /\ \A x \in Chunks : RegionOf[x] \notin file => data'[x] = data[x]
      /\ OldDamage'
    BY EndsCallEffect DEF routerVars
<1>3. NoNewClose
    BY <1>2, RequestsKeepCloses DEF OInv
<1>4. wcur[w] # Nil
    BY DEF EndsCall, OpenMissing, OpenFails, CreateFails, WriteChunk, ReadChunk, ReadModDate,
           RequestFails, Serving, OInv, IInv, AllManned, Manned
<1>5. Busy(w) /\ (wpc[w] = "serving" => wreg[w] \in file)
    BY <1>2, <1>4 DEF Busy, OInv, Orderly, Stored
<1>6. \A v \in Workers : v # w => UNCHANGED <<wcur[v], wchan[v]>>
    BY <1>2 DEF OInv, IInv, Types, WorkerTypes
<1> QED
    BY <1>1, <1>2, <1>3, <1>5, <1>6, OrderlyWorkerGoes

LEMMA OrderlyQuiet ==
    ASSUME OInv,
           \/ Panic /\ reqClosed
           \/ UNCHANGED vars
           \/ Client
           \/ RouteCall \/ AnswerForClosed \/ CloseUnknown \/ StopRouter
    PROVE  Orderly'
<1>1. CASE Panic /\ reqClosed
    <2>1. NoNewClose
        BY <1>1, RequestsKeepCloses DEF Panic, OInv
    <2> QED
        BY <1>1, <2>1, OrderlyElsewhere DEF Panic, routerVars, workerVars, fileVars
<1>2. CASE UNCHANGED vars
    <2>1. NoNewClose
        BY <1>2, RequestsKeepCloses DEF vars, OInv
    <2> QED
        BY <1>2, <2>1, OrderlyElsewhere DEF vars, routerVars, workerVars, fileVars, OInv, Orderly
<1>3. ASSUME NEW c \in Calls, NEW op \in Ops, NEW x \in Chunks, Call(c, op, x) PROVE Orderly'
    <2>1. CallMsg(c) \in Messages /\ CallMsg(c).op # "close"
        BY DEF Messages, CallMsg
    <2>2. NoNewClose
        BY <1>3, <2>1, RequestsKeepCloses DEF Call, OInv
    <2> QED
        BY <1>3, <2>2, OrderlyElsewhere DEF Call, routerVars, workerVars, fileVars, OInv, Orderly
<1>4. CASE Tick
    <2>1. TickMsg \in Messages /\ TickMsg.op # "close"
        BY DEF Messages, TickMsg
    <2>2. NoNewClose
        BY <1>4, <2>1, RequestsKeepCloses DEF Tick, OInv
    <2> QED
        BY <1>4, <2>2, OrderlyElsewhere DEF Tick, routerVars, workerVars, fileVars, OInv, Orderly
<1>5. CASE Close
    <2>1. NoNewClose
        BY <1>5, RequestsKeepCloses DEF Close, OInv
    <2> QED
        BY <1>5, <2>1, OrderlyElsewhere DEF Close, routerVars, workerVars, fileVars
<1>6. CASE Client
    BY <1>1, <1>3, <1>4, <1>5, <1>6 DEF Client, CallAfterClose, TickAfterClose
<1>7. CASE RouteCall
    <2>1. NoNewClose
        BY <1>7, RequestsKeepCloses DEF RouteCall, Receiving, OInv
    <2> QED
        BY <1>7, <2>1, OrderlyElsewhere DEF RouteCall, workerVars, fileVars, OInv, Orderly
<1>8. CASE AnswerForClosed
    <2>1. NoNewClose
        BY <1>8, RequestsKeepCloses DEF AnswerForClosed, OInv
    <2> QED
        BY <1>8, <2>1, OrderlyElsewhere DEF AnswerForClosed, workerVars, fileVars, OInv, Orderly
<1>9. CASE CloseUnknown
    <2>1. NoNewClose
        BY <1>9, RequestsKeepCloses DEF CloseUnknown, Receiving, OInv
    <2> QED
        BY <1>9, <2>1, OrderlyElsewhere DEF CloseUnknown, routerVars, workerVars, fileVars, OInv, Orderly
<1>10. CASE StopRouter
    <2>1. NoNewClose
        BY <1>10, RequestsKeepCloses DEF StopRouter, OInv
    <2> QED
        BY <1>10, <2>1, OrderlyElsewhere DEF StopRouter, fileVars, OInv, Orderly
<1> QED
    BY <1>1, <1>2, <1>6, <1>7, <1>8, <1>9, <1>10

\* The router does not close a channel twice.
LEMMA NeverClosedTwice ==
    ASSUME OInv, CloseRegionTwice
    PROVE  FALSE
<1>1. requests # <<>> /\ requests \in Seq(Messages) /\ Head(requests).op = "close" /\ router = "run"
    BY DEF CloseRegionTwice, OInv, IInv, Types, RouterTypes
<1>2. Head(requests) \in Messages
    BY <1>1, TailOccurs
<1>3. PICK g \in Regions : Head(requests) = CloseMsg(g)
    BY <1>1, <1>2 DEF Messages, CallMsg, CloseMsg, TickMsg
<1>4. AskedToClose(g) /\ Head(requests).region = g
    BY <1>1, <1>3, TailOccurs DEF AskedToClose, CloseMsg
<1>5. table[g].exists
    BY <1>4 DEF OInv, Orderly, Closing
<1> QED
    BY <1>1, <1>4, <1>5 DEF CloseRegionTwice, OInv, IInv, AllEntries, Entry

LEMMA NextOrderly ==
    ASSUME ~SlowWorkers, OInv, [Next]_vars
    PROVE  OInv'
<1>1. IInv'
    BY NextIInv DEF OInv
<1> SUFFICES Orderly'
    BY <1>1 DEF OInv
<1>2. CASE UNCHANGED vars \/ Client
    BY <1>2, OrderlyQuiet
<1>3. CASE Router
    BY <1>1, <1>3, OrderlyQuiet, OrderlyStartWorker, OrderlyPassToWorker, OrderlyCloseRegion,
       NeverClosedTwice, OrderlyCloseInactive
    DEF Router
<1>4. ASSUME NEW w \in Workers, Worker(w) PROVE Orderly'
    BY <1>4, OrderlyOpen, OrderlyEndsCall, OrderlyReceive, OrderlySendClose, OrderlyQuiet,
       OrderlyDrain, OrderlyFinish
    DEF Worker, EndsCall, SendCloseAfterClose
<1> QED
    BY <1>2, <1>3, <1>4 DEF Next

-----------------------------------------------------------------------------
(* What follows for the files and the channels *)

\* As long as no worker leaves a request lying until its region counts as idle
\* (region.go:131-148), a region is asked to close once, and only the worker
\* that its entry names touches its file.
THEOREM OrderlyInvariance == ASSUME ~SlowWorkers PROVE Spec => []OInv
BY InitOrderly, NextOrderly, PTL DEF Spec

LEMMA OrderlySays == OInv => OneFileUser /\ PanicsOnlyAfterClose
<1> SUFFICES ASSUME OInv PROVE OneFileUser /\ PanicsOnlyAfterClose
    OBVIOUS
<1>1. OneFileUser
    <2> SUFFICES ASSUME NEW w \in Workers, NEW v \in Workers, wreg[w] = wreg[v],
                        wpc[w] \in {"opening", "serving"}, wcur[w] # Nil \/ wchan[w] # <<>>,
                        wpc[v] \in {"opening", "serving"}, wcur[v] # Nil \/ wchan[v] # <<>>
                 PROVE  w = v
        BY DEF OneFileUser
    <2>1. Owns(w) /\ Owns(v)
        BY DEF OInv, Orderly, BusyOwns, Busy
    <2> QED
        BY <2>1 DEF Owns
<1>2. PanicsOnlyAfterClose
    BY DEF PanicsOnlyAfterClose, OInv, Orderly, IInv, AllEntries, Entry
<1> QED
    BY <1>1, <1>2

\* Two workers never have calls to carry out on one region file, whose header each
\* of them caches, as long as none leaves a request lying for over a minute: the
\* router forgets a region (region.go:131-148) only when its worker has nothing left
\* or will not touch the file again.
THEOREM RegionFilesHaveOneUser == ASSUME ~SlowWorkers PROVE Spec => []OneFileUser
BY OrderlyInvariance, OrderlySays, PTL

\* Under the same condition no region channel is closed twice (region.go:149-158) or
\* sent on after it was closed (region.go:105): the process can panic only on
\* s.requests, and only once Close has closed that.
THEOREM ChannelsAreClosedOnce == ASSUME ~SlowWorkers PROVE Spec => []PanicsOnlyAfterClose
BY OrderlyInvariance, OrderlySays, PTL

\* The call the router answers itself is for a region that failed or has no file.
LEMMA ClosedRegionsFailed ==
    ASSUME OInv, AnswerForClosed
    PROVE  LET g == RegionOf[call[routing].chunk] IN g \in broken \/ g \notin file
<1>1. Target \in Regions /\ Target = RegionOf[call[routing].chunk]
    BY TargetIs DEF AnswerForClosed, OInv
<1> QED
    BY <1>1 DEF AnswerForClosed, OInv, Orderly, Failed

\* Only these steps make a call done.
LEMMA WhoAnswers ==
    ASSUME OInv, [Next]_vars, NEW c \in Calls, status[c] = "sent", status'[c] = "done"
    PROVE  \/ AnswerForClosed /\ c = routing
           \/ \E w \in Workers : \/ EndsCall(w) /\ c = wcur[w]
                                 \/ Drain(w) /\ c = Head(wchan[w])
<1>1. status \in [Calls -> {"new", "sent", "done", "forgotten"}]
    BY DEF OInv, IInv, Types, ClientTypes
<1>2. status' # status
    OBVIOUS
<1>3. ASSUME NEW d, \E r \in {"done", "forgotten"} : status' = [status EXCEPT ![d] = r]
      PROVE  c = d
    BY <1>1, <1>3
<1>4. ~Client /\ ~UNCHANGED vars
    BY <1>1, <1>2 DEF Client, CallAfterClose, Call, Tick, TickAfterClose, Close, Panic, vars, clientVars
<1>5. CASE Router
    <2>1. AnswerForClosed
        BY <1>2, <1>5 DEF Router, RouteCall, StartWorker, PassToWorker, CloseUnknown, CloseRegion,
                          CloseRegionTwice, CloseInactive, StopRouter, Panic, clientVars
    <2>2. \E r \in {"done", "forgotten"} : status' = [status EXCEPT ![routing] = r]
        BY <2>1 DEF AnswerForClosed, Answered
    <2> QED
        BY <1>3, <2>1, <2>2
<1>6. ASSUME NEW w \in Workers, Worker(w)
      PROVE  \/ EndsCall(w) /\ c = wcur[w]
             \/ Drain(w) /\ c = Head(wchan[w])
    <2>1. EndsCall(w) \/ Drain(w)
        BY <1>2, <1>6 DEF Worker, EndsCall, Open, Receive, SendClose, SendCloseAfterClose, Finish,
                          Panic, clientVars
    <2>2. CASE EndsCall(w)
        <3>1. LetsGo(w)
            BY <2>2, EndsCallIs DEF OInv
        <3>2. \E r \in {"done", "forgotten"} : status' = [status EXCEPT ![wcur[w]] = r]
            BY <3>1 DEF LetsGo, Ends
        <3> QED
            BY <1>3, <2>2, <3>2
    <2>3. CASE Drain(w)
        <3>1. \E r \in {"done", "forgotten"} : status' = [status EXCEPT ![Head(wchan[w])] = r]
            BY <2>3 DEF Drain, Answered
        <3> QED
            BY <1>3, <2>3, <3>1
    <2> QED
        BY <2>1, <2>2, <2>3
<1> QED
    BY <1>4, <1>5, <1>6 DEF Next

\* An answer a client gets is the one it was given.
LEMMA AnswerIs ==
    ASSUME IInv, NEW c \in Calls, NEW v, Answered(c, v), status'[c] = "done"
    PROVE  result'[c] = v
BY DEF Answered, IInv, Types, ClientTypes

\* Why a get may be told there is no chunk.
NilFound(c) ==
    LET x == call[c].chunk
    IN  \/ data[x] = Nil
        \/ RegionOf[x] \in broken'
        \/ data[x] = Old /\ x \in damaged

LEMMA NilIsJustified ==
    ASSUME OInv, [Next]_vars, NEW c \in Calls, status[c] = "sent", status'[c] = "done",
           call[c].op = "get", result'[c] = "nil"
    PROVE  NilFound(c)
<1> USE DEF NilFound
<1>1. \A x \in Chunks : RegionOf[x] \notin file => data[x] = Nil
    BY DEF OInv, Orderly, Stored, OldDamage
<1>2. CASE AnswerForClosed /\ c = routing
    <2>1. call[c].chunk \in Chunks /\ broken' = broken
        BY <1>2, TargetIs DEF AnswerForClosed, OInv
    <2> QED
        BY <1>1, <1>2, <2>1, ClosedRegionsFailed
<1>3. ASSUME NEW w \in Workers, EndsCall(w), c = wcur[w]
      PROVE  NilFound(c)
    <2>1. wcur[w] # Nil /\ wreg[w] \in Regions
        BY <1>3, EndsCallIs, Distinct DEF LetsGo, OInv
    <2>2. call[c].chunk \in Chunks /\ RegionOf[call[c].chunk] = wreg[w]
        BY <1>3, <2>1, InHandIs DEF OInv
    <2>3. CASE OpenMissing(w)
        BY <1>1, <2>2, <2>3 DEF OpenMissing
    <2>4. CASE OpenFails(w)
        BY <2>2, <2>4 DEF OpenFails, Fault
    <2>5. CASE CreateFails(w)
        BY <1>3, <2>5 DEF CreateFails
    <2>6. CASE WriteChunk(w)
        BY <1>3, <2>6 DEF WriteChunk, Serving
    <2>7. CASE ReadChunk(w)
        <3>1. \/ data[call[c].chunk] = Nil \/ call[c].chunk \in damaged
              \/ result'[c] = data[call[c].chunk]
            BY <1>3, <2>7, AnswerIs DEF ReadChunk, OInv
        <3>2. data[call[c].chunk] \in Calls \cup {Old, Nil}
            BY <2>2 DEF OInv, IInv, Types, FileTypes
        <3>3. broken' = broken
            BY <2>7 DEF ReadChunk, NoFault
        <3> QED
            BY <3>1, <3>2, <3>3, Distinct DEF OInv, Orderly, Stored, OldDamage
    <2>8. CASE ReadModDate(w)
        BY <1>3, <2>8 DEF ReadModDate, Serving
    <2>9. CASE RequestFails(w)
        BY <2>2, <2>9 DEF RequestFails, Fault
    <2> QED
        BY <1>3, <2>3, <2>4, <2>5, <2>6, <2>7, <2>8, <2>9 DEF EndsCall
<1>4. ASSUME NEW w \in Workers, Drain(w), c = Head(wchan[w]) PROVE FALSE
    <2>1. result'[c] = "error"
        BY <1>4, AnswerIs DEF Drain, OInv
    <2> QED
        BY <2>1
<1> QED
    BY <1>2, <1>3, <1>4, WhoAnswers

LEMMA UnwrittenIsJustified ==
    ASSUME OInv, [Next]_vars, NEW c \in Calls, status[c] = "sent", status'[c] = "done",
           call[c].op = "set", result'[c] = "nil", c \notin written'
    PROVE  RegionOf[call[c].chunk] \notin file \/ RegionOf[call[c].chunk] \in broken'
<1>1. CASE AnswerForClosed /\ c = routing
    <2>1. broken' = broken
        BY <1>1 DEF AnswerForClosed
    <2> QED
        BY <1>1, <2>1, ClosedRegionsFailed
<1>2. ASSUME NEW w \in Workers, EndsCall(w), c = wcur[w]
      PROVE  RegionOf[call[c].chunk] \notin file \/ RegionOf[call[c].chunk] \in broken'
    <2>1. wcur[w] # Nil
        BY <1>2, Distinct
    <2>2. RegionOf[call[c].chunk] = wreg[w]
        BY <1>2, <2>1, InHandIs DEF OInv
    <2>3. CASE OpenMissing(w)
        BY <2>2, <2>3 DEF OpenMissing
    <2>4. CASE OpenFails(w)
        BY <2>2, <2>4 DEF OpenFails, Fault
    <2>5. CASE CreateFails(w)
        BY <2>2, <2>5 DEF CreateFails
    <2>6. CASE WriteChunk(w)
        BY <1>2, <2>6 DEF WriteChunk
    <2>7. CASE ReadChunk(w) \/ ReadModDate(w)
        BY <1>2, <2>7 DEF ReadChunk, ReadModDate, Serving
    <2>8. CASE RequestFails(w)
        BY <2>2, <2>8 DEF RequestFails, Fault
    <2> QED
        BY <1>2, <2>3, <2>4, <2>5, <2>6, <2>7, <2>8 DEF EndsCall
<1>3. ASSUME NEW w \in Workers, Drain(w), c = Head(wchan[w]) PROVE FALSE
    <2>1. result'[c] = "error"
        BY <1>3, AnswerIs DEF Drain, OInv
    <2> QED
        BY <2>1
<1> QED
    BY <1>1, <1>2, <1>3, WhoAnswers

\* Under the same condition what a set stored is found: a get is told there is no
\* chunk (region.go:107, 273, 278 and 299-304) only when none is stored, when an
\* operation on the region's file failed, now or before, or when the sector was
\* unreadable as the program started and was not written since.
THEOREM StoredChunksAreFound == ASSUME ~SlowWorkers PROVE Spec => NilMeansNotStored
<1>1. OInv /\ [Next]_vars =>
        [\A c \in Calls :
          /\ status[c] = "sent" /\ status'[c] = "done"
          /\ call[c].op = "get" /\ result'[c] = "nil"
          => LET x == call[c].chunk
             IN  \/ data[x] = Nil
                 \/ RegionOf[x] \in broken'
                 \/ data[x] = Old /\ x \in damaged]_vars
    BY NilIsJustified DEF NilFound
<1> QED
    BY <1>1, OrderlyInvariance, PTL DEF Spec, NilMeansNotStored

\* And a set is acknowledged without having been written (region.go:107, 278) only
\* for a region whose file did not exist or on which a file operation failed.
THEOREM AcknowledgedIsWritten ==
    ASSUME ~SlowWorkers PROVE Spec => UnwrittenAckMeansMissingOrBroken
<1>1. OInv /\ [Next]_vars =>
        [\A c \in Calls :
          /\ status[c] = "sent" /\ status'[c] = "done"
          /\ call[c].op = "set" /\ result'[c] = "nil" /\ c \notin written'
          => \/ RegionOf[call[c].chunk] \notin file
             \/ RegionOf[call[c].chunk] \in broken']_vars
    BY UnwrittenIsJustified
<1> QED
    BY <1>1, OrderlyInvariance, PTL DEF Spec, UnwrittenAckMeansMissingOrBroken
=============================================================================
