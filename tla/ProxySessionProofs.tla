------------------------- MODULE ProxySessionProofs -------------------------
(***************************************************************************)
(* Theorems about ProxySession, for all dimensions, every capacity of the  *)
(* queues and every sequence of packets a server may send.                 *)
(***************************************************************************)
EXTENDS ProxySession, SequenceTheorems, TLAPS

-----------------------------------------------------------------------------
(* Where the player is along a sequence of packets *)

\* Every chunk of s belongs where a player who started in d is by then.
Along(s, d) ==
    \A i \in DOMAIN s : s[i].kind = "chunk" => Reaches(s, i - 1, d, s[i].dim)

\* Where the player is after the first packet.
After(p, d) == IF Moves(p) THEN p.dim ELSE d

LEMMA TailFacts ==
    ASSUME NEW S, NEW s \in Seq(S), s # <<>>
    PROVE  /\ Tail(s) \in Seq(S) /\ Head(s) = s[1] /\ Head(s) \in S
           /\ Len(s) \in Nat \ {0} /\ Len(Tail(s)) = Len(s) - 1
           /\ DOMAIN s = 1..Len(s) /\ DOMAIN Tail(s) = 1..(Len(s) - 1)
           /\ \A i \in 1..(Len(s) - 1) : Tail(s)[i] = s[i + 1]
BY HeadTailProperties

LEMMA AppendFacts ==
    ASSUME NEW S, NEW s \in Seq(S), NEW x \in S
    PROVE  /\ Append(s, x) \in Seq(S) /\ Append(s, x) # <<>>
           /\ Len(s) \in Nat /\ Len(Append(s, x)) = Len(s) + 1
           /\ DOMAIN s = 1..Len(s) /\ DOMAIN Append(s, x) = 1..(Len(s) + 1)
           /\ \A i \in 1..Len(s) : Append(s, x)[i] = s[i]
           /\ Append(s, x)[Len(s) + 1] = x
OBVIOUS

\* Handling the first packet moves the player, and the rest of the way is the same.
LEMMA ReachesTail ==
    ASSUME NEW S, NEW s \in Seq(S), s # <<>>, NEW n \in 1..Len(s), NEW d, NEW e,
           Reaches(s, n, d, e)
    PROVE  Reaches(Tail(s), n - 1, After(s[1], d), e)
<1>1. /\ Len(s) \in Nat /\ \A i \in 1..(Len(s) - 1) : Tail(s)[i] = s[i + 1]
    BY TailFacts
<1>2. CASE d = e /\ \A m \in 1..n : ~Moves(s[m])
    <2>1. After(s[1], d) = e
        BY <1>1, <1>2 DEF After
    <2>2. \A m \in 1..(n - 1) : ~Moves(Tail(s)[m])
        BY <1>1, <1>2
    <2> QED
        BY <2>1, <2>2 DEF Reaches
<1>3. CASE \E j \in 1..n : Moves(s[j]) /\ s[j].dim = e /\ \A m \in (j + 1)..n : ~Moves(s[m])
    <2>1. PICK j \in 1..n : Moves(s[j]) /\ s[j].dim = e /\ \A m \in (j + 1)..n : ~Moves(s[m])
        BY <1>3
    <2>2. \A m \in j..(n - 1) : ~Moves(Tail(s)[m])
        BY <1>1, <2>1
    <2>3. CASE j = 1
        <3>1. After(s[1], d) = e
            BY <2>1, <2>3 DEF After
        <3> QED
            BY <2>2, <2>3, <3>1 DEF Reaches
    <2>4. CASE j # 1
        <3>1. j - 1 \in 1..(n - 1) /\ Tail(s)[j - 1] = s[j] /\ (j - 1) + 1 = j
            BY <1>1, <2>4
        <3> QED
            BY <2>1, <2>2, <3>1 DEF Reaches
    <2> QED
        BY <2>3, <2>4
<1> QED
    BY <1>2, <1>3 DEF Reaches

LEMMA AlongTail ==
    ASSUME NEW S, NEW s \in Seq(S), s # <<>>, NEW d, Along(s, d)
    PROVE  /\ Along(Tail(s), After(s[1], d))
           /\ s[1].kind = "chunk" => s[1].dim = d
<1>1. /\ Len(s) \in Nat \ {0} /\ DOMAIN s = 1..Len(s) /\ DOMAIN Tail(s) = 1..(Len(s) - 1)
      /\ \A i \in 1..(Len(s) - 1) : Tail(s)[i] = s[i + 1]
    BY TailFacts
<1>2. ASSUME NEW i \in DOMAIN Tail(s), Tail(s)[i].kind = "chunk"
      PROVE  Reaches(Tail(s), i - 1, After(s[1], d), Tail(s)[i].dim)
    <2>1. i + 1 \in DOMAIN s /\ Tail(s)[i] = s[i + 1] /\ i \in 1..Len(s) /\ (i + 1) - 1 = i
        BY <1>1
    <2>2. Reaches(s, i, d, Tail(s)[i].dim)
        BY <1>2, <2>1 DEF Along
    <2> QED
        BY <2>1, <2>2, ReachesTail
<1>3. ASSUME s[1].kind = "chunk" PROVE s[1].dim = d
    <2>1. Reaches(s, 0, d, s[1].dim)
        BY <1>1, <1>3 DEF Along
    <2> QED
        BY <2>1 DEF Reaches
<1> QED
    BY <1>2, <1>3 DEF Along

\* What is appended does not change the way to what was there.
LEMMA ReachesAppend ==
    ASSUME NEW S, NEW s \in Seq(S), NEW p \in S, NEW n \in 0..Len(s), NEW d, NEW e,
           Reaches(s, n, d, e)
    PROVE  Reaches(Append(s, p), n, d, e)
<1>1. \A m \in 1..n : Append(s, p)[m] = s[m]
    BY AppendFacts
<1>2. \A j \in 1..n : \A m \in (j + 1)..n : m \in 1..n
    BY AppendFacts
<1> QED
    BY <1>1, <1>2 DEF Reaches

LEMMA AlongAppend ==
    ASSUME NEW S, NEW s \in Seq(S), NEW p \in S, NEW d, NEW e,
           Along(s, d), Reaches(s, Len(s), d, e), p.kind = "chunk" => p.dim = e
    PROVE  /\ Along(Append(s, p), d)
           /\ Reaches(Append(s, p), Len(s) + 1, d, After(p, e))
<1> DEFINE n == Len(s)
           t == Append(s, p)
<1>1. /\ n \in Nat /\ DOMAIN s = 1..n /\ DOMAIN t = 1..(n + 1)
      /\ \A i \in 1..n : t[i] = s[i]
      /\ t[n + 1] = p
    BY AppendFacts
<1>2. Reaches(t, n, d, e)
    BY <1>1, ReachesAppend
<1>3. ASSUME NEW i \in DOMAIN t, t[i].kind = "chunk" PROVE Reaches(t, i - 1, d, t[i].dim)
    <2>1. CASE i = n + 1
        BY <1>1, <1>2, <1>3, <2>1
    <2>2. CASE i # n + 1
        <3>1. i \in 1..n /\ t[i] = s[i] /\ i - 1 \in 0..n
            BY <1>1, <2>2
        <3>2. Reaches(s, i - 1, d, t[i].dim)
            BY <1>1, <1>3, <3>1 DEF Along
        <3> QED
            BY <3>1, <3>2, ReachesAppend
    <2> QED
        BY <2>1, <2>2
<1> HIDE DEF n, t
<1>4. Reaches(t, n + 1, d, After(p, e))
    <2>1. CASE Moves(p)
        <3>1. n + 1 \in 1..(n + 1) /\ \A m \in (n + 1 + 1)..(n + 1) : ~Moves(t[m])
            BY <1>1
        <3> QED
            BY <1>1, <2>1, <3>1 DEF Reaches, After
    <2>2. CASE ~Moves(p)
        <3>1. \A m \in 1..(n + 1) : m \in 1..n \/ m = n + 1
            BY <1>1
        <3>2. \A j \in 1..n : j \in 1..(n + 1) /\
                 \A m \in (j + 1)..(n + 1) : m \in (j + 1)..n \/ m = n + 1
            BY <1>1
        <3> QED
            BY <1>1, <1>2, <2>2, <3>1, <3>2 DEF Reaches, After
    <2> QED
        BY <2>1, <2>2
<1> QED
    BY <1>3, <1>4 DEF Along, n, t

-----------------------------------------------------------------------------
(* The inductive invariant *)

\* A chunk lies in a dimension.
Sane == {p \in Packets : p.kind = "chunk" => p.dim \in Dims}

\* The packets between the server's connection and the acceptor.
Passed == IF down = "pass" THEN Append(packets, held) ELSE packets

PacketTypes ==
    /\ packets \in Seq(Sane) /\ Len(packets) <= AcceptorCap
    /\ script \in Seq(Sane) /\ held \in Sane
    /\ Len(packets) <= Len(collected)

\* The chunk the acceptor is about to save.
ChunkHeld ==
    acceptor = "save" =>
        chunk.dim \in Dims /\ cur \in Dims /\ (garbled \/ chunk.dim = cur)

\* The acceptor's dimension, the packets on their way to it and what the server
\* is going to send agree on where the player is.
Tracked ==
    \/ garbled
    \/ /\ \A i \in DOMAIN Passed : Moves(Passed[i]) => Passed[i].scan # "bad"
       /\ Along(Passed, cur)
       /\ \E d \in Dims \cup {None} :
             Reaches(Passed, Len(Passed), cur, d) /\ Along(script, d)

\* The goroutines start with the session.
Early == {"none", "login"}
Started == phase \in Early => down = "off"

IInv == SavedUnderItsDimension /\ PacketTypes /\ ChunkHeld /\ Tracked /\ Started

\* The parts of IInv that most steps leave alone.
LEMMA Frames ==
    ASSUME IInv
    PROVE  /\ UNCHANGED <<packets, script, held, collected>> => PacketTypes'
           /\ UNCHANGED <<acceptor, chunk, cur, garbled>> => ChunkHeld'
           /\ UNCHANGED <<packets, held, down, cur, script, garbled>> => Tracked'
           /\ UNCHANGED <<saved, garbled>> /\ TypeOK' => SavedUnderItsDimension'
<1>1. UNCHANGED <<packets, script, held, collected>> => PacketTypes'
    BY DEF IInv, PacketTypes
<1>2. UNCHANGED <<acceptor, chunk, cur, garbled>> => ChunkHeld'
    BY DEF IInv, ChunkHeld
<1>3. UNCHANGED <<packets, held, down, cur, script, garbled>> => Tracked'
    BY DEF IInv, Tracked, Passed
<1>4. UNCHANGED <<saved, garbled>> /\ TypeOK' => SavedUnderItsDimension'
    BY DEF IInv, SavedUnderItsDimension
<1> QED
    BY <1>1, <1>2, <1>3, <1>4

LEMMA InitIInv == Init => IInv
<1> SUFFICES ASSUME Init PROVE IInv
    OBVIOUS
<1>1. PacketTypes
    <2>1. NoPacket \in Sane
        BY DEF NoPacket, Sane, Packets
    <2>2. script \in Seq(Packets) /\ \A i \in DOMAIN script : script[i] \in Sane
        BY ConstantsOK, ChunksWherePlayerIs DEF Init, Sane
    <2>3. script \in Seq(Sane)
        BY <2>2
    <2> QED
        BY <2>1, <2>3, ConstantsOK DEF Init, PacketTypes
<1>2. TypeOK
    <2>1. NoPacket \in Packets
        BY DEF NoPacket, Packets
    <2>2. script \in Seq(Packets) /\ packets \in Seq(Packets) /\ Len(packets) <= AcceptorCap
        BY ConstantsOK DEF Init
    <2>3. queue \in 0..QueueCap /\ reports \in 0..ReportCap
        BY ConstantsOK DEF Init
    <2> QED
        BY <2>1, <2>2, <2>3 DEF Init, TypeOK
<1>3. Along(Passed, cur) /\ Reaches(Passed, Len(Passed), cur, None) /\ Along(script, None)
    <2>1. Passed = <<>> /\ cur = None /\ DOMAIN Passed = {} /\ Len(Passed) = 0
        BY DEF Init, Passed
    <2> QED
        BY <2>1, ChunksWherePlayerIs DEF Init, Along, Reaches
<1>4. Tracked
    <2>1. DOMAIN Passed = {}
        BY DEF Init, Passed
    <2> QED
        BY <1>3, <2>1 DEF Tracked
<1>5. ChunkHeld /\ SavedUnderItsDimension
    BY <1>2 DEF Init, ChunkHeld, SavedUnderItsDimension
<1>6. Started
    BY DEF Init, Started
<1> QED
    BY <1>1, <1>4, <1>5, <1>6 DEF IInv

-----------------------------------------------------------------------------
(* The steps on the way of a packet *)

\* The reader takes a packet: what it moves through is still the way.
LEMMA ReadStep ==
    ASSUME IInv, DownRead
    PROVE  IInv'
<1>1. /\ script \in Seq(Sane) /\ script # <<>> /\ script' = Tail(script)
      /\ held' = Head(script) /\ packets \in Seq(Sane) /\ down = "read"
      /\ garbled' = (garbled \/ (Moves(held') /\ held'.scan = "bad"))
      /\ down' = IF held'.kind = "other" THEN "push" ELSE "pass"
      /\ UNCHANGED <<packets, acceptor, chunk, cur, collected, saved, loaded>>
    BY DEF IInv, PacketTypes, DownRead, Down, inner
<1>2. /\ held' = script[1] /\ held' \in Sane /\ script' \in Seq(Sane)
    BY <1>1, TailFacts
<1>3. PacketTypes'
    BY <1>1, <1>2 DEF IInv, PacketTypes
<1>4. TypeOK'
    <2>1. held' \in Packets /\ script' \in Seq(Packets)
        BY <1>2 DEF Sane
    <2>2. garbled' \in BOOLEAN
        BY <1>1
    <2> QED
        BY <1>1, <2>1, <2>2 DEF IInv, SavedUnderItsDimension, TypeOK, DownRead, Down, conns,
           inner
<1>5. ChunkHeld' /\ SavedUnderItsDimension'
    BY <1>1, <1>4 DEF IInv, ChunkHeld, SavedUnderItsDimension
<1>6. Tracked'
    <2>1. CASE garbled'
        BY <2>1 DEF Tracked
    <2>2. CASE ~garbled'
        <3>1. /\ ~garbled /\ Passed = packets
              /\ \A i \in DOMAIN packets : Moves(packets[i]) => packets[i].scan # "bad"
              /\ Along(packets, cur)
            BY <1>1, <2>2 DEF IInv, Tracked, Passed
        <3>2. PICK d \in Dims \cup {None} :
                 Reaches(packets, Len(packets), cur, d) /\ Along(script, d)
            BY <3>1 DEF IInv, Tracked
        <3>3. /\ Along(script', After(held', d)) /\ (held'.kind = "chunk" => held'.dim = d)
              /\ After(held', d) \in Dims \cup {None}
            <4>1. held'.dim \in Dims \cup {None}
                BY <1>2 DEF Sane, Packets
            <4> QED
                BY <1>1, <1>2, <3>2, <4>1, AlongTail DEF After
        <3>4. CASE held'.kind = "other"
            <4>1. Passed' = packets /\ After(held', d) = d
                BY <1>1, <3>4 DEF Passed, After, Moves
            <4> QED
                BY <1>1, <3>1, <3>2, <3>3, <4>1 DEF Tracked
        <3>5. CASE held'.kind # "other"
            <4>1. Passed' = Append(packets, held')
                BY <1>1, <3>5 DEF Passed
            <4>2. /\ Along(Passed', cur)
                  /\ Reaches(Passed', Len(packets) + 1, cur, After(held', d))
                BY <1>1, <1>2, <3>1, <3>2, <3>3, <4>1, AlongAppend
            <4>3. /\ Len(Passed') = Len(packets) + 1
                  /\ \A i \in DOMAIN Passed' : Moves(Passed'[i]) => Passed'[i].scan # "bad"
                <5>1. ~(Moves(held') /\ held'.scan = "bad")
                    BY <1>1, <2>2
                <5>2. \A i \in DOMAIN Passed' : Passed'[i] = held' \/
                         (i \in DOMAIN packets /\ Passed'[i] = packets[i])
                    <6>1. /\ DOMAIN Passed' = 1..(Len(packets) + 1) /\ Len(packets) \in Nat
                          /\ Passed'[Len(packets) + 1] = held' /\ DOMAIN packets = 1..Len(packets)
                          /\ \A i \in 1..Len(packets) : Passed'[i] = packets[i]
                        BY <1>1, <1>2, <4>1, AppendFacts
                    <6> QED
                        BY <6>1
                <5>3. Len(Passed') = Len(packets) + 1
                    BY <1>1, <1>2, <4>1, AppendFacts
                <5> QED
                    BY <3>1, <5>1, <5>2, <5>3
            <4> QED
                BY <1>1, <3>3, <4>2, <4>3 DEF Tracked
        <3> QED
            BY <3>4, <3>5
    <2> QED
        BY <2>1, <2>2
<1>7. Started'
    BY DEF DownRead, Down, Running, Started, Early
<1> QED
    BY <1>3, <1>5, <1>6, <1>7 DEF IInv

\* The send on acceptorChannel.
LEMMA PassStep ==
    ASSUME IInv, DownPass
    PROVE  IInv'
<1>1. /\ down = "pass" /\ down' = "push" /\ Len(packets) < AcceptorCap
      /\ packets' = Append(packets, held) /\ packets \in Seq(Sane) /\ held \in Sane
      /\ collected' = Append(collected, held) /\ collected \in Seq(Packets)
      /\ Len(packets) <= Len(collected)
      /\ UNCHANGED <<held, script, garbled, acceptor, chunk, cur, saved>>
    BY DEF IInv, SavedUnderItsDimension, TypeOK, PacketTypes, DownPass, Down, inner
<1>2. Passed' = Passed
    BY <1>1 DEF Passed
<1>3. Tracked'
    BY <1>1, <1>2 DEF IInv, Tracked
<1>4. /\ packets' \in Seq(Sane) /\ Len(packets') <= AcceptorCap
      /\ collected' \in Seq(Packets) /\ Len(packets') <= Len(collected')
    <2>1. held \in Packets
        BY <1>1 DEF Sane
    <2>2. collected' \in Seq(Packets) /\ Len(collected) \in Nat
          /\ Len(collected') = Len(collected) + 1
        BY <1>1, <2>1, AppendFacts
    <2> QED
        BY <1>1, <2>2, ConstantsOK, AppendFacts
<1>5. TypeOK'
    <2>1. packets' \in Seq(Packets)
        BY <1>4 DEF Sane
    <2> QED
        BY <1>1, <1>4, <2>1 DEF IInv, SavedUnderItsDimension, TypeOK, DownPass, Down, conns, inner
<1>6. Started'
    BY DEF DownPass, Down, Running, Started, Early
<1> QED
    BY <1>1, <1>3, <1>4, <1>5, <1>6, Frames DEF IInv, PacketTypes

\* The acceptor takes a packet: it moves itself, or takes the chunk if it knows
\* the dimension.
LEMMA ReceiveStep ==
    ASSUME IInv, Receive
    PROVE  IInv'
<1> DEFINE p == Head(packets)
<1>1. /\ packets \in Seq(Sane) /\ packets # <<>> /\ packets' = Tail(packets)
      /\ acceptor = "recv" /\ held \in Sane
      /\ UNCHANGED <<held, down, script, garbled, collected, saved>>
      /\ \/ Moves(p) /\ Move(p)
         \/ p.kind = "chunk" /\ TakeChunk(p)
    BY DEF IInv, PacketTypes, Receive, Accepting
<1>2. /\ p = packets[1] /\ p \in Sane /\ packets' \in Seq(Sane)
      /\ Len(packets') <= Len(packets) /\ Len(packets) \in Nat /\ Len(packets') \in Nat
    BY <1>1, TailFacts
<1>3. PacketTypes'
    <2>1. Len(collected) \in Nat
        BY DEF IInv, SavedUnderItsDimension, TypeOK
    <2> QED
        BY <1>1, <1>2, <2>1, ConstantsOK DEF IInv, PacketTypes
<1>4. /\ cur' = IF Moves(p) /\ p.scan # "bad" THEN p.dim ELSE cur
      /\ acceptor' \in {"bar", "recv", "save"} /\ loaded' \subseteq Registry
      /\ acceptor' = "save" => chunk' = p /\ cur \in loaded /\ p.kind = "chunk"
      /\ chunk' \in {chunk, p}
    <2>1. loaded \subseteq Registry
        BY DEF IInv, SavedUnderItsDimension, TypeOK
    <2> QED
        BY <1>1, <2>1 DEF Move, TakeChunk, Moves
<1>5. p.dim \in Dims \cup {None} /\ p \in Packets /\ (p.kind = "chunk" => p.dim \in Dims)
    BY <1>2 DEF Sane, Packets
<1> HIDE DEF p
<1>6. TypeOK'
    <2>1. packets' \in Seq(Packets) /\ Len(packets') <= AcceptorCap
        BY <1>3 DEF PacketTypes, Sane
    <2>2. cur' \in Dims \cup {None} /\ chunk' \in Packets
        BY <1>4, <1>5 DEF IInv, SavedUnderItsDimension, TypeOK
    <2> QED
        BY <1>1, <1>4, <2>1, <2>2 DEF IInv, SavedUnderItsDimension, TypeOK, Receive, Accepting,
           conns
<1>7. ASSUME ~garbled
      PROVE  /\ cur' = After(p, cur) /\ (p.kind = "chunk" => p.dim = cur)
             /\ Tracked'
    <2>1. /\ \A i \in DOMAIN Passed : Moves(Passed[i]) => Passed[i].scan # "bad"
          /\ Along(Passed, cur)
        BY <1>7 DEF IInv, Tracked
    <2>2. PICK d \in Dims \cup {None} : Reaches(Passed, Len(Passed), cur, d) /\ Along(script, d)
        BY <1>7 DEF IInv, Tracked
    <2>3. /\ Passed \in Seq(Sane) /\ Passed # <<>> /\ Passed[1] = p
          /\ Passed' = Tail(Passed)
        <3>1. CASE down = "pass"
            <4>1. Passed = Append(packets, held) /\ Passed' = Append(Tail(packets), held)
                BY <1>1, <3>1 DEF Passed
            <4> QED
                BY <1>1, <1>2, <4>1
        <3>2. CASE down # "pass"
            BY <1>1, <1>2, <3>2 DEF Passed
        <3> QED
            BY <3>1, <3>2
    <2>4. /\ Len(Passed) \in Nat \ {0} /\ Len(Passed') = Len(Passed) - 1
          /\ DOMAIN Passed = 1..Len(Passed) /\ DOMAIN Passed' = 1..(Len(Passed) - 1)
          /\ \A i \in 1..(Len(Passed) - 1) : Passed'[i] = Passed[i + 1]
        BY <2>3, TailFacts
    <2>5. Moves(p) => p.scan # "bad"
        BY <2>1, <2>3, <2>4
    <2>6. cur' = After(p, cur)
        BY <1>4, <2>5 DEF After
    <2>7. Along(Passed', cur') /\ (p.kind = "chunk" => p.dim = cur)
        BY <2>1, <2>3, <2>6, AlongTail
    <2>8. Reaches(Passed', Len(Passed'), cur', d)
        <3>1. Len(Passed) \in 1..Len(Passed)
            BY <2>4
        <3> QED
            BY <2>2, <2>3, <2>4, <2>6, <3>1, ReachesTail
    <2>9. \A i \in DOMAIN Passed' : Moves(Passed'[i]) => Passed'[i].scan # "bad"
        BY <2>1, <2>4
    <2> QED
        BY <1>1, <2>2, <2>6, <2>7, <2>8, <2>9 DEF Tracked
<1>8. Tracked'
    BY <1>1, <1>7 DEF Tracked
<1>9. ChunkHeld'
    <2> SUFFICES ASSUME acceptor' = "save"
                 PROVE  chunk'.dim \in Dims /\ cur' \in Dims /\ (garbled' \/ chunk'.dim = cur')
        BY DEF ChunkHeld
    <2>1. chunk' = p /\ cur \in loaded /\ p.kind = "chunk" /\ cur' = cur
        BY <1>4 DEF Moves
    <2>2. cur \in Dims
        BY <2>1, ConstantsOK DEF IInv, SavedUnderItsDimension, TypeOK
    <2> QED
        BY <1>1, <1>5, <1>7, <2>1, <2>2
<1>10. Started'
    BY DEF Receive, Accepting, Started, Early
<1> QED
    BY <1>1, <1>3, <1>6, <1>8, <1>9, <1>10, Frames DEF IInv

\* The chunk goes to the consumer under the dimension of the acceptor.
LEMMA SaveStep ==
    ASSUME IInv, SaveChunk
    PROVE  IInv'
<1>1. /\ acceptor = "save" /\ saved' = saved \cup {<<Len(collected) - Len(packets), chunk.dim, cur>>}
      /\ acceptor' = "bar" /\ chunk' = NoPacket
      /\ UNCHANGED <<packets, held, down, cur, script, garbled, collected>>
    BY DEF SaveChunk, Accepting
<1>2. TypeOK'
    <2>1. saved' \subseteq Nat \X Dims \X Dims
        <3>1. Len(collected) - Len(packets) \in Nat
            BY DEF IInv, SavedUnderItsDimension, TypeOK, PacketTypes
        <3> QED
            BY <1>1, <3>1 DEF IInv, SavedUnderItsDimension, TypeOK, ChunkHeld
    <2>2. NoPacket \in Packets
        BY DEF NoPacket, Packets
    <2> QED
        BY <1>1, <2>1, <2>2 DEF IInv, SavedUnderItsDimension, TypeOK, SaveChunk, Accepting, conns
<1>3. SavedUnderItsDimension'
    BY <1>1, <1>2 DEF IInv, SavedUnderItsDimension, ChunkHeld
<1>4. ChunkHeld'
    BY <1>1 DEF ChunkHeld
<1>5. Started'
    BY DEF SaveChunk, Accepting, Running, Started, Early
<1> QED
    BY <1>1, <1>3, <1>4, <1>5, Frames DEF IInv

-----------------------------------------------------------------------------
(* The other steps: no packet moves on its way *)

Elsewhere ==
    /\ UNCHANGED <<packets, script, chunk, cur, collected, saved, garbled>>
    /\ held' = held \/ (down # "pass" /\ held' = NoPacket)
    /\ down' = down \/ (down # "pass" /\ down' # "pass" /\ phase' \notin Early)
    /\ phase' = phase \/ phase = "none" \/ phase' \notin Early
    /\ acceptor' = acceptor \/ acceptor' # "save"

LEMMA ElsewhereStep ==
    ASSUME IInv, Elsewhere, TypeOK'
    PROVE  IInv'
<1>1. Passed' = Passed
    BY DEF Elsewhere, Passed
<1>2. Tracked'
    BY <1>1 DEF IInv, Tracked, Elsewhere
<1>3. PacketTypes'
    <2>1. NoPacket \in Sane
        BY DEF NoPacket, Sane, Packets
    <2> QED
        BY <2>1 DEF IInv, PacketTypes, Elsewhere
<1>4. ChunkHeld'
    BY DEF IInv, ChunkHeld, Elsewhere
<1>5. SavedUnderItsDimension'
    BY DEF IInv, SavedUnderItsDimension, Elsewhere
<1>6. Started'
    BY DEF IInv, Started, Elsewhere, Early
<1> QED
    BY <1>2, <1>3, <1>4, <1>5, <1>6 DEF IInv

LEMMA Capacities == {AcceptorCap, QueueCap, ReportCap} \subseteq Nat
BY ConstantsOK

LEMMA StartSteps ==
    ASSUME TypeOK, Started, Accept \/ JoinFails \/ Join \/ Outside
    PROVE  TypeOK' /\ Elsewhere
<1>1. CASE Accept \/ JoinFails
    BY <1>1 DEF Early, TypeOK, Accept, JoinFails, Others, conns, queues, outside, Elsewhere
<1>2. CASE Join
    <2>1. Elsewhere
        BY <1>2 DEF Started, Early, Join, Others, conns, queues, outside, Elsewhere
    <2>2. /\ phase' = "run" /\ up' = "read" /\ down' = "read" /\ acceptor' = "recv"
          /\ closer' = "wait" /\ writer' = "pull"
          /\ UNCHANGED <<told, client, server, queue, queueEnd, reports, sink, script, garbled,
                         collected, saved, dead, held, packets, packetsEnd, chunk, cur, loaded>>
        BY <1>2 DEF Join, Others, conns, queues, outside
    <2> QED
        BY <2>1, <2>2 DEF TypeOK
<1>3. CASE ClientLeaves \/ ServerLeaves \/ SinkHangs
    BY <1>3 DEF TypeOK, ClientLeaves, ServerLeaves, SinkHangs, Peers, conns, down3, inner,
       queues, Elsewhere
<1>4. CASE Stop
    BY <1>4 DEF TypeOK, Stop, conns, down3, inner, queues, outside, Elsewhere
<1> QED
    BY <1>1, <1>2, <1>3, <1>4 DEF Outside

LEMMA ReaderSteps ==
    ASSUME TypeOK, Reader \/ UpWriteFails
    PROVE  TypeOK' /\ Elsewhere
<1>1. CASE UpReport
    <2>1. reports' \in 0..ReportCap
        BY <1>1, Capacities DEF TypeOK, UpReport, HasRoom
    <2> QED
        BY <1>1, <2>1 DEF TypeOK, UpReport, Up, conns, down3, inner, outside, Elsewhere
<1>2. CASE UpBreaks \/ UpWriteFails \/ UpDeadline
    BY <1>2 DEF TypeOK, UpBreaks, UpWriteFails, UpDeadline, Up, conns, down3, inner, outside,
       Elsewhere
<1> QED
    BY <1>1, <1>2 DEF Reader

\* A full queue drops what is pushed, so it never exceeds its capacity.
LEMMA PushTypes ==
    ASSUME TypeOK, Push
    PROVE  queue' \in 0..QueueCap /\ dead' \in BOOLEAN
BY Capacities DEF TypeOK, Push

LEMMA ServerReaderSteps ==
    ASSUME TypeOK, Started, DownPush \/ DownBreaks \/ DownReport \/ DownClose
    PROVE  TypeOK' /\ Elsewhere
<1>1. NoPacket \in Packets
    BY DEF NoPacket, Packets
<1>2. CASE DownPush
    <2>1. queue' \in 0..QueueCap /\ dead' \in BOOLEAN
        BY <1>2, PushTypes DEF DownPush
    <2> QED
        BY <1>1, <1>2, <2>1 DEF TypeOK, Started, Early, Running, DownPush, Down,
       conns, inner, Elsewhere
<1>3. CASE DownReport
    <2>1. reports' \in 0..ReportCap
        BY <1>3, Capacities DEF TypeOK, DownReport, HasRoom
    <2> QED
        BY <1>3, <2>1 DEF TypeOK, Started, Early, Running, DownReport, Down,
       conns, inner, Elsewhere
<1>4. CASE DownBreaks
    BY <1>4 DEF TypeOK, Started, Early, Running, DownBreaks, Down,
       conns, inner, Elsewhere
<1>5. CASE DownClose
    BY <1>5 DEF TypeOK, Started, Early, Running, DownClose, Down,
       conns, inner, Elsewhere
<1> QED
    BY <1>2, <1>3, <1>4, <1>5

LEMMA AcceptorSteps ==
    ASSUME TypeOK, ActionBar \/ AcceptorEnds
    PROVE  TypeOK' /\ Elsewhere
<1>1. CASE ActionBar
    <2>1. queue' \in 0..QueueCap /\ dead' \in BOOLEAN
        BY <1>1, PushTypes DEF ActionBar
    <2> QED
        BY <1>1, <2>1 DEF TypeOK, ActionBar, Accepting, conns, Elsewhere
<1>2. CASE AcceptorEnds
    BY <1>2 DEF TypeOK, AcceptorEnds, Accepting, conns, Elsewhere
<1> QED
    BY <1>1, <1>2

LEMMA CloserSteps ==
    ASSUME TypeOK, Closer
    PROVE  TypeOK' /\ Elsewhere
<1>1. CASE Wake
    <2>1. reports' \in 0..ReportCap
        BY <1>1, Capacities DEF TypeOK, Wake
    <2> QED
        BY <1>1, <2>1 DEF TypeOK, Wake, Closing, conns, down3, inner, outside, Elsewhere
<1>2. CASE Cut \/ HangUp \/ CloseQueue
    BY <1>2 DEF TypeOK, Cut, HangUp, CloseQueue, Closing, conns, down3, inner, outside, Elsewhere
<1> QED
    BY <1>1, <1>2 DEF Closer

LEMMA WriterSteps ==
    ASSUME TypeOK, Writer
    PROVE  TypeOK' /\ Elsewhere
<1>1. CASE Pull
    <2>1. queue' \in 0..QueueCap
        BY <1>1, Capacities DEF TypeOK, Pull
    <2> QED
        BY <1>1, <2>1 DEF TypeOK, Pull, Writing, conns, down3, inner, outside, Elsewhere
<1>2. CASE WriteReport
    <2>1. reports' \in 0..ReportCap
        BY <1>2, Capacities DEF TypeOK, WriteReport, HasRoom
    <2> QED
        BY <1>2, <2>1 DEF TypeOK, WriteReport, Writing, conns, down3, inner, outside, Elsewhere
<1>3. CASE Write \/ Leave
    BY <1>3 DEF Early, TypeOK, Write, Leave, Writing, conns, down3, inner, outside, Elsewhere
<1> QED
    BY <1>1, <1>2, <1>3 DEF Writer

LEMMA NextIInv == IInv /\ [Next]_vars => IInv'
<1> SUFFICES ASSUME IInv, [Next]_vars PROVE IInv'
    OBVIOUS
<1>1. TypeOK /\ Started
    BY DEF IInv, SavedUnderItsDimension
<1>2. CASE DownRead \/ DownPass \/ Receive \/ SaveChunk
    BY <1>2, ReadStep, PassStep, ReceiveStep, SaveStep
<1>3. CASE \/ Accept \/ JoinFails \/ Join \/ Outside \/ Reader \/ UpWriteFails
           \/ DownPush \/ DownBreaks \/ DownReport \/ DownClose
           \/ ActionBar \/ AcceptorEnds \/ Closer \/ Writer
    BY <1>1, <1>3, ElsewhereStep, StartSteps, ReaderSteps, ServerReaderSteps, AcceptorSteps,
       CloserSteps, WriterSteps
<1>4. CASE UNCHANGED vars
    <2>1. TypeOK' /\ Elsewhere
        BY <1>1, <1>4 DEF vars, conns, down3, inner, queues, outside, TypeOK, Elsewhere
    <2> QED
        BY <2>1, ElsewhereStep
<1> QED
    BY <1>2, <1>3, <1>4 DEF Next, ServerReader, Acceptor

\* However far the acceptor is behind the server, and whatever ends the session,
\* a chunk is saved under the dimension the server sent it for, unless a login
\* or respawn could not be scanned (packetProcessor.go:80-177, 265-382).
THEOREM ChunksKeepTheirDimension == Spec => []SavedUnderItsDimension
<1>1. IInv => SavedUnderItsDimension
    BY DEF IInv
<1> QED
    BY <1>1, InitIInv, NextIInv, PTL DEF Spec

=============================================================================
