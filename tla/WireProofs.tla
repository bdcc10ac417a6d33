----------------------------- MODULE WireProofs -----------------------------
(***************************************************************************)
(* Proofs about what crosses the wire: datagrams for every window, clock   *)
(* granularity, idle bound and number of packets, a session's transfer to  *)
(* the landing for every message length and choice of faults, the key      *)
(* updates of the record layer, and the path MTU search of a channel.      *)
(***************************************************************************)
EXTENDS UdpChannel, HandoffTransfer, KeyUpdate, PathMtu, TLAPS

-----------------------------------------------------------------------------
(* The datagram channel *)

\* Ticks until the OPEN's timestamp leaves the landing's window.
StaleIn == (TimeDifference + 1 - lead) * TicksPerSecond - phase

\* The clocks, and what an accepted OPEN leaves behind: its nonce outlives
\* its timestamp.
OpenInv ==
    /\ phase \in 0..(TicksPerSecond - 1)
    /\ lead \in Int /\ lead <= TimeDifference + 1
    /\ nonceLeft \in Nat
    /\ downSealed \in Nat
    /\ session = "live" => downSealed > 0
    /\ line = "new" => net = {}
    /\ downSealed > 0 => line # "new" /\ StaleIn <= nonceLeft

\* The window of an accepted timestamp is one second longer than twice the
\* accepted distance, and so is the retention of its nonce.
LEMMA RetentionSuffices ==
    ASSUME NEW l \in Int, l >= -TimeDifference, NEW p \in Nat
    PROVE  (TimeDifference + 1 - l) * TicksPerSecond - p <= Retention
<1>1. TicksPerSecond \in Nat /\ TimeDifference \in Nat
  BY ChannelAssumption, Zenon
<1> DEFINE a == TimeDifference + 1 - l
           b == 2 * TimeDifference + 1
<1>2. a \in Int /\ b \in Int /\ a <= b
  BY <1>1
<1>3. \A x, y \in Int : x <= y => x * TicksPerSecond <= TicksPerSecond * y
  BY <1>1
<1>4. a * TicksPerSecond <= TicksPerSecond * b
  BY <1>2, <1>3, Zenon
<1> QED
  BY <1>1, <1>4 DEF Retention

\* A timestamp that is still accepted leaves at least one tick.
LEMMA FreshHasTicks ==
    ASSUME OpenInv, lead <= TimeDifference
    PROVE  StaleIn > 0
<1>1. TicksPerSecond \in Nat /\ TicksPerSecond > 0 /\ TimeDifference \in Nat
  BY ChannelAssumption
<1>2. \A x \in Int : x >= 1 => x * TicksPerSecond >= TicksPerSecond
  BY <1>1
<1>3. (TimeDifference + 1 - lead) * TicksPerSecond >= TicksPerSecond
  BY <1>1, <1>2 DEF OpenInv
<1> QED
  BY <1>1, <1>3 DEF OpenInv, StaleIn

\* A step that leaves the clocks, the nonce and the sealed packets alone.
LEMMA OpenKept ==
    ASSUME OpenInv, UNCHANGED <<phase, lead, nonceLeft, downSealed>>,
           line' = "new" => line = "new" /\ net' = net, session' = "live" => session = "live"
    PROVE  OpenInv'
BY Zenon DEF OpenInv, StaleIn

\* A step that seals one more packet of a live session.
LEMMA SealKept ==
    ASSUME OpenInv, UNCHANGED <<phase, lead, nonceLeft, line>>,
           session = "live", downSealed' = downSealed + 1
    PROVE  OpenInv'
BY DEF OpenInv, StaleIn

\* A tick brings the timestamp's end and the nonce's end nearer alike.
LEMMA TickKept ==
    ASSUME OpenInv, Tick
    PROVE  OpenInv'
<1>1. TicksPerSecond \in Nat /\ TicksPerSecond > 0 /\ TimeDifference \in Nat
  BY ChannelAssumption
<1>2. phase \in 0..(TicksPerSecond - 1) /\ lead \in Int /\ lead <= TimeDifference + 1 /\ nonceLeft \in Nat
  BY Zenon DEF OpenInv
<1>3. phase' = IF phase = TicksPerSecond - 1 THEN 0 ELSE phase + 1
  <2>1. phase' = (phase + 1) % TicksPerSecond
    BY Zenon DEF Tick
  <2>2. CASE phase = TicksPerSecond - 1
    <3>1. \A n \in Nat \ {0} : n % n = 0
      BY SMT
    <3> QED
      BY <1>1, <1>2, <2>1, <2>2, <3>1
  <2>3. CASE phase # TicksPerSecond - 1
    <3>1. \A n \in Nat \ {0}, m \in Nat : m < n => m % n = m
      BY SMT
    <3> QED
      BY <1>1, <1>2, <2>1, <2>3, <3>1
  <2> QED
    BY <2>2, <2>3, Zenon
<1>4. /\ lead' = IF phase' = 0 /\ lead <= TimeDifference THEN lead + 1 ELSE lead
      /\ nonceLeft' = IF nonceLeft = 0 THEN 0 ELSE nonceLeft - 1
      /\ UNCHANGED <<line, session, downSealed, net>>
  BY Zenon DEF Tick, Less, downVars
<1>5. \A x \in Int : (x - 1) * TicksPerSecond = x * TicksPerSecond - TicksPerSecond
  BY <1>1
<1>6. ASSUME downSealed > 0
      PROVE  StaleIn' <= nonceLeft'
  <2>1. StaleIn <= nonceLeft
    BY <1>6, Zenon DEF OpenInv
  <2>2. CASE lead = TimeDifference + 1
    <3>1. StaleIn' = 0 - phase'
      BY <1>1, <1>4, <2>2 DEF StaleIn
    <3> QED
      BY <1>1, <1>2, <1>3, <1>4, <3>1
  <2>3. CASE lead <= TimeDifference
    <3>1. nonceLeft > 0 /\ nonceLeft' = nonceLeft - 1
      BY <1>2, <1>4, <2>1, <2>3, FreshHasTicks, <1>1 DEF StaleIn
    <3>2. StaleIn' = StaleIn - 1
      <4>1. CASE phase = TicksPerSecond - 1
        <5>1. phase' = 0 /\ lead' = lead + 1
          BY <1>1, <1>3, <1>4, <2>3, <4>1, Zenon
        <5>2. (TimeDifference + 1 - lead') * TicksPerSecond = (TimeDifference + 1 - lead) * TicksPerSecond - TicksPerSecond
          <6>1. TimeDifference + 1 - lead' = (TimeDifference + 1 - lead) - 1 /\ TimeDifference + 1 - lead \in Int
            BY <1>1, <1>2, <5>1
          <6> QED
            BY <1>5, <6>1, Zenon
        <5> QED
          BY <1>1, <1>2, <4>1, <5>1, <5>2 DEF StaleIn
      <4>2. CASE phase # TicksPerSecond - 1
        <5>1. phase' = phase + 1 /\ lead' = lead
          BY <1>1, <1>2, <1>3, <1>4, <4>2
        <5> QED
          BY <1>1, <1>2, <5>1 DEF StaleIn
      <4> QED
        BY <4>1, <4>2, Zenon
    <3> QED
      BY <1>1, <1>2, <2>1, <3>1, <3>2 DEF StaleIn
  <2> QED
    BY <1>1, <1>2, <2>2, <2>3
<1> QED
  BY <1>1, <1>2, <1>3, <1>4, <1>6 DEF OpenInv

\* Every step of the channel keeps the invariant.
LEMMA OpenStep ==
    ASSUME OpenInv, [ChannelNext]_channelVars
    PROVE  OpenInv'
<1> USE DEF entryVars, landingVars, clockVars, upVars, downVars
<1>1. CASE OpenChannel
  <2>1. downSealed = 0 /\ session # "live"
    BY <1>1 DEF OpenInv, OpenChannel
  <2> QED
    BY <1>1, <2>1, ChannelAssumption DEF OpenChannel, OpenInv
<1>2. CASE SendUplink \/ KeepAlive \/ ClientEnds \/ Timers \/ Sweep
  BY <1>2, OpenKept, Zenon DEF SendUplink, Alive, KeepAlive, ClientEnds, Timers, OpenTimesOut, LineExpires, Sweep, EndLine, SealUp
<1>3. CASE LandingReacknowledges \/ PumpDownlink
  BY <1>3, SealKept, Zenon DEF LandingReacknowledges, PumpDownlink, SealDown
<1>4. CASE LandingOpens
  <2>1. /\ lead \in Int /\ lead >= -TimeDifference
        /\ nonceLeft' = Retention /\ downSealed' = 1
        /\ UNCHANGED <<phase, lead, line>>
    BY <1>4, ChannelAssumption DEF LandingOpens, SealDown
  <2>2. Retention \in Nat
    BY ChannelAssumption DEF Retention
  <2>3. phase \in Nat
    BY ChannelAssumption DEF OpenInv
  <2>4. (TimeDifference + 1 - lead) * TicksPerSecond - phase <= Retention
    BY <2>1, <2>3, RetentionSuffices, Zenon
  <2>5. line # "new"
    BY <1>4, Zenon DEF LandingOpens, OpenInv
  <2> QED
    BY <2>1, <2>2, <2>4, <2>5 DEF OpenInv, StaleIn
<1>5. CASE Shutdown
  <2>1. session' = "none" /\ UNCHANGED <<phase, lead, nonceLeft, line>>
    BY <1>5, Zenon DEF Shutdown
  <2>2. CASE session = "live" /\ downSealed < MaxDown
    BY <1>5, <2>1, <2>2 DEF Shutdown, SealDown, OpenInv, StaleIn
  <2>3. CASE ~(session = "live" /\ downSealed < MaxDown)
    BY <1>5, <2>1, <2>3, OpenKept, Zenon DEF Shutdown
  <2> QED
    BY <2>2, <2>3, Zenon
<1>6. CASE \E p \in net : LineReceives(p) \/ LandingReceives(p)
  BY <1>6, OpenKept, Zenon DEF LineReceives, LandingReceives, Alive, EndLine
<1>7. CASE Tick
  BY <1>7, TickKept, Zenon
<1>8. CASE UNCHANGED channelVars
  BY <1>8, OpenKept, Zenon DEF channelVars
<1> QED
  BY <1>1, <1>2, <1>3, <1>4, <1>5, <1>6, <1>7, <1>8, Zenon DEF ChannelNext

\* The first state.
LEMMA OpenStart ==
    ASSUME ChannelInit
    PROVE  OpenInv
BY ChannelAssumption DEF ChannelInit, OpenInv

\* While the timestamp is accepted the nonce is known, if there was a session.
LEMMA OpensOnce ==
    ASSUME OpenInv, LandingOpens
    PROVE  downSealed = 0
<1> SUFFICES ASSUME downSealed # 0 PROVE FALSE
  BY Zenon
<1>1. lead <= TimeDifference /\ nonceLeft = 0
  BY ChannelAssumption DEF LandingOpens
<1>2. StaleIn > 0
  BY <1>1, FreshHasTicks, Zenon
<1>3. StaleIn <= nonceLeft
  BY DEF OpenInv
<1>4. StaleIn \in Int
  BY ChannelAssumption DEF OpenInv, StaleIn
<1> QED
  BY <1>1, <1>2, <1>3, <1>4

\* The nonce of an OPEN outlives its timestamp: no session is opened twice
\* from one OPEN, whatever the distance of the clocks and whenever the first
\* session ended.
THEOREM OneSessionPerOpen == ChannelSafety => OpenAdmittedOnce
<1>1. ChannelInit => OpenInv
  BY OpenStart, Zenon
<1>2. OpenInv /\ [ChannelNext]_channelVars => OpenInv'
  BY OpenStep, Zenon
<1>3. OpenInv /\ [ChannelNext]_channelVars => [LandingOpens => downSealed = 0]_channelVars
  BY OpensOnce, Zenon
<1> QED
  BY <1>1, <1>2, <1>3, PTL DEF ChannelSafety, OpenAdmittedOnce

-----------------------------------------------------------------------------
(* The windows                                                               *)

\* Window w has seen counter n, or has left it behind.
Held(w, n) == n <= w.highest /\ (w.highest - n < WindowBits => Bit(n) \in w.bits)

\* What no fresh counter is.
LEMMA HeldIsNotFresh ==
    ASSUME NEW w, w.highest \in Nat, NEW n \in Nat, Held(w, n)
    PROVE  ~Fresh(w, n)
BY DEF Held, Fresh

\* Quotient and remainder.
LEMMA DivMod ==
    ASSUME NEW a \in Int, NEW b \in Int, b > 0
    PROVE  a - b * (a \div b) = a % b /\ a \div b \in Int
<1>1. a - b * (a \div b) = a % b
  BY SMT
<1>2. a \div b \in Int
  BY SMT
<1> QED
  BY <1>1, <1>2, Zenon

\* Two counters less than a window apart have different slots.
LEMMA SlotsDiffer ==
    ASSUME NEW a \in Nat, NEW b \in Nat, a < b, b - a < WindowBits
    PROVE  Bit(a) # Bit(b)
<1> DEFINE p == a \div WindowBits
           q == b \div WindowBits
<1>1. WindowBits \in Nat /\ WindowBits > 0
  BY ChannelAssumption
<1>2. a - WindowBits * p = a % WindowBits /\ b - WindowBits * q = b % WindowBits /\ p \in Int /\ q \in Int
  BY <1>1, DivMod
<1> HIDE DEF p, q
<1> SUFFICES ASSUME a % WindowBits = b % WindowBits PROVE FALSE
  BY Zenon DEF Bit
<1>3. b - a = WindowBits * (q - p)
  <2>1. b - WindowBits * q = a - WindowBits * p
    BY <1>2, Zenon
  <2>2. WindowBits * (q - p) = WindowBits * q - WindowBits * p
    BY <1>1, <1>2
  <2> QED
    BY <1>1, <1>2, <2>1, <2>2
<1>4. \A x \in Int : x >= 1 => WindowBits * x >= WindowBits
  BY <1>1
<1>5. \A x \in Int : x <= 0 => WindowBits * x <= 0
  BY <1>1
<1>6. WindowBits * (q - p) < WindowBits /\ WindowBits * (q - p) > 0
  BY <1>3
<1>7. q - p \in Int
  BY <1>2
<1> QED
  BY <1>1, <1>4, <1>5, <1>6, <1>7

\* commit records its counter and forgets none: the slots it clears belong to
\* counters never accepted, or to none the window still tracks.
LEMMA CommitHolds ==
    ASSUME NEW w, w.highest \in Nat, NEW c \in Nat, NEW n \in Nat, n = c \/ Held(w, n)
    PROVE  Committed(w, c).highest \in Nat /\ Held(Committed(w, c), n)
<1> DEFINE skipped == IF c - w.highest >= WindowBits
                      THEN 0..(WindowBits - 1)
                      ELSE {Bit(k) : k \in (w.highest + 1)..(c - 1)}
<1>1. /\ Committed(w, c).highest = IF c > w.highest THEN c ELSE w.highest
      /\ Committed(w, c).bits = (w.bits \ skipped) \cup {Bit(c)}
  BY Zenon DEF Committed
<1>2. n <= Committed(w, c).highest
  BY <1>1 DEF Held
<1>3. ASSUME Committed(w, c).highest - n < WindowBits, n # c
      PROVE  Bit(n) \in w.bits /\ Bit(n) \notin skipped
  <2>1. n <= w.highest /\ Bit(n) \in w.bits
    BY <1>1, <1>3, ChannelAssumption DEF Held
  <2>2. ~(c - w.highest >= WindowBits)
    BY <1>1, <1>3, <2>1, ChannelAssumption
  <2>3. ASSUME NEW k \in (w.highest + 1)..(c - 1)
        PROVE  Bit(n) # Bit(k)
    <3>1. k \in Nat /\ n < k /\ k - n < WindowBits
      BY <1>1, <1>3, <2>1, ChannelAssumption
    <3> QED
      BY <3>1, SlotsDiffer, Zenon
  <2> QED
    BY <2>1, <2>2, <2>3, Zenon
<1> HIDE DEF skipped
<1> QED
  BY <1>1, <1>2, <1>3, Zenon DEF Held

-----------------------------------------------------------------------------
(* Delivery                                                                  *)

\* A counter is a number its sender may use.
PacketOK(p) ==
    /\ p.counter \in Nat
    /\ p.way = "up" => p.counter <= MaxUp
    /\ p.way = "down" => p.counter <= MaxDown

\* What was delivered is held by the window that let it through, unless its
\* session is gone; without a session there was nothing to deliver.
DeliverInv ==
    /\ upSealed \in Nat
    /\ upWindow.highest \in Nat /\ downWindow.highest \in Nat
    /\ \A p \in net : PacketOK(p)
    /\ forwarded \in [1..MaxUp -> {0, 1}]
    /\ returned \in [1..MaxDown -> {0, 1}]
    /\ session = "live" => \A n \in 1..MaxUp : forwarded[n] = 1 => Held(upWindow, n)
    /\ \A n \in 1..MaxDown : returned[n] = 1 => Held(downWindow, n)
    /\ downSealed = 0 => \A n \in 1..MaxUp : forwarded[n] = 0

\* One more packet keeps the bounds of the packets in flight.
LEMMA NetGrows ==
    ASSUME DeliverInv, NEW way \in {"up", "down"}, NEW type, NEW c \in Nat,
           way = "up" => c <= MaxUp, way = "down" => c <= MaxDown,
           net' = net \cup {Packet(way, type, c)}
    PROVE  \A p \in net' : PacketOK(p)
<1>1. /\ Packet(way, type, c).way = way
      /\ Packet(way, type, c).counter = c
  BY Zenon DEF Packet
<1>2. PacketOK(Packet(way, type, c))
  BY <1>1, Zenon DEF PacketOK
<1> QED
  BY <1>2, Zenon DEF DeliverInv

\* The line seals a packet.
LEMMA SealUpKept ==
    ASSUME DeliverInv, NEW type, SealUp(type)
    PROVE  upSealed' \in Nat /\ \A p \in net' : PacketOK(p)
<1>1. /\ upSealed + 1 \in Nat /\ upSealed + 1 <= MaxUp /\ upSealed' = upSealed + 1
      /\ net' = net \cup {Packet("up", type, upSealed + 1)}
  BY ChannelAssumption DEF SealUp, DeliverInv
<1> QED
  BY <1>1, NetGrows, Zenon

\* A step that delivers nothing and leaves the windows alone, or empties the
\* landing's with its session.
LEMMA DeliverKept ==
    ASSUME DeliverInv, OpenInv, upSealed' \in Nat,
           forwarded' = forwarded, returned' = returned, downWindow' = downWindow,
           \/ upWindow' = upWindow /\ session' = session
           \/ upWindow' = EmptyWindow /\ session' = "none",
           downSealed' >= downSealed, downSealed' \in Nat,
           \A p \in net' : PacketOK(p)
    PROVE  DeliverInv'
<1>1. upWindow'.highest \in Nat
  BY DEF DeliverInv, EmptyWindow
<1>2. session' = "live" => \A n \in 1..MaxUp : forwarded'[n] = 1 => Held(upWindow, n)' 
  BY Zenon DEF DeliverInv, Held
<1>3. downSealed' = 0 => downSealed = 0
  BY DEF OpenInv
<1> QED
  BY <1>1, <1>2, <1>3, Zenon DEF DeliverInv, Held

\* A packet the landing accepts: at most one delivery, of a counter that was
\* never delivered.
LEMMA LandingDelivers ==
    ASSUME DeliverInv, OpenInv, NEW p \in net, LandingReceives(p)
    PROVE  DeliverInv'
<1> USE DEF entryVars, landingVars, clockVars, upVars, downVars
<1>1. CASE p.type = "data"
  <2>1. /\ session = "live" /\ session' = "live" /\ p.way = "up" /\ Fresh(upWindow, p.counter)
        /\ upWindow' = Committed(upWindow, p.counter)
        /\ forwarded' = [forwarded EXCEPT ![p.counter] = @ + 1]
        /\ UNCHANGED <<upSealed, downSealed, downWindow, returned, net>>
    BY <1>1, Zenon DEF LandingReceives
  <2>2. p.counter \in 1..MaxUp /\ upWindow.highest \in Nat
    BY <2>1, ChannelAssumption DEF DeliverInv, PacketOK, Fresh
  <2>3. forwarded[p.counter] = 0
    BY <2>1, <2>2, HeldIsNotFresh DEF DeliverInv
  <2>4. forwarded' \in [1..MaxUp -> {0, 1}]
    BY <2>1, <2>2, <2>3 DEF DeliverInv
  <2>5. upWindow'.highest \in Nat /\ Held(upWindow', p.counter)
    BY <2>1, <2>2, CommitHolds
  <2>6. ASSUME NEW n \in 1..MaxUp, forwarded'[n] = 1
        PROVE  Held(upWindow', n)
    <3>1. n = p.counter \/ Held(upWindow, n)
      BY <2>1, <2>6, Zenon DEF DeliverInv
    <3> QED
      BY <2>1, <2>2, <3>1, CommitHolds
  <2>7. downSealed # 0
    BY <2>1 DEF OpenInv
  <2> QED
    BY <2>1, <2>4, <2>5, <2>6, <2>7, Zenon DEF DeliverInv, Held
<1>2. CASE p.type = "close"
  <2>1. /\ upWindow' = EmptyWindow /\ session' = "none" /\ forwarded' = forwarded
        /\ UNCHANGED <<upSealed, downSealed, downWindow, returned, net>>
    BY <1>2, Zenon DEF LandingReceives
  <2>2. downSealed' \in Nat /\ downSealed' >= downSealed
    BY <2>1 DEF OpenInv
  <2>3. upSealed' \in Nat /\ \A q \in net' : PacketOK(q)
    BY <2>1, Zenon DEF DeliverInv
  <2> QED
    BY <2>1, <2>2, <2>3, DeliverKept, Zenon
<1> QED
  BY <1>1, <1>2, Zenon DEF LandingReceives

\* A packet the line accepts.
LEMMA LineDelivers ==
    ASSUME DeliverInv, OpenInv, NEW p \in net, LineReceives(p)
    PROVE  DeliverInv'
<1> USE DEF entryVars, landingVars, clockVars, upVars, downVars
<1>1. /\ p.way = "down" /\ Fresh(downWindow, p.counter)
      /\ downWindow' = Committed(downWindow, p.counter)
      /\ UNCHANGED <<downSealed, session, upWindow, forwarded>>
  BY Zenon DEF LineReceives, EndLine
<1>2. p.counter \in 1..MaxDown /\ downWindow.highest \in Nat
  BY <1>1, ChannelAssumption DEF DeliverInv, PacketOK, Fresh
<1>3. returned[p.counter] = 0
  BY <1>1, <1>2, HeldIsNotFresh DEF DeliverInv
<1>4. returned' = returned \/ returned' = [returned EXCEPT ![p.counter] = @ + 1]
  BY Zenon DEF LineReceives
<1>5. returned' \in [1..MaxDown -> {0, 1}]
  BY <1>2, <1>3, <1>4 DEF DeliverInv
<1>6. downWindow'.highest \in Nat
  BY <1>1, <1>2, CommitHolds
<1>7. ASSUME NEW n \in 1..MaxDown, returned'[n] = 1
      PROVE  Held(downWindow', n)
  <2>1. n = p.counter \/ Held(downWindow, n)
    BY <1>4, <1>7, Zenon DEF DeliverInv
  <2> QED
    BY <1>1, <1>2, <2>1, CommitHolds
<1>8. upSealed' \in Nat /\ \A r \in net' : PacketOK(r)
  <2>1. CASE UNCHANGED <<upSealed, net>>
    BY <2>1, Zenon DEF DeliverInv
  <2>2. CASE SealUp("close")
    BY <2>2, SealUpKept, Zenon
  <2> QED
    BY <2>1, <2>2, Zenon DEF LineReceives, EndLine
<1> QED
  BY <1>1, <1>5, <1>6, <1>7, <1>8, Zenon DEF DeliverInv, Held

\* Every step of the channel.
LEMMA DeliverStep ==
    ASSUME DeliverInv, OpenInv, [ChannelNext]_channelVars
    PROVE  DeliverInv'
<1> USE DEF entryVars, landingVars, clockVars, upVars, downVars
<1>0. downSealed \in Nat
  BY Zenon DEF OpenInv
<1>1. CASE OpenChannel
  <2>1. \A p \in net' : PacketOK(p)
    BY <1>1, NetGrows, ChannelAssumption DEF OpenChannel
  <2> QED
    BY <1>1, <2>1, DeliverKept, Zenon DEF OpenChannel, DeliverInv, OpenInv
<1>2. CASE SendUplink \/ ClientEnds \/ Timers
  <2>1. \/ SealUp("data") \/ SealUp("close")
        \/ UNCHANGED <<upSealed, net>>
    BY <1>2, Zenon DEF SendUplink, ClientEnds, Timers, OpenTimesOut, LineExpires, EndLine
  <2>2. upSealed' \in Nat /\ \A p \in net' : PacketOK(p)
    <3>1. CASE SealUp("data")
      BY <3>1, SealUpKept, Zenon
    <3>2. CASE SealUp("close")
      BY <3>2, SealUpKept, Zenon
    <3>3. CASE UNCHANGED <<upSealed, net>>
      BY <3>3, Zenon DEF DeliverInv
    <3> QED
      BY <2>1, <3>1, <3>2, <3>3, Zenon
  <2>3. UNCHANGED <<forwarded, returned, downWindow, upWindow, session, downSealed>>
    BY <1>2, Zenon DEF SendUplink, ClientEnds, Timers, OpenTimesOut, LineExpires, EndLine
  <2>4. downSealed' \in Nat /\ downSealed' >= downSealed
    BY <1>0, <2>3
  <2> QED
    BY <2>2, <2>3, <2>4, DeliverKept, Zenon
<1>3. CASE KeepAlive \/ Sweep \/ Tick \/ UNCHANGED channelVars
  <2>1. /\ UNCHANGED <<forwarded, returned, downWindow, downSealed, upSealed, net>>
        /\ (upWindow' = upWindow /\ session' = session) \/ (upWindow' = EmptyWindow /\ session' = "none")
    BY <1>3, Zenon DEF KeepAlive, Sweep, Tick, channelVars
  <2>2. upSealed \in Nat /\ \A p \in net : PacketOK(p)
    BY Zenon DEF DeliverInv
  <2> QED
    BY <1>0, <2>1, <2>2, DeliverKept
<1>4. CASE LandingReacknowledges \/ PumpDownlink
  <2>1. \E type \in {"ack", "data"} : SealDown(type, downSealed + 1)
    BY <1>4, Zenon DEF LandingReacknowledges, PumpDownlink
  <2>2. downSealed' = downSealed + 1 /\ \A p \in net' : PacketOK(p)
    BY <2>1, NetGrows DEF SealDown, OpenInv
  <2>3. UNCHANGED <<forwarded, returned, downWindow, upWindow, session, upSealed>>
    BY <1>4, Zenon DEF LandingReacknowledges, PumpDownlink
  <2>4. upSealed' \in Nat
    BY <2>3, Zenon DEF DeliverInv
  <2>5. downSealed' \in Nat /\ downSealed' >= downSealed
    BY <1>0, <2>2
  <2> QED
    BY <2>2, <2>3, <2>4, <2>5, DeliverKept, Zenon
<1>5. CASE LandingOpens
  <2>1. downSealed = 0
    BY <1>5, OpensOnce, Zenon
  <2>2. SealDown("ack", 1) /\ upWindow' = EmptyWindow
    BY <1>5, Zenon DEF LandingOpens
  <2>3. \A p \in net' : PacketOK(p)
    BY <2>2, NetGrows, Zenon DEF SealDown
  <2> QED
    <3>1. /\ UNCHANGED <<upSealed, forwarded, downWindow, returned>>
          /\ \A n \in 1..MaxUp : forwarded[n] = 0
      BY <1>5, <2>1, Zenon DEF LandingOpens, DeliverInv
    <3>2. upWindow'.highest \in Nat /\ 0 # 1
      BY <2>2 DEF EmptyWindow
    <3> QED
      BY <2>3, <3>1, <3>2, Zenon DEF DeliverInv, Held
<1>6. CASE Shutdown
  <2>1. downSealed' \in Nat /\ downSealed' >= downSealed /\ \A p \in net' : PacketOK(p)
    <3>1. CASE session = "live" /\ downSealed < MaxDown
      BY <1>6, <3>1, NetGrows DEF Shutdown, SealDown, OpenInv
    <3>2. CASE ~(session = "live" /\ downSealed < MaxDown)
      BY <1>6, <3>2 DEF Shutdown, OpenInv, DeliverInv
    <3> QED
      BY <3>1, <3>2, Zenon
  <2> QED
    BY <1>6, <2>1, DeliverKept, Zenon DEF Shutdown, DeliverInv
<1>7. CASE \E p \in net : LineReceives(p) \/ LandingReceives(p)
  BY <1>7, LineDelivers, LandingDelivers, Zenon
<1> QED
  BY <1>1, <1>2, <1>3, <1>4, <1>5, <1>6, <1>7, Zenon DEF ChannelNext

\* No datagram is forwarded or returned twice, for every window width, every
\* order and repetition of the packets and every end of the session.
THEOREM DeliveredAtMostOnce == ChannelSafety => []DeliveredOnce
<1>1. ChannelInit => OpenInv /\ DeliverInv
  <2> SUFFICES ASSUME ChannelInit PROVE OpenInv /\ DeliverInv
    BY Zenon
  <2>1. OpenInv
    BY OpenStart, Zenon
  <2>2. DeliverInv
    BY DEF ChannelInit, DeliverInv, EmptyWindow, Held
  <2> QED
    BY <2>1, <2>2, Zenon
<1>2. OpenInv /\ DeliverInv /\ [ChannelNext]_channelVars => OpenInv' /\ DeliverInv'
  BY OpenStep, DeliverStep, Zenon
<1>3. DeliverInv => DeliveredOnce
  BY DEF DeliverInv, DeliveredOnce
<1> QED
  BY <1>1, <1>2, <1>3, PTL DEF ChannelSafety

-----------------------------------------------------------------------------
(* The transfer of a session to the landing *)

\* Which connection the session is bound to: the pooled one was completely
\* written only if the line stayed on it, and the fresh one is untouched until
\* the line has left the pooled one for good.
Binding ==
    /\ attempt = Warm => wire[Cold] = 0
    /\ attempt = Cold => wire[Warm] < MessageLen
    /\ pc \in {"start", "write", "dial"} => wire[attempt] < MessageLen
    /\ pc \in {"start", "dial"} => attempt = Warm

\* What each side knows: the handler has read no more than was written, took
\* the session over only with the complete message, and answered only then.
Progress ==
    \A a \in Attempts :
        /\ got[a] <= wire[a]
        /\ a \in claimed =>
              got[a] = MessageLen /\ handler[a] \in {"dialing", "resumed", "closed"}
        /\ handler[a] \in {"dialing", "resumed"} => a \in claimed
        /\ answered[a] => a \in claimed

\* The client's socket follows the line's task.
ClientFollows ==
    /\ pc \in {"start", "write", "dial", "probe"} => client = "open"
    /\ pc = "relay" => client = "served"

\* The inductive invariant.
TransferInv ==
    TransferTypeOK /\ Binding /\ Progress /\ ClientFollows /\ NoLostRetirement

\* There are two attempts, the pooled connection and a fresh one.
LEMMA TwoAttempts == Attempts = {Warm, Cold} /\ Warm # Cold
  BY Zenon DEF Attempts, Warm, Cold

\* Two connections are never both completely written.
LEMMA OneComplete ==
  ASSUME TransferTypeOK, Binding, NEW a \in Attempts, NEW b \in Attempts,
         wire[a] = MessageLen, wire[b] = MessageLen
  PROVE  a = b
  <1>1. MessageLen \in Nat /\ MessageLen # 0
    BY MessageAssumption, Zenon
  <1>2. attempt \in {Warm, Cold} /\ a \in {Warm, Cold} /\ b \in {Warm, Cold}
    BY Zenon DEF TransferTypeOK, Attempts
  <1>3. ~(wire[Warm] = MessageLen /\ wire[Cold] = MessageLen)
    BY <1>1, <1>2 DEF Binding
  <1> QED
    BY <1>2, <1>3

\* A transfer begins in the invariant.
LEMMA InitHolds == TransferInit => TransferInv
  <1> SUFFICES ASSUME TransferInit PROVE TransferInv
    BY Zenon
  <1>1. MessageLen \in Nat /\ MessageLen # 0
    BY MessageAssumption, Zenon
  <1>2. TransferTypeOK
    BY <1>1, TwoAttempts DEF TransferInit, TransferTypeOK
  <1>3. Binding
    BY <1>1, TwoAttempts DEF TransferInit, Binding
  <1>4. Progress
    BY <1>1, TwoAttempts DEF TransferInit, Progress
  <1>5. ClientFollows /\ NoLostRetirement
    BY TwoAttempts, Zenon DEF TransferInit, ClientFollows, NoLostRetirement
  <1> QED
    BY <1>2, <1>3, <1>4, <1>5, Zenon DEF TransferInv

\* Leaving the session with the client reset keeps the invariant.
LEMMA AbandonKeeps ==
  ASSUME TransferInv, NEW how \in {"fin", "reset"}, ResetClient(how)
  PROVE  TransferInv'
  <1>1. TransferTypeOK'
    BY Zenon DEF TransferInv, TransferTypeOK, ResetClient, landVars
  <1>2. Binding'
    BY Zenon DEF TransferInv, Binding, ResetClient, landVars
  <1>3. Progress'
    BY Zenon DEF TransferInv, Progress, ResetClient, landVars
  <1>4. ClientFollows' /\ NoLostRetirement'
    BY Zenon DEF TransferInv, ClientFollows, NoLostRetirement, ResetClient, landVars
  <1> QED
    BY <1>1, <1>2, <1>3, <1>4, Zenon DEF TransferInv

\* A step of the line, one by one.
LEMMA LineKeeps ==
  ASSUME TransferInv, LineStep \/ Cancel \/ RelayEnds
  PROVE  TransferInv'
  <1>0. MessageLen \in Nat /\ MessageLen # 0
    BY MessageAssumption, Zenon
  <1>1. CASE Checkout
    <2>1. TransferTypeOK'
      BY <1>1, Zenon DEF TransferInv, TransferTypeOK, Checkout, landVars
    <2>2. Binding' /\ ClientFollows'
      BY <1>1, Zenon DEF TransferInv, Binding, ClientFollows, Checkout, landVars
    <2>3. Progress' /\ NoLostRetirement'
      BY <1>1, Zenon DEF TransferInv, Progress, NoLostRetirement, Checkout, landVars
    <2> QED
      BY <2>1, <2>2, <2>3, Zenon DEF TransferInv
  <1>2. ASSUME NEW n \in 1..MessageLen, Write(n) PROVE TransferInv'
    <2>1. attempt \in Attempts /\ wire \in [Attempts -> 0..MessageLen]
      BY Zenon DEF TransferInv, TransferTypeOK
    <2>2. wire' \in [Attempts -> 0..MessageLen]
      BY <1>0, <1>2, <2>1 DEF Write
    <2>3. TransferTypeOK'
      BY <1>2, <2>2, Zenon DEF TransferInv, TransferTypeOK, Write, landVars
    <2>4. /\ wire'[attempt] >= wire[attempt] /\ wire'[attempt] \in Nat
          /\ \A a \in Attempts : a # attempt => wire'[a] = wire[a]
      BY <1>0, <1>2, <2>1 DEF Write
    <2>5. Binding'
      <3>1. attempt' = attempt /\ pc = "write"
        BY <1>2, Zenon DEF Write
      <3>2. pc' = IF wire'[attempt] = MessageLen THEN "probe" ELSE "write"
        BY <1>2, <3>1, Zenon DEF Write
      <3>3. wire'[attempt] \in 0..MessageLen
        BY <2>1, <2>2, Zenon
      <3> QED
        BY <1>0, <2>1, <2>4, <3>1, <3>2, <3>3, TwoAttempts DEF TransferInv, Binding
    <2>6. Progress'
      <3>1. UNCHANGED <<got, handler, claimed, answered>>
        BY <1>2, Zenon DEF Write, landVars
      <3>2. \A a \in Attempts : wire[a] <= wire'[a] /\ wire[a] \in Nat /\ wire'[a] \in Nat
                               /\ got[a] \in Nat
        BY <2>1, <2>2, <2>4, <1>0 DEF TransferInv, TransferTypeOK
      <3> QED
        BY <3>1, <3>2 DEF TransferInv, Progress
    <2>7. ClientFollows' /\ NoLostRetirement'
      BY <1>2, Zenon DEF TransferInv, ClientFollows, NoLostRetirement, Write, landVars
    <2> QED
      BY <2>3, <2>5, <2>6, <2>7, Zenon DEF TransferInv
  <1>3. CASE WriteFails /\ attempt = Warm
    <2>1. Discard /\ pc = "write" /\ attempt = Warm
      BY <1>3, Zenon DEF WriteFails
    <2>2. TransferTypeOK'
      BY <2>1, Zenon DEF TransferInv, TransferTypeOK, Discard, landVars
    <2>3. Binding' /\ ClientFollows'
      BY <2>1, Zenon DEF TransferInv, Binding, ClientFollows, Discard, landVars
    <2>4. Progress' /\ NoLostRetirement'
      BY <2>1, Zenon DEF TransferInv, Progress, NoLostRetirement, Discard, landVars
    <2> QED
      BY <2>2, <2>3, <2>4, Zenon DEF TransferInv
  <1>4. CASE WriteFails /\ attempt # Warm
    BY <1>4, AbandonKeeps, Zenon DEF WriteFails
  <1>5. CASE SealFails \/ DialFails \/ ProbeRejects
    BY <1>5, AbandonKeeps, Zenon DEF SealFails, DialFails, ProbeRejects
  <1>6. CASE Cancel
    BY <1>6, AbandonKeeps, Zenon DEF Cancel
  <1>7. CASE Dial
    <2>1. attempt = Warm /\ wire[Warm] < MessageLen /\ wire[Cold] = 0 /\ client = "open"
      BY <1>7, Zenon DEF Dial, TransferInv, Binding, ClientFollows
    <2>2. TransferTypeOK'
      BY <1>7, TwoAttempts, Zenon DEF TransferInv, TransferTypeOK, Dial
    <2>3. Binding' /\ ClientFollows'
      BY <1>0, <1>7, <2>1, TwoAttempts DEF Binding, ClientFollows, Dial
    <2>4. Progress'
      <3>1. UNCHANGED <<got, wire, claimed, answered>>
        BY <1>7, Zenon DEF Dial
      <3>2. \A a \in Attempts : handler'[a] = IF a = Cold THEN "accepted" ELSE handler[a]
        BY <1>7, Zenon DEF Dial, TransferInv, TransferTypeOK
      <3>3. Cold \notin claimed
        <4>1. Cold \in Attempts /\ got[Cold] <= 0 /\ got[Cold] \in Nat
          BY <1>0, <2>1, TwoAttempts, SMTT(20) DEF TransferInv, TransferTypeOK, Progress
        <4> QED
          BY <1>0, <4>1 DEF TransferInv, Progress
      <3> QED
        BY <3>1, <3>2, <3>3, Zenon DEF TransferInv, Progress
    <2>5. NoLostRetirement'
      <3>1. UNCHANGED <<woken, reload>>
        BY <1>7, Zenon DEF Dial
      <3>2. \A a \in Attempts :
              \/ handler'[a] = "accepted"
              \/ handler'[a] = handler[a] /\ retiring'[a] = retiring[a]
        BY <1>7, Zenon DEF Dial, TransferInv, TransferTypeOK
      <3> QED
        BY <3>1, <3>2, Zenon DEF TransferInv, NoLostRetirement
    <2> QED
      BY <2>2, <2>3, <2>4, <2>5, Zenon DEF TransferInv
  <1>8. CASE ProbeLands
    <2>1. TransferTypeOK'
      BY <1>8, Zenon DEF TransferInv, TransferTypeOK, ProbeLands, landVars
    <2>2. Binding' /\ ClientFollows'
      BY <1>8, Zenon DEF TransferInv, Binding, ClientFollows, ProbeLands, landVars
    <2>3. Progress' /\ NoLostRetirement'
      BY <1>8, Zenon DEF TransferInv, Progress, NoLostRetirement, ProbeLands, landVars
    <2> QED
      BY <2>1, <2>2, <2>3, Zenon DEF TransferInv
  <1>9. CASE RelayEnds
    <2>1. TransferTypeOK'
      BY <1>9, ZenonT(60) DEF TransferInv, TransferTypeOK, RelayEnds, landVars
    <2>2. Binding' /\ ClientFollows'
      BY <1>9, Zenon DEF TransferInv, Binding, ClientFollows, RelayEnds, landVars
    <2>3. Progress' /\ NoLostRetirement'
      BY <1>9, Zenon DEF TransferInv, Progress, NoLostRetirement, RelayEnds, landVars
    <2> QED
      BY <2>1, <2>2, <2>3, Zenon DEF TransferInv
  <1> QED
    BY <1>1, <1>2, <1>3, <1>4, <1>5, <1>6, <1>7, <1>8, <1>9, Zenon DEF LineStep

\* Most steps of a handler only move it. A move keeps the invariant when it
\* goes past Open only for a claimed connection, and falls idle only under an
\* active generation.
LEMMA MoveKeeps ==
  ASSUME TransferInv, NEW a \in Attempts,
         NEW place \in {"checking", "registering", "rechecking", "idle", "resumed", "closed"},
         Become(a, place),
         UNCHANGED <<lineVars, wire, lineEnd, got, retiring, woken, answered, claimed, reload>>,
         place = "resumed" => a \in claimed,
         place \notin {"resumed", "closed"} => a \notin claimed,
         place = "idle" => ~Deactivated(a)
  PROVE  TransferInv'
  <1>1. /\ UNCHANGED <<pc, attempt, client, wire, lineEnd, got, retiring, woken, answered,
                       claimed, reload>>
        /\ handler' = [handler EXCEPT ![a] = place]
    BY Zenon DEF lineVars, Become
  <1>2. handler \in [Attempts -> {"none", "accepted", "checking", "registering", "rechecking",
                       "idle", "reading", "dialing", "resumed", "closed"}]
    BY Zenon DEF TransferInv, TransferTypeOK
  <1>3. \A b \in Attempts : handler'[b] = IF b = a THEN place ELSE handler[b]
    BY <1>1, <1>2, Zenon
  <1>4. TransferTypeOK'
    BY <1>1, <1>2 DEF TransferInv, TransferTypeOK
  <1>5. Binding' /\ ClientFollows'
    BY <1>1, Zenon DEF TransferInv, Binding, ClientFollows
  <1>6. Progress'
    BY <1>1, <1>3, ZenonT(60) DEF TransferInv, Progress
  <1>7. NoLostRetirement'
    BY <1>1, <1>3, ZenonT(60) DEF TransferInv, NoLostRetirement, Deactivated
  <1> QED
    BY <1>4, <1>5, <1>6, <1>7, Zenon DEF TransferInv

\* A step of a handler, one by one.
LEMMA LandingKeeps ==
  ASSUME TransferInv, NEW a \in Attempts, LandingStep(a) \/ SessionStep(a)
  PROVE  TransferInv'
  <1>0. /\ MessageLen \in Nat /\ MessageLen # 0
        /\ handler[a] \in {"dialing", "resumed"} => a \in claimed
        /\ handler[a] \notin {"dialing", "resumed", "closed"} => a \notin claimed
    BY MessageAssumption, Zenon DEF TransferInv, Progress
  <1>1. CASE AcquireIdle(a)
    BY <1>0, <1>1, MoveKeeps, Zenon DEF AcquireIdle
  <1>2. CASE CheckActive(a)
    BY <1>0, <1>2, MoveKeeps, Zenon DEF CheckActive
  <1>3. CASE Register(a)
    BY <1>0, <1>3, MoveKeeps, Zenon DEF Register
  <1>4. CASE Recheck(a)
    BY <1>0, <1>4, MoveKeeps, Zenon DEF Recheck
  <1>5. CASE Retired(a) \/ Reclaimed(a) \/ PeerClosed(a)
    BY <1>5, MoveKeeps, Zenon DEF Retired, Reclaimed, PeerClosed
  <1>6. CASE ReadTimesOut(a) \/ ResumedEnds(a)
    BY <1>6, MoveKeeps, Zenon DEF ReadTimesOut, ResumedEnds
  <1>7. CASE DialDestination(a)
    BY <1>0, <1>7, MoveKeeps, Zenon DEF DialDestination
  <1>8. CASE FirstByte(a) /\ Become(a, "closed") /\ UNCHANGED got
    <2>1. Become(a, "closed") BY <1>8, Zenon
    <2>2. UNCHANGED got BY <1>8, Zenon
    <2>3. FirstByte(a) BY <1>8, Zenon
    <2> QED BY <2>1, <2>2, <2>3, MoveKeeps, Zenon DEF FirstByte
  <1>9. CASE FirstByte(a) /\ Become(a, "reading") /\ got' = [got EXCEPT ![a] = 1]
    <2>1. UNCHANGED <<pc, attempt, client, wire, lineEnd, retiring, woken, answered, claimed,
                      reload>> /\ wire[a] > 0 /\ handler[a] = "idle"
      <3>1. FirstByte(a) BY <1>9, Zenon
      <3> QED BY <3>1, Zenon DEF FirstByte, lineVars
    <2>2. handler' = [handler EXCEPT ![a] = "reading"]
      BY <1>9, Zenon DEF Become
    <2>3. TransferTypeOK'
      BY <1>0, <1>9, <2>1, <2>2 DEF TransferInv, TransferTypeOK
    <2>4. Binding' /\ ClientFollows'
      BY <2>1, Zenon DEF TransferInv, Binding, ClientFollows
    <2>5. \A b \in Attempts : /\ got'[b] = IF b = a THEN 1 ELSE got[b]
                             /\ handler'[b] = IF b = a THEN "reading" ELSE handler[b]
      BY <1>9, <2>2, Zenon DEF TransferInv, TransferTypeOK
    <2>6. wire[a] \in Nat /\ 1 <= wire[a] /\ got[a] \in 0..MessageLen /\ wire[a] <= MessageLen
      BY <1>0, <2>1 DEF TransferInv, TransferTypeOK
    <2>7. a \notin claimed
      BY <1>0, <2>1, Zenon
    <2>8. Progress'
      <3>1. ASSUME NEW b \in Attempts, b # a
            PROVE  /\ got'[b] = got[b] /\ handler'[b] = handler[b] /\ wire'[b] = wire[b]
                   /\ answered'[b] = answered[b] /\ claimed' = claimed
        BY <2>1, <2>5, <3>1, Zenon
      <3>2. /\ got'[a] = 1 /\ handler'[a] = "reading" /\ wire'[a] = wire[a]
            /\ answered'[a] = answered[a] /\ claimed' = claimed
        BY <2>1, <2>5, Zenon
      <3>3. got'[a] <= wire'[a] BY <2>6, <3>2, Zenon
      <3>4. ~answered[a] BY <2>7, Zenon DEF TransferInv, Progress
      <3> QED BY <2>7, <3>1, <3>2, <3>3, <3>4, ZenonT(60) DEF TransferInv, Progress
    <2>9. NoLostRetirement'
      BY <2>1, <2>5, Zenon DEF TransferInv, NoLostRetirement
    <2> QED
      BY <2>3, <2>4, <2>8, <2>9, Zenon DEF TransferInv
  <1>10. CASE Read(a)
    <2>1. /\ UNCHANGED <<pc, attempt, client, wire, lineEnd, handler, retiring, woken, answered,
                         claimed, reload>>
          /\ got' = [got EXCEPT ![a] = @ + 1] /\ got[a] < wire[a] /\ handler[a] = "reading"
      BY <1>10, Zenon DEF Read, lineVars
    <2>2. /\ got[a] \in Nat /\ wire[a] \in Nat /\ wire[a] <= MessageLen
          /\ got \in [Attempts -> 0..MessageLen]
      BY <1>0, SMTT(20) DEF TransferInv, TransferTypeOK
    <2>3. got' \in [Attempts -> 0..MessageLen]
      <3>1. got[a] < wire[a] /\ MessageLen \in Nat BY <2>1, MessageAssumption, Zenon
      <3>2. got[a] + 1 \in 0..MessageLen BY <2>2, <3>1
      <3> QED BY <2>1, <2>2, <3>2, Zenon
    <2>4. TransferTypeOK'
      BY <2>1, <2>3, ZenonT(60) DEF TransferInv, TransferTypeOK
    <2>5. Binding' /\ ClientFollows' /\ NoLostRetirement'
      BY <2>1, Zenon DEF TransferInv, Binding, ClientFollows, NoLostRetirement
    <2>6. \A b \in Attempts : got'[b] = IF b = a THEN got[a] + 1 ELSE got[b]
      BY <2>1, <2>2, Zenon
    <2>7. Progress'
      <3> SUFFICES ASSUME NEW b \in Attempts
                   PROVE  /\ got'[b] <= wire'[b]
                          /\ b \in claimed' =>
                                /\ got'[b] = MessageLen
                                /\ handler'[b] \in {"dialing", "resumed", "closed"}
                          /\ handler'[b] \in {"dialing", "resumed"} => b \in claimed'
                          /\ answered'[b] => b \in claimed'
        BY Zenon DEF Progress
      <3>1. a \notin claimed BY <2>1, Zenon DEF TransferInv, Progress
      <3>2. got'[b] <= wire[b]
        <4>1. got[b] <= wire[b] /\ got'[b] = IF b = a THEN got[a] + 1 ELSE got[b]
          BY <2>6, Zenon DEF TransferInv, Progress
        <4>2. got[a] < wire[a] /\ got[a] \in Nat /\ wire[a] \in Nat BY <2>1, <2>2, Zenon
        <4> QED BY <4>1, <4>2
      <3> QED BY <1>0, <2>1, <2>6, <3>1, <3>2, Zenon DEF TransferInv, Progress
    <2> QED
      BY <2>4, <2>5, <2>7, Zenon DEF TransferInv
  <1>11. CASE Open(a) /\ Become(a, "closed") /\ UNCHANGED claimed
    BY <1>11, MoveKeeps, Zenon DEF Open
  <1>12. CASE Open(a) /\ Become(a, "dialing") /\ claimed' = claimed \cup {a}
    <2>1. /\ UNCHANGED <<pc, attempt, client, wire, lineEnd, got, retiring, woken, answered,
                         reload>>
          /\ handler' = [handler EXCEPT ![a] = "dialing"] /\ got[a] = MessageLen
      BY <1>12, Zenon DEF Open, lineVars, Become
    <2>2. TransferTypeOK'
      BY <1>12, <2>1, ZenonT(60) DEF TransferInv, TransferTypeOK
    <2>3. Binding' /\ ClientFollows'
      BY <2>1, Zenon DEF TransferInv, Binding, ClientFollows
    <2>4. \A b \in Attempts : handler'[b] = IF b = a THEN "dialing" ELSE handler[b]
      BY <2>1, Zenon DEF TransferInv, TransferTypeOK
    <2>5. Progress'
      BY <1>12, <2>1, <2>4, ZenonT(60) DEF TransferInv, Progress
    <2>6. NoLostRetirement'
      BY <2>1, <2>4 DEF TransferInv, NoLostRetirement
    <2> QED
      BY <2>2, <2>3, <2>5, <2>6, Zenon DEF TransferInv
  <1>13. CASE Answer(a)
    <2>1. /\ UNCHANGED <<pc, attempt, client, wire, lineEnd, handler, got, retiring, woken,
                         claimed, reload>>
          /\ answered' = [answered EXCEPT ![a] = TRUE] /\ handler[a] = "resumed"
      BY <1>13, Zenon DEF Answer, lineVars, landVars
    <2>2. answered' \in [Attempts -> BOOLEAN]
      BY <2>1, Zenon DEF TransferInv, TransferTypeOK
    <2>3. TransferTypeOK'
      BY <2>1, <2>2, Zenon DEF TransferInv, TransferTypeOK
    <2>4. Binding' /\ ClientFollows' /\ NoLostRetirement'
      BY <2>1, Zenon DEF TransferInv, Binding, ClientFollows, NoLostRetirement
    <2>5. \A b \in Attempts : b # a => answered'[b] = answered[b]
      BY <2>1, Zenon DEF TransferInv, TransferTypeOK
    <2>6. Progress'
      BY <1>0, <2>1, <2>5, Zenon DEF TransferInv, Progress
    <2> QED
      BY <2>3, <2>4, <2>6, Zenon DEF TransferInv
  <1>14. FirstByte(a) =>
            \/ Become(a, "reading") /\ got' = [got EXCEPT ![a] = 1]
            \/ Become(a, "closed") /\ UNCHANGED got
    BY Zenon DEF FirstByte
  <1>15. Open(a) =>
            \/ Become(a, "dialing") /\ claimed' = claimed \cup {a}
            \/ Become(a, "closed") /\ UNCHANGED claimed
    BY Zenon DEF Open
  <1> QED
    BY <1>1, <1>2, <1>3, <1>4, <1>5, <1>6, <1>7, <1>8, <1>9, <1>10, <1>11, <1>12, <1>13,
       <1>14, <1>15, Zenon DEF LandingStep, SessionStep

\* A step of the landing's reload.
LEMMA ReloadKeeps ==
  ASSUME TransferInv, Publish \/ DeactivateSwap \/ DeactivateNotify
  PROVE  TransferInv'
  <1>1. /\ UNCHANGED <<pc, attempt, client, wire, lineEnd, handler, got, answered, claimed>>
        /\ reload' \in {"published", "swapped", "notified"}
    BY Zenon DEF Publish, DeactivateSwap, DeactivateNotify, lineVars, landVars
  <1>2. retiring' \in [Attempts -> BOOLEAN] /\ woken' \in [Attempts -> BOOLEAN]
    <2>1. CASE Publish
      BY <2>1, Zenon DEF TransferInv, TransferTypeOK, Publish
    <2>2. CASE DeactivateSwap
      BY <2>2, Zenon DEF TransferInv, TransferTypeOK, DeactivateSwap, landVars
    <2>3. CASE DeactivateNotify
      BY <2>3, Zenon DEF TransferInv, TransferTypeOK, DeactivateNotify
    <2> QED
      BY <2>1, <2>2, <2>3, Zenon
  <1>3. TransferTypeOK'
    BY <1>1, <1>2, Zenon DEF TransferInv, TransferTypeOK
  <1>4. Binding' /\ ClientFollows' /\ Progress'
    BY <1>1, Zenon DEF TransferInv, Binding, ClientFollows, Progress
  <1>5. NoLostRetirement'
    <2>1. CASE Publish
      BY <2>1, Zenon DEF NoLostRetirement, Publish
    <2>2. CASE DeactivateSwap
      BY <2>2, Zenon DEF NoLostRetirement, DeactivateSwap
    <2>3. CASE DeactivateNotify
      <3>1. \A a \in Attempts : handler[a] = "idle" /\ retiring[a] => woken'[a]
        BY <2>3, Zenon DEF DeactivateNotify
      <3> QED
        BY <1>1, <2>3, <3>1, Zenon DEF NoLostRetirement, DeactivateNotify
    <2> QED
      BY <2>1, <2>2, <2>3, Zenon
  <1> QED
    BY <1>3, <1>4, <1>5, Zenon DEF TransferInv

\* Every step of the line, the landing and the network keeps the invariant.
LEMMA StepKeeps == TransferInv /\ [TransferNext]_transferVars => TransferInv'
  <1> SUFFICES ASSUME TransferInv, [TransferNext]_transferVars PROVE TransferInv'
    BY Zenon
  <1>1. CASE UNCHANGED transferVars
    BY <1>1 DEF transferVars, TransferInv, TransferTypeOK, Binding, Progress, ClientFollows,
                NoLostRetirement
  <1> QED
    BY <1>1, LineKeeps, LandingKeeps, ReloadKeeps, Zenon DEF TransferNext

\* No handler of begin_authentication waits through the retirement of its
\* generation, whatever the order of its load, its registration, its second
\* load and the two steps of deactivate.
THEOREM RetirementIsNeverLost == TransferSafety => []NoLostRetirement
  <1>1. TransferInv => NoLostRetirement
    BY Zenon DEF TransferInv
  <1> QED
    BY <1>1, InitHolds, StepKeeps, PTL DEF TransferSafety
\* Every step of the model is a step of HandoverOnce or leaves it alone.
LEMMA StepHandsOver ==
  ASSUME TransferInv, [TransferNext]_transferVars
  PROVE  [Handover!HandoverNext]_(Handover!handoverVars)
  <1> DEFINE Quiet == UNCHANGED <<claimed, client>>
  <1>0. Quiet => [Handover!HandoverNext]_(Handover!handoverVars)
    BY Zenon DEF Handover!handoverVars
  <1>1. CASE UNCHANGED transferVars
    BY <1>0, <1>1, Zenon DEF transferVars
  <1>2. CASE LineStep \/ Cancel
    <2>1. CASE Checkout \/ (\E n \in 1..MessageLen : Write(n)) \/ Dial
      BY <1>0, <2>1, Zenon DEF Checkout, Write, Dial
    <2>2. ASSUME NEW how \in {"fin", "reset"}, ResetClient(how),
                 pc \in {"start", "write", "dial", "probe"}
          PROVE  Handover!Refuse
      BY <2>2, Zenon DEF ResetClient, Handover!Refuse, TransferInv, ClientFollows
    <2>3. CASE WriteFails /\ attempt = Warm
      BY <1>0, <2>3, Zenon DEF WriteFails, Discard
    <2>4. CASE WriteFails /\ attempt # Warm
      <3>1. Handover!Refuse
        BY <2>2, <2>4, Zenon DEF WriteFails
      <3> QED
        BY <3>1, Zenon DEF Handover!HandoverNext
    <2>5. CASE SealFails \/ DialFails \/ ProbeRejects
      <3>1. Handover!Refuse
        BY <2>2, <2>5, Zenon DEF SealFails, DialFails, ProbeRejects
      <3> QED
        BY <3>1, Zenon DEF Handover!HandoverNext
    <2>6. CASE Cancel
      <3>1. Handover!Refuse
        BY <2>2, <2>6, Zenon DEF Cancel
      <3> QED
        BY <3>1, Zenon DEF Handover!HandoverNext
    <2>7. CASE ProbeLands
      <3>1. /\ client = "open" /\ client' = "served" /\ UNCHANGED claimed
            /\ attempt \in Attempts /\ attempt \in claimed /\ claimed \subseteq Attempts
        BY <2>7, Zenon DEF ProbeLands, TransferInv, TransferTypeOK, ClientFollows, Progress
      <3>2. \A a \in claimed : a \in Attempts /\ wire[a] = MessageLen
        <4> TAKE a \in claimed
        <4>1. a \in Attempts /\ got[a] = MessageLen /\ got[a] <= wire[a]
          BY <3>1, Zenon DEF TransferInv, Progress
        <4>2. wire[a] \in 0..MessageLen /\ MessageLen \in Nat
          BY <4>1, MessageAssumption, Zenon DEF TransferInv, TransferTypeOK
        <4> QED
          BY <4>1, <4>2
      <3>3. claimed = {attempt}
        BY <3>1, <3>2, OneComplete, ZenonT(60) DEF TransferInv
      <3>4. Handover!Serve(attempt)
        BY <3>1, <3>3, Zenon DEF Handover!Serve
      <3> QED
        BY <3>1, <3>4, Zenon DEF Handover!HandoverNext
    <2> QED
      BY <1>2, <2>1, <2>3, <2>4, <2>5, <2>6, <2>7, Zenon DEF LineStep
  <1>3. CASE RelayEnds
    <2>1. Handover!Finish
      BY <1>3, Zenon DEF RelayEnds, landVars, Handover!Finish, TransferInv, ClientFollows
    <2> QED
      BY <2>1, Zenon DEF Handover!HandoverNext
  <1>4. ASSUME NEW a \in Attempts, LandingStep(a) \/ SessionStep(a)
        PROVE  [Handover!HandoverNext]_(Handover!handoverVars)
    <2>1. CASE Open(a) /\ claimed' = claimed \cup {a}
      <3>1. got[a] = MessageLen /\ UNCHANGED client
        BY <2>1, Zenon DEF Open, lineVars
      <3>2. \A b \in claimed \cup {a} : b \in Attempts /\ wire[b] = MessageLen
        <4> TAKE b \in claimed \cup {a}
        <4>1. b \in Attempts /\ got[b] = MessageLen /\ got[b] <= wire[b]
          BY <3>1, Zenon DEF TransferInv, TransferTypeOK, Progress
        <4>2. wire[b] \in 0..MessageLen /\ MessageLen \in Nat
          BY <4>1, MessageAssumption, Zenon DEF TransferInv, TransferTypeOK
        <4> QED
          BY <4>1, <4>2
      <3>3. \A b \in claimed : b = a
        BY <3>2, OneComplete DEF TransferInv
      <3>4. CASE claimed = {}
        <4>1. Handover!Claim(a)
          BY <2>1, <3>1, <3>4, Zenon DEF Handover!Claim
        <4> QED
          BY <4>1, Zenon DEF Handover!HandoverNext
      <3>5. CASE claimed # {}
        BY <1>0, <2>1, <3>1, <3>3, <3>5, Zenon
      <3> QED
        BY <3>4, <3>5, Zenon
    <2>2. Open(a) => claimed' = claimed \cup {a} \/ UNCHANGED claimed
      BY Zenon DEF Open
    <2>3. UNCHANGED client
      BY <1>4, Zenon DEF LandingStep, SessionStep, AcquireIdle, CheckActive, Register, Recheck,
         Retired, Reclaimed, FirstByte, PeerClosed, Read, ReadTimesOut, Open, DialDestination, Answer,
         ResumedEnds, lineVars
    <2>4. ~Open(a) => UNCHANGED claimed
      BY <1>4, Zenon DEF LandingStep, SessionStep, AcquireIdle, CheckActive, Register, Recheck,
         Retired, Reclaimed, FirstByte, PeerClosed, Read, ReadTimesOut, DialDestination, Answer,
         ResumedEnds
    <2> QED
      BY <1>0, <2>1, <2>2, <2>3, <2>4, Zenon
  <1>5. CASE Publish \/ DeactivateSwap \/ DeactivateNotify
    BY <1>0, <1>5, Zenon DEF Publish, DeactivateSwap, DeactivateNotify, lineVars
  <1> QED
    BY <1>1, <1>2, <1>3, <1>4, <1>5, Zenon DEF TransferNext

\* relay_via_handoff and HandoffLanding::handle hand a session over at most
\* once, serve the client only over the connection that was handed the
\* session, and never end an unserved client's stream in order.
THEOREM TransferImplementsHandover == TransferSafety => ImplementsHandover
  <1>1. TransferInit => Handover!HandoverInit
    BY Zenon DEF TransferInit, Handover!HandoverInit
  <1> QED
    BY <1>1, InitHolds, StepKeeps, StepHandsOver, PTL
       DEF TransferSafety, ImplementsHandover, Handover!HandoverSpec

-----------------------------------------------------------------------------
(* Key updates *)

\* The inductive invariant.  An answer covers requests only while it is being
\* written; the batch is empty while a KeyUpdate is; and a key always has room
\* for one more record, the KeyUpdate, when a slot is checked.
KeyUpdateInv ==
    /\ KeyUpdateTypeOK
    /\ OwedIsRemembered
    /\ answering # {} => writer \in {"taken", "failed"}
    /\ generation = peerGeneration /\ \A g \in unsent : g = peerGeneration
    /\ writer \in {"update", "sealed", "taken"} => unsent = {}
    /\ writer \in {"slot", "seal", "update", "sealed", "taken"} => remaining >= 1
    /\ writer \in {"idle", "slot", "flush", "update"} => sequence <= KeyLimit - 1
    /\ writer = "seal" => sequence < KeyLimit - 1

\* A new connection owes nothing and has sealed nothing.
LEMMA KeyUpdateInitInv == KeyUpdateInit => KeyUpdateInv
<1> SUFFICES ASSUME KeyUpdateInit PROVE KeyUpdateInv BY Zenon
<1>1. /\ partial \in 0 .. UpdateLen - 1 /\ asked \in 0 .. MaxRequests
      /\ remaining \in 0 .. BatchSlots /\ sequence \in 0 .. KeyLimit
  BY KeyUpdateAssumption DEF KeyUpdateInit
<1>2. KeyUpdateTypeOK BY <1>1, Zenon DEF KeyUpdateInit, KeyUpdateTypeOK
<1> QED BY <1>2, KeyUpdateAssumption DEF KeyUpdateInit, KeyUpdateInv, OwedIsRemembered

\* The reader, at any moment of the writer's.
LEMMA ReaderKeeps ==
    ASSUME KeyUpdateInv,
           \/ \E n \in 1 .. UpdateLen, requested \in BOOLEAN : ReadFragment(n, requested)
           \/ ReadInterrupted
    PROVE  KeyUpdateInv'
<1> USE KeyUpdateAssumption DEF KeyUpdateInv, OwedIsRemembered, recordVars
<1>1. ASSUME NEW n \in 1 .. UpdateLen, NEW requested \in BOOLEAN, ReadFragment(n, requested)
      PROVE  KeyUpdateInv'
  <2>1. readerOpen' \in BOOLEAN /\ partial' \in 0 .. UpdateLen - 1
    BY <1>1 DEF ReadFragment, KeyUpdateTypeOK
  <2>2. \/ UNCHANGED <<responseObserved, asked, owed>>
        \/ /\ responseObserved' = TRUE /\ asked' = asked + 1 /\ asked < MaxRequests
           /\ owed' = owed \cup {asked + 1}
    BY <1>1, Zenon DEF ReadFragment
  <2>3. UNCHANGED <<responsePending, writer, recordVars, answering>> BY <1>1, Zenon DEF ReadFragment
  <2>4. /\ responseObserved' \in BOOLEAN /\ asked' \in 0 .. MaxRequests
        /\ owed' \subseteq 1 .. MaxRequests /\ answering \subseteq owed'
    <3>1. CASE UNCHANGED <<responseObserved, asked, owed>> BY <3>1, Zenon DEF KeyUpdateTypeOK
    <3>2. CASE /\ responseObserved' = TRUE /\ asked' = asked + 1 /\ asked < MaxRequests
               /\ owed' = owed \cup {asked + 1}
      BY <3>2 DEF KeyUpdateTypeOK
    <3> QED BY <2>2, <3>1, <3>2, Zenon
  <2>5. KeyUpdateTypeOK' BY <2>1, <2>3, <2>4, Zenon DEF KeyUpdateTypeOK
  <2> QED BY <2>2, <2>3, <2>5, Zenon
<1>2. CASE ReadInterrupted
  BY <1>2, ZenonT(60) DEF ReadInterrupted, flags, KeyUpdateTypeOK
<1> QED BY <1>1, <1>2, Zenon

\* The write side seals, answers and hands off without forgetting a request.
LEMMA WriterKeeps ==
    ASSUME KeyUpdateInv,
           \/ BeginBatch \/ CheckSlot \/ SealUpdate \/ TakeResponse \/ WriteUpdate
           \/ SealSlot \/ WriteBatch \/ WriteInterrupted \/ Handoff
    PROVE  KeyUpdateInv'
<1> USE KeyUpdateAssumption
    DEF KeyUpdateInv, KeyUpdateTypeOK, OwedIsRemembered, flags, readerVars, recordVars
<1>1. CASE BeginBatch BY <1>1, SMTT(20) DEF BeginBatch
<1>2. CASE CheckSlot
  <2>1. CASE UpdateDue BY <1>2, <2>1, Zenon DEF CheckSlot, UnsentBeforeUpdate
  <2>2. CASE ~UpdateDue 
    <3>1. sequence < KeyLimit - 1 BY <2>2, SMTT(20) DEF UpdateDue, NeedsKeyUpdate
    <3> QED BY <1>2, <2>2, <3>1, Zenon DEF CheckSlot
  <2> QED BY <2>1, <2>2, Zenon
<1>3. CASE SealUpdate BY <1>3 DEF SealUpdate
<1>4. CASE TakeResponse BY <1>4, Zenon DEF TakeResponse
<1>5. CASE WriteUpdate BY <1>5, SMTT(20) DEF WriteUpdate
<1>6. CASE SealSlot BY <1>6, SMTT(20) DEF SealSlot
<1>7. CASE WriteBatch BY <1>7, Zenon DEF WriteBatch
<1>8. CASE WriteInterrupted BY <1>8, Zenon DEF WriteInterrupted
<1>9. CASE Handoff BY <1>9, Zenon DEF Handoff, CarriedOver
<1> QED BY <1>1, <1>2, <1>3, <1>4, <1>5, <1>6, <1>7, <1>8, <1>9, Zenon

\* KeyUpdateInv is an invariant of the connection.
LEMMA KeyUpdateInvHolds == KeyUpdateSpec => []KeyUpdateInv
<1>1. KeyUpdateInv /\ [KeyUpdateNext]_kuVars => KeyUpdateInv'
  <2> SUFFICES ASSUME KeyUpdateInv, [KeyUpdateNext]_kuVars PROVE KeyUpdateInv' BY Zenon
  <2>1. CASE UNCHANGED kuVars
    BY <2>1, ZenonT(60) DEF kuVars, flags, readerVars, recordVars, KeyUpdateInv, KeyUpdateTypeOK,
                OwedIsRemembered
  <2> QED BY <2>1, ReaderKeeps, WriterKeeps, Zenon DEF KeyUpdateNext
<1> QED BY <1>1, KeyUpdateInitInv, PTL DEF KeyUpdateSpec

\* Every peer request not yet answered is remembered by one of the two flags, or
\* its answer is being written (write_key_update_if_needed).
THEOREM OwedIsAlwaysRemembered == KeyUpdateSpec => []OwedIsRemembered
<1>1. KeyUpdateInv => OwedIsRemembered BY Zenon DEF KeyUpdateInv
<1> QED BY <1>1, KeyUpdateInvHolds, PTL

\* The peer can open every record on the wire: records are sealed under the key
\* the peer has been told to use.
THEOREM RecordsAreAlwaysReadable == KeyUpdateSpec => []RecordsAreReadable
<1>1. KeyUpdateInv => RecordsAreReadable
  BY KeyUpdateAssumption DEF KeyUpdateInv, RecordsAreReadable, KeyUpdateTypeOK
<1> QED BY <1>1, KeyUpdateInvHolds, PTL

-----------------------------------------------------------------------------
(* Path MTU discovery, for every floor, base, maximum and granularity, and  *)
(* for every timer, probe budget and number of changes of the path.        *)

\* PmtuProber, as a set of records.
ProberType ==
    [current : Size, ceiling : Size, max : Size,
     phase : {"Fixed", "Search", "Complete"}, high : Size,
     raise : 0 .. RaiseInterval, confirm : 0 .. ConfirmInterval,
     validated : BOOLEAN, out : Outstanding \cup {NoProbe}]

\* The limit, the ceiling and the interval of the search are ordered, so none
\* of the prober's unsigned subtractions wraps.
Ordered(p) ==
    /\ p.current <= p.ceiling /\ p.ceiling <= p.max
    /\ p.phase = "Search" => p.current <= p.high /\ p.high <= p.ceiling

\* The outstanding probe asks about the prober as it is now: a confirmation
\* about the limit in force, a search about a size of the interval above it.
ProbeIsCurrent(p) ==
    p.out # NoProbe =>
        /\ p.phase # "Fixed"
        /\ p.out.purpose = "Confirm" => p.out.size = p.current
        /\ p.out.purpose = "Search" =>
              p.phase = "Search" /\ p.current < p.out.size /\ p.out.size <= p.high

ProberOK(p) == p \in ProberType /\ Ordered(p) /\ ProbeIsCurrent(p)

\* The inductive invariant.
MtuInv == MtuTypeOK /\ ProberOK(prober)

\* The sizes a channel packet may have.
LEMMA SizeFacts ==
    /\ Size \subseteq Nat /\ MinPlpmtu \in Size /\ BasePlpmtu \in Size /\ MaxPlpmtu \in Size
    /\ \A n \in Size : MinPlpmtu <= n /\ n <= MaxPlpmtu
    /\ \A n \in Int : MinPlpmtu <= n /\ n <= MaxPlpmtu => n \in Size
  BY SizesAssumption DEF Size

\* Sizes are ordered.
LEMMA SizeOrder ==
    /\ \A a \in Size : a <= a
    /\ \A a, b \in Size : (a <= b <=> ~(a > b)) /\ (a < b => a <= b)
    /\ \A a, b, c \in Size : a <= b /\ b <= c => a <= c
    /\ \A a, b, c \in Size : a <= b /\ b < c => a < c
  BY SizesAssumption DEF Size

\* The lesser of two sizes.
LEMMA LesserSize ==
    ASSUME NEW a \in Size, NEW b \in Size
    PROVE  /\ Lesser(a, b) \in Size /\ Lesser(a, b) <= a /\ Lesser(a, b) <= b
           /\ a <= b => Lesser(a, b) = a
           /\ \A x \in Size : x <= a /\ x <= b => x <= Lesser(a, b)
  BY SizesAssumption DEF Size, Lesser

\* The bound below a refused size, but not below the limit.
LEMMA BoundBelow ==
    ASSUME NEW a \in Size, NEW b \in Size, NEW n \in Size, n <= a
    PROVE  /\ Greater(Lesser(a, b - 1), n) \in Size
           /\ n <= Greater(Lesser(a, b - 1), n) /\ Greater(Lesser(a, b - 1), n) <= a
  BY SizesAssumption DEF Size, Lesser, Greater

\* The interval below a lost search probe.
LEMMA IntervalBelow ==
    ASSUME NEW h \in Size, NEW b \in Size, NEW n \in Size, n < b, b <= h
    PROVE  Lesser(h, b - 1) \in Size /\ n <= Lesser(h, b - 1) /\ Lesser(h, b - 1) <= h
  BY SizesAssumption DEF Size, Lesser

\* A fall-back goes down, and leaves an interval below the failed limit.
LEMMA FallBackSize ==
    ASSUME NEW a \in Size
    PROVE  /\ FallBack(a) \in Size /\ FallBack(a) <= a
           /\ Greater(a - 1, FallBack(a)) \in Size
           /\ FallBack(a) <= Greater(a - 1, FallBack(a)) /\ Greater(a - 1, FallBack(a)) <= a
<1>1. FallBack(a) \in Size /\ FallBack(a) <= a BY SizesAssumption DEF FallBack, Size
<1> QED BY <1>1, SizesAssumption DEF Size, Greater

\* A countdown stays within its range.
LEMMA CountDown ==
    ASSUME NEW m \in Nat
    PROVE  0 \in 0 .. m /\ m \in 0 .. m /\ \A n \in 0 .. m : Greater(n - 1, 0) \in 0 .. m
  BY DEF Greater

\* A timer set, and a timer that ran out.
LEMMA TimerFacts ==
    /\ {ProbeTimeout, ConfirmInterval, RaiseInterval} \subseteq Nat
    /\ ProbeTimeout \in 0 .. ProbeTimeout
    /\ 0 \in 0 .. ConfirmInterval /\ ConfirmInterval \in 0 .. ConfirmInterval
    /\ 0 \in 0 .. RaiseInterval /\ RaiseInterval \in 0 .. RaiseInterval
    /\ 0 \in 0 .. MaxPathChanges
  BY TimersAssumption

\* A probe is told from its absence by its size, and launch makes a probe.
LEMMA ProbeTypes ==
    /\ \A o \in Outstanding : o # NoProbe
    /\ \A size \in Size, purpose \in {"Search", "Confirm"} :
          [size |-> size, attempts |-> 1, left |-> ProbeTimeout,
           purpose |-> purpose, arrived |-> FALSE] \in Outstanding
<1>1. \A o \in Outstanding : o.size \in Size BY Zenon DEF Outstanding
<1>2. 0 \notin Size BY SizesAssumption DEF Size
<1>3. NoProbe.size = 0 BY Zenon DEF NoProbe
<1>4. 1 \in 1 .. MaxProbes /\ ProbeTimeout \in 0 .. ProbeTimeout BY TimersAssumption
<1> QED BY <1>1, <1>2, <1>3, <1>4, Zenon DEF Outstanding

\* A probe that asks about the prober as it is may be launched.
LEMMA LaunchKeeps ==
    ASSUME NEW p, p \in ProberType, Ordered(p), p.phase # "Fixed", NEW size \in Size,
           NEW purpose \in {"Search", "Confirm"},
           purpose = "Confirm" => size = p.current,
           purpose = "Search" => p.phase = "Search" /\ p.current < size /\ size <= p.high
    PROVE  ProberOK(Launch(p, size, purpose)) /\ Launch(p, size, purpose).current = p.current
<1> DEFINE o == [size |-> size, attempts |-> 1, left |-> ProbeTimeout,
                 purpose |-> purpose, arrived |-> FALSE]
           q == [p EXCEPT !.out = o]
<1>1. o \in Outstanding BY ProbeTypes, Zenon
<1>2. o.size = size /\ o.purpose = purpose BY Zenon
<1>3. Launch(p, size, purpose) = q BY Zenon DEF Launch
<1> HIDE DEF o
<1>4. /\ q.current = p.current /\ q.ceiling = p.ceiling /\ q.max = p.max
      /\ q.phase = p.phase /\ q.high = p.high /\ q.out = o
  BY Zenon DEF ProberType
<1>5. q \in ProberType BY <1>1, Zenon DEF ProberType
<1> HIDE DEF q
<1> QED BY <1>2, <1>3, <1>4, <1>5, Zenon DEF ProberOK, Ordered, ProbeIsCurrent

\* A lost confirmation falls back below the limit, a lost search narrows the
\* interval, and neither raises the limit.
LEMMA LostKeeps ==
    ASSUME NEW p, ProberOK(p), p.out # NoProbe
    PROVE  /\ ProbeLost(p) \in ProberType /\ Ordered(ProbeLost(p))
           /\ ProbeLost(p).phase # "Fixed" /\ ProbeLost(p).out = NoProbe
           /\ ProbeLost(p).current <= p.current
<1> DEFINE f == FallBack(p.current)
           g == Greater(p.current - 1, f)
           l == Lesser(p.high, p.out.size - 1)
<1>0. /\ p \in ProberType /\ p.phase # "Fixed" /\ p.out \in Outstanding
      /\ p.current \in Size /\ p.ceiling \in Size /\ p.max \in Size /\ p.high \in Size
      /\ p.out.size \in Size
  BY Zenon DEF ProberOK, ProberType, ProbeIsCurrent, Outstanding
<1>1. f \in Size /\ f <= p.current BY <1>0, FallBackSize, Zenon
<1>2. g \in Size /\ f <= g /\ g <= p.current BY <1>0, FallBackSize, Zenon
<1>3. ConfirmInterval \in 0 .. ConfirmInterval BY TimerFacts, Zenon
<1>4. CASE p.out.purpose = "Confirm"
  <2> DEFINE q == [p EXCEPT !.out = NoProbe, !.current = f, !.phase = "Search", !.validated = FALSE,
                            !.high = g, !.confirm = ConfirmInterval]
  <2>1. ProbeLost(p) = q BY <1>0, <1>4, Zenon DEF ProbeLost, ProberType
  <2> HIDE DEF f, g
  <2>2. /\ q.current = f /\ q.ceiling = p.ceiling /\ q.max = p.max
        /\ q.phase = "Search" /\ q.high = g /\ q.out = NoProbe
    BY <1>0, Zenon DEF ProberType
  <2>3. q \in ProberType BY <1>0, <1>1, <1>2, <1>3, Zenon DEF ProberType
  <2> HIDE DEF q
  <2>4. Ordered(q) BY <1>0, <1>1, <1>2, <2>2, SizeOrder, Zenon DEF Ordered, ProberOK
  <2> QED BY <1>1, <2>1, <2>2, <2>3, <2>4, Zenon
<1>5. CASE p.out.purpose # "Confirm"
  <2>0. p.phase = "Search" /\ p.current < p.out.size /\ p.out.size <= p.high
    BY <1>0, <1>5, Zenon DEF ProberOK, ProbeIsCurrent, Outstanding
  <2>1. l \in Size /\ p.current <= l /\ l <= p.high BY <1>0, <2>0, IntervalBelow, Zenon
  <2> DEFINE q == [p EXCEPT !.out = NoProbe, !.high = l]
  <2>2. ProbeLost(p) = q BY <1>0, <1>5, <2>0, Zenon DEF ProbeLost, ProberType
  <2> HIDE DEF l
  <2>3. /\ q.current = p.current /\ q.ceiling = p.ceiling /\ q.max = p.max
        /\ q.phase = "Search" /\ q.high = l /\ q.out = NoProbe
    BY <1>0, <2>0, Zenon DEF ProberType
  <2>4. q \in ProberType BY <1>0, <2>1, Zenon DEF ProberType
  <2> HIDE DEF q
  <2>5. Ordered(q) BY <1>0, <2>0, <2>1, <2>3, SizeOrder, Zenon DEF Ordered, ProberOK
  <2>6. q.current <= p.current BY <1>0, <2>3, SizeOrder, Zenon
  <2> QED BY <2>2, <2>3, <2>4, <2>5, <2>6, Zenon
<1> QED BY <1>4, <1>5, Zenon

\* The next probed size is above the limit and within the interval.
LEMMA HalfwayIsInside ==
    ASSUME NEW low \in Size, NEW high \in Size, high - low >= Granularity
    PROVE  Halfway(low, high) \in Size /\ low < Halfway(low, high) /\ Halfway(low, high) <= high
<1>1. low < high BY SizesAssumption, SizeFacts
<1> DEFINE h == (high - low + 1) \div 2
<1>2. h \in Int /\ 1 <= h /\ h <= high - low BY <1>1, SizeFacts
<1> HIDE DEF h
<1>3. Halfway(low, high) = low + h BY Zenon DEF Halfway, h
<1> QED BY <1>2, <1>3, SizeFacts

\* A prober without an outstanding probe is left by poll as good as it was,
\* with the same limit.
LEMMA SearchKeeps ==
    ASSUME NEW p, p \in ProberType, Ordered(p), p.phase = "Search", p.out = NoProbe
    PROVE  ProberOK(SearchOn(p)) /\ SearchOn(p).current = p.current
<1>0. p.current \in Size /\ p.high \in Size /\ p.validated \in BOOLEAN BY Zenon DEF ProberType
<1>1. CASE ~p.validated
  <2>1. SearchOn(p) = Launch(p, p.current, "Confirm") BY <1>1, Zenon DEF SearchOn
  <2> QED BY <1>0, <2>1, LaunchKeeps, Zenon
<1>2. CASE p.validated /\ p.high - p.current < Granularity
  <2> DEFINE q == [p EXCEPT !.phase = "Complete", !.raise = RaiseInterval, !.confirm = ConfirmInterval]
  <2>1. SearchOn(p) = q BY <1>2, Zenon DEF SearchOn
  <2>2. RaiseInterval \in 0 .. RaiseInterval /\ ConfirmInterval \in 0 .. ConfirmInterval
    BY TimerFacts, Zenon
  <2>3. q \in ProberType BY <2>2, Zenon DEF ProberType
  <2>4. /\ q.current = p.current /\ q.ceiling = p.ceiling /\ q.max = p.max
        /\ q.phase = "Complete" /\ q.out = p.out
    BY Zenon DEF ProberType
  <2> HIDE DEF q
  <2>5. q.phase # "Search" BY <2>4, Zenon
  <2> QED BY <2>1, <2>3, <2>4, <2>5, Zenon DEF ProberOK, Ordered, ProbeIsCurrent
<1>3. CASE p.validated /\ ~(p.high - p.current < Granularity)
  <2>1. SearchOn(p) = Launch(p, Halfway(p.current, p.high), "Search") BY <1>3, Zenon DEF SearchOn
  <2>2. p.high - p.current >= Granularity BY <1>0, <1>3, SizesAssumption DEF Size
  <2>3. /\ Halfway(p.current, p.high) \in Size /\ p.current < Halfway(p.current, p.high)
        /\ Halfway(p.current, p.high) <= p.high
    BY <1>0, <2>2, HalfwayIsInside, Zenon
  <2> HIDE DEF Halfway
  <2>4. "Search" # "Confirm" BY Zenon
  <2> QED BY <2>1, <2>3, <2>4, LaunchKeeps, ZenonT(60)
<1> QED BY <1>0, <1>1, <1>2, <1>3, Zenon

\* A completed search confirms its limit when that is due.
LEMMA ConfirmedKeeps ==
    ASSUME NEW p, p \in ProberType, Ordered(p), p.phase = "Complete", p.out = NoProbe
    PROVE  ProberOK(Confirmed(p)) /\ Confirmed(p).current = p.current
<1>1. CASE p.confirm > 0
  BY <1>1, Zenon DEF Confirmed, ProberOK, ProbeIsCurrent
<1>2. CASE ~(p.confirm > 0)
  <2> DEFINE q == [p EXCEPT !.confirm = ConfirmInterval]
  <2>1. Confirmed(p) = Launch(q, p.current, "Confirm") BY <1>2, Zenon DEF Confirmed
  <2>2. ConfirmInterval \in 0 .. ConfirmInterval BY TimerFacts, Zenon
  <2>3. q \in ProberType /\ p.current \in Size BY <2>2, Zenon DEF ProberType
  <2>4. /\ q.current = p.current /\ q.ceiling = p.ceiling /\ q.max = p.max
        /\ q.phase = "Complete" /\ q.high = p.high
    BY Zenon DEF ProberType
  <2> HIDE DEF q
  <2>5. q.phase # "Fixed" /\ q.phase # "Search" BY <2>4, Zenon
  <2>6. Ordered(q) BY <2>4, <2>5, Zenon DEF Ordered
  <2>7. "Search" # "Confirm" BY Zenon
  <2> QED BY <2>1, <2>3, <2>4, <2>5, <2>6, <2>7, LaunchKeeps, ZenonT(60)
<1> QED BY <1>1, <1>2, Zenon

\* A raise reconsiders the first ceiling and searches above the limit.
LEMMA CompletedKeeps ==
    ASSUME NEW p, p \in ProberType, Ordered(p), p.phase = "Complete", p.out = NoProbe
    PROVE  ProberOK(Completed(p)) /\ Completed(p).current = p.current
<1>1. CASE p.raise > 0
  BY <1>1, ConfirmedKeeps, Zenon DEF Completed
<1>2. CASE ~(p.raise > 0)
  <2> DEFINE q == [p EXCEPT !.ceiling = p.max]
  <2>1. q \in ProberType BY Zenon DEF ProberType
  <2>2. /\ q.current = p.current /\ q.ceiling = p.max /\ q.max = p.max
        /\ q.phase = "Complete" /\ q.out = NoProbe
    BY Zenon DEF ProberType
  <2>3. Completed(p) = IF q.ceiling - q.current >= Granularity
             THEN Launch([q EXCEPT !.phase = "Search", !.high = q.ceiling],
                         Halfway(q.current, q.ceiling), "Search")
             ELSE Confirmed([q EXCEPT !.raise = RaiseInterval])
    BY <1>2, Zenon DEF Completed
  <2> HIDE DEF q
  <2>4. /\ q.current \in Size /\ q.ceiling \in Size /\ q.max \in Size
        /\ p.current \in Size /\ p.ceiling \in Size
    BY <2>1, Zenon DEF ProberType
  <2>5. q.current <= q.ceiling /\ q.ceiling <= q.max
    BY <2>2, <2>4, SizeOrder, Zenon DEF Ordered
  <2>6. CASE q.ceiling - q.current >= Granularity
    <3> DEFINE r == [q EXCEPT !.phase = "Search", !.high = q.ceiling]
    <3>1. r \in ProberType BY <2>1, Zenon DEF ProberType
    <3>2. /\ r.current = q.current /\ r.ceiling = q.ceiling /\ r.max = q.max
          /\ r.phase = "Search" /\ r.high = q.ceiling
      BY <2>1, Zenon DEF ProberType
    <3>3. Completed(p) = Launch(r, Halfway(q.current, q.ceiling), "Search") BY <2>3, <2>6, Zenon
    <3> HIDE DEF r
    <3>4. q.ceiling <= q.ceiling BY <2>4, SizeOrder, Zenon
    <3>5. Ordered(r) BY <2>5, <3>2, <3>4, Zenon DEF Ordered
    <3>6. /\ Halfway(q.current, q.ceiling) \in Size /\ q.current < Halfway(q.current, q.ceiling)
          /\ Halfway(q.current, q.ceiling) <= q.ceiling
      BY <2>4, <2>6, HalfwayIsInside, Zenon
    <3>7. "Search" # "Confirm" /\ r.phase # "Fixed" BY <3>2, Zenon
    <3> QED BY <2>2, <3>1, <3>2, <3>3, <3>5, <3>6, <3>7, LaunchKeeps, ZenonT(60)
  <2>7. CASE ~(q.ceiling - q.current >= Granularity)
    <3> DEFINE r == [q EXCEPT !.raise = RaiseInterval]
    <3>0. RaiseInterval \in 0 .. RaiseInterval BY TimerFacts, Zenon
    <3>1. r \in ProberType BY <2>1, <3>0, Zenon DEF ProberType
    <3>2. /\ r.current = q.current /\ r.ceiling = q.ceiling /\ r.max = q.max
          /\ r.phase = "Complete" /\ r.out = NoProbe
      BY <2>1, <2>2, Zenon DEF ProberType
    <3>3. Completed(p) = Confirmed(r) BY <2>3, <2>7, Zenon
    <3> HIDE DEF r
    <3>4. r.phase # "Search" BY <3>2, Zenon
    <3>5. Ordered(r) BY <2>5, <3>2, <3>4, Zenon DEF Ordered
    <3> QED BY <2>2, <3>1, <3>2, <3>3, <3>5, ConfirmedKeeps, Zenon
  <2> QED BY <2>6, <2>7, Zenon
<1> QED BY <1>1, <1>2, Zenon

\* Another transmission of the outstanding probe, or its arrival, changes
\* nothing it asks about.
LEMMA SameProbeKeeps ==
    ASSUME NEW p, ProberOK(p), p.out # NoProbe, NEW o \in Outstanding,
           o.size = p.out.size, o.purpose = p.out.purpose,
           NEW q, q = [p EXCEPT !.out = o]
    PROVE  ProberOK(q) /\ q.current = p.current
<1>1. /\ q.current = p.current /\ q.ceiling = p.ceiling /\ q.max = p.max
      /\ q.phase = p.phase /\ q.high = p.high /\ q.out = o
  BY Zenon DEF ProberOK, ProberType
<1>2. q \in ProberType BY Zenon DEF ProberOK, ProberType
<1> QED BY <1>1, <1>2, Zenon DEF ProberOK, Ordered, ProbeIsCurrent

\* poll keeps the prober's invariant and never raises the limit.
LEMMA PolledKeeps ==
    ASSUME NEW p, ProberOK(p), p.phase # "Fixed"
    PROVE  ProberOK(Polled(p)) /\ Polled(p).current <= p.current
<1>0. p \in ProberType /\ p.current \in Size BY Zenon DEF ProberOK, ProberType
<1>1. p.current <= p.current BY <1>0, SizeOrder, Zenon
<1>2. ASSUME NEW q, q \in ProberType, Ordered(q), q.phase # "Fixed", q.out = NoProbe
      PROVE  ProberOK(NextPhase(q)) /\ NextPhase(q).current = q.current
  <2>1. q.phase = "Search" \/ q.phase = "Complete" BY <1>2, Zenon DEF ProberType
  <2>2. CASE q.phase = "Search" BY <1>2, <2>2, SearchKeeps, Zenon DEF NextPhase
  <2>3. CASE q.phase # "Search" BY <1>2, <2>1, <2>3, CompletedKeeps, Zenon DEF NextPhase
  <2> QED BY <2>2, <2>3, Zenon
<1>3. CASE p.out = NoProbe
  BY <1>0, <1>1, <1>2, <1>3, Zenon DEF Polled, ProberOK
<1>4. CASE p.out # NoProbe /\ p.out.attempts < MaxProbes
  <2> DEFINE o == [p.out EXCEPT !.attempts = @ + 1, !.left = ProbeTimeout]
  <2>1. p.out \in Outstanding BY <1>0, <1>4, Zenon DEF ProberType
  <2>2. p.out.attempts + 1 \in 1 .. MaxProbes /\ ProbeTimeout \in 0 .. ProbeTimeout
    BY <1>4, <2>1, TimersAssumption DEF Outstanding
  <2>3. o \in Outstanding /\ o.size = p.out.size /\ o.purpose = p.out.purpose
    BY <2>1, <2>2, Zenon DEF Outstanding
  <2>4. Polled(p) = [p EXCEPT !.out.attempts = @ + 1, !.out.left = ProbeTimeout]
    BY <1>4, Zenon DEF Polled
  <2>5. Polled(p) = [p EXCEPT !.out = o] BY <1>0, <2>1, <2>4, Zenon DEF ProberType, Outstanding
  <2> HIDE DEF o
  <2> QED BY <1>1, <1>4, <2>3, <2>5, SameProbeKeeps, Zenon
<1>5. CASE p.out # NoProbe /\ ~(p.out.attempts < MaxProbes)
  <2>1. Polled(p) = NextPhase(ProbeLost(p)) BY <1>5, Zenon DEF Polled
  <2> QED BY <1>2, <1>5, <2>1, LostKeeps, Zenon
<1> QED BY <1>3, <1>4, <1>5, Zenon

\* The kernel refused the probe: it is dropped, and the bound goes below it.
LEMMA TooBigKeeps ==
    ASSUME NEW p, ProberOK(p), p.out # NoProbe
    PROVE  /\ ProberOK(OnProbeTooBig(p, p.out.size))
           /\ OnProbeTooBig(p, p.out.size).current = p.current
<1> DEFINE c == Greater(Lesser(p.ceiling, p.out.size - 1), p.current)
           h == IF p.phase = "Search" THEN Lesser(p.high, c) ELSE p.high
           q == [p EXCEPT !.out = NoProbe, !.ceiling = c, !.high = h]
<1>0. /\ p \in ProberType /\ p.out.size \in Size
      /\ p.current \in Size /\ p.ceiling \in Size /\ p.max \in Size /\ p.high \in Size
  BY Zenon DEF ProberOK, ProberType, Outstanding
<1>1. OnProbeTooBig(p, p.out.size) = q BY <1>0, Zenon DEF OnProbeTooBig, ProberType
<1>2. c \in Size /\ p.current <= c /\ c <= p.ceiling
  BY <1>0, BoundBelow, Zenon DEF ProberOK, Ordered
<1> HIDE DEF c
<1>3. h \in Size /\ (p.phase = "Search" => p.current <= h /\ h <= c)
  BY <1>0, <1>2, LesserSize, Zenon DEF ProberOK, Ordered
<1> HIDE DEF h
<1>4. /\ q.current = p.current /\ q.ceiling = c /\ q.max = p.max
      /\ q.phase = p.phase /\ q.high = h /\ q.out = NoProbe
  BY <1>0, Zenon DEF ProberType
<1>5. q \in ProberType BY <1>0, <1>2, <1>3, Zenon DEF ProberType
<1> HIDE DEF q
<1>6. c <= p.max BY <1>0, <1>2, SizeOrder, Zenon DEF ProberOK, Ordered
<1> QED BY <1>1, <1>2, <1>3, <1>4, <1>5, <1>6, Zenon DEF ProberOK, Ordered, ProbeIsCurrent

\* The limit grows only to the size of the search probe that was
\* outstanding and reached the peer, and not above the ceiling.
Raised ==
    prober'.current > prober.current =>
        /\ prober.out # NoProbe /\ prober.out.arrived /\ prober.out.purpose = "Search"
        /\ prober'.current = prober.out.size /\ prober'.current <= prober.ceiling

\* A step that leaves the path alone and does not raise the limit.
LEMMA MtuStep ==
    ASSUME MtuInv, UNCHANGED pathVars, ProberOK(prober'), prober'.current <= prober.current
    PROVE  MtuInv' /\ Raised
<1>1. prober.current \in Size /\ prober'.current \in Size BY Zenon DEF MtuInv, ProberOK, ProberType
<1>2. ~(prober'.current > prober.current) BY <1>1, SizeOrder, Zenon
<1>3. MtuTypeOK' BY Zenon DEF MtuInv, MtuTypeOK, pathVars, ProberOK, ProberType
<1> QED BY <1>2, <1>3, Zenon DEF MtuInv, Raised

\* poll_probe: what poll returned is sent, lost or refused.
LEMMA PollProbeKeeps ==
    ASSUME MtuInv, PollProbe
    PROVE  MtuInv' /\ Raised
<1> DEFINE p == Polled(prober)
<1>0. ProberOK(prober) /\ prober \in ProberType BY Zenon DEF MtuInv, ProberOK
<1>1. prober.phase # "Fixed"
  BY <1>0, Zenon DEF PollProbe, Due, ProberOK, ProbeIsCurrent
<1>2. ProberOK(p) /\ p.current <= prober.current BY <1>0, <1>1, PolledKeeps, Zenon
<1>3. PICK through \in BOOLEAN :
        prober' = IF p.out = NoProbe THEN p
                  ELSE IF icmp /\ p.out.size > path THEN OnProbeTooBig(p, p.out.size)
                  ELSE [p EXCEPT !.out.arrived = @ \/ (through /\ p.out.size <= path)]
  BY Zenon DEF PollProbe
<1> HIDE DEF p
<1>4. ProberOK(prober') /\ prober'.current = p.current
  <2>1. CASE p.out = NoProbe BY <1>2, <1>3, <2>1, Zenon
  <2>2. CASE p.out # NoProbe /\ icmp /\ p.out.size > path
    BY <1>2, <1>3, <2>2, TooBigKeeps, Zenon
  <2>3. CASE p.out # NoProbe /\ ~(icmp /\ p.out.size > path)
    <3> DEFINE b == p.out.arrived \/ (through /\ p.out.size <= path)
               o == [p.out EXCEPT !.arrived = b]
    <3>1. p \in ProberType /\ p.out \in Outstanding BY <1>2, <2>3, Zenon DEF ProberOK, ProberType
    <3>2. prober' = [p EXCEPT !.out.arrived = @ \/ (through /\ p.out.size <= path)]
      BY <1>3, <2>3, Zenon
    <3>3. prober' = [p EXCEPT !.out.arrived = b] BY <3>1, <3>2, Zenon DEF ProberType, Outstanding
    <3>4. b \in BOOLEAN BY Zenon
    <3> HIDE DEF b
    <3>5. prober' = [p EXCEPT !.out = o] BY <3>1, <3>3, Zenon DEF ProberType, Outstanding
    <3>6. o \in Outstanding /\ o.size = p.out.size /\ o.purpose = p.out.purpose
      BY <3>1, <3>4, Zenon DEF Outstanding
    <3> HIDE DEF o
    <3> QED BY <1>2, <2>3, <3>5, <3>6, SameProbeKeeps, Zenon
  <2> QED BY <2>1, <2>2, <2>3, Zenon
<1>5. UNCHANGED pathVars BY Zenon DEF PollProbe
<1> QED BY <1>2, <1>4, <1>5, MtuStep, Zenon

\* An acknowledgement validates the limit or raises it to the probed size.
LEMMA ProbeAckKeeps ==
    ASSUME MtuInv, ProbeAck
    PROVE  MtuInv' /\ Raised
<1> DEFINE q == [prober EXCEPT !.out = NoProbe]
           size == prober.out.size
<1>0. /\ ProberOK(prober) /\ prober \in ProberType /\ prober.out # NoProbe /\ prober.out.arrived
      /\ UNCHANGED pathVars
      /\ prober' = IF prober.out.purpose = "Confirm"
                   THEN [q EXCEPT !.validated = TRUE, !.confirm = ConfirmInterval]
                   ELSE IF size > q.current /\ size <= q.ceiling
                   THEN [q EXCEPT !.current = size] ELSE q
  BY Zenon DEF MtuInv, ProberOK, ProbeAck
<1>1. /\ q \in ProberType /\ q.current = prober.current /\ q.ceiling = prober.ceiling
      /\ q.max = prober.max /\ q.phase = prober.phase /\ q.high = prober.high /\ q.out = NoProbe
  BY <1>0, Zenon DEF ProberType
<1> HIDE DEF q
<1>2. Ordered(q) BY <1>0, <1>1, Zenon DEF ProberOK, Ordered
<1>3. prober.out \in Outstanding /\ size \in Size /\ prober.current \in Size
  BY <1>0, Zenon DEF ProberType, Outstanding
<1>4. prober.current <= prober.current BY <1>3, SizeOrder, Zenon
<1>5. CASE prober.out.purpose = "Confirm"
  <2> DEFINE r == [q EXCEPT !.validated = TRUE, !.confirm = ConfirmInterval]
  <2>1. ConfirmInterval \in 0 .. ConfirmInterval BY TimerFacts, Zenon
  <2>2. /\ r \in ProberType /\ r.current = q.current /\ r.ceiling = q.ceiling
        /\ r.max = q.max /\ r.phase = q.phase /\ r.high = q.high /\ r.out = NoProbe
    BY <1>1, <2>1, Zenon DEF ProberType
  <2>3. prober' = r BY <1>0, <1>5, Zenon
  <2> HIDE DEF r
  <2>4. ProberOK(r) BY <1>2, <2>2, Zenon DEF ProberOK, Ordered, ProbeIsCurrent
  <2> QED BY <1>0, <1>1, <1>4, <2>2, <2>3, <2>4, MtuStep, Zenon
<1>6. CASE prober.out.purpose # "Confirm" /\ size > q.current /\ size <= q.ceiling
  <2> DEFINE r == [q EXCEPT !.current = size]
  <2>0. prober.out.purpose = "Search" BY <1>3, <1>6, Zenon DEF Outstanding
  <2>1. /\ r \in ProberType /\ r.current = size /\ r.ceiling = q.ceiling
        /\ r.max = q.max /\ r.phase = q.phase /\ r.high = q.high /\ r.out = NoProbe
    BY <1>1, <1>3, Zenon DEF ProberType
  <2>2. prober' = r BY <1>0, <1>6, Zenon
  <2> HIDE DEF r
  <2>3. size <= prober.high BY <1>0, <2>0, Zenon DEF ProberOK, ProbeIsCurrent
  <2>4. Ordered(r) BY <1>1, <1>2, <1>6, <2>1, <2>3, Zenon DEF Ordered
  <2>5. ProberOK(r) BY <2>1, <2>4, Zenon DEF ProberOK, ProbeIsCurrent
  <2>6. MtuTypeOK' BY <1>0, <2>1, <2>2, Zenon DEF MtuInv, MtuTypeOK, pathVars, ProberType
  <2>7. Raised BY <1>0, <1>1, <1>6, <2>0, <2>1, <2>2, Zenon DEF Raised
  <2> QED BY <2>2, <2>5, <2>6, <2>7, Zenon DEF MtuInv
<1>7. CASE prober.out.purpose # "Confirm" /\ ~(size > q.current /\ size <= q.ceiling)
  <2>1. prober' = q BY <1>0, <1>7, Zenon
  <2>2. ProberOK(q) BY <1>1, <1>2, Zenon DEF ProberOK, ProbeIsCurrent
  <2> QED BY <1>0, <1>1, <1>4, <2>1, <2>2, MtuStep, Zenon
<1> QED BY <1>5, <1>6, <1>7, Zenon

\* A refused data packet lowers the limit, and drops a probe above the new
\* ceiling with it, so a confirmation left outstanding still names the limit.
LEMMA SendRefusedKeeps ==
    ASSUME MtuInv, NEW size \in Size, SendRefused(size)
    PROVE  MtuInv' /\ Raised
<1> DEFINE l == LimitAfter(size)
           c == Lesser(prober.ceiling, l)
           n == Lesser(prober.current, c)
           h == IF prober.phase = "Search" THEN Lesser(prober.high, c) ELSE prober.high
           o == IF prober.out # NoProbe /\ prober.out.size > c THEN NoProbe ELSE prober.out
           q == [prober EXCEPT !.ceiling = c, !.current = n, !.high = h, !.out = o]
<1>0. /\ ProberOK(prober) /\ prober \in ProberType /\ path \in Size /\ connected \in BOOLEAN
      /\ prober.current \in Size /\ prober.ceiling \in Size /\ prober.max \in Size
      /\ prober.high \in Size /\ prober.out \in Outstanding \cup {NoProbe}
  BY Zenon DEF MtuInv, MtuTypeOK, ProberOK, ProberType
<1>1. prober' = q BY <1>0, Zenon DEF SendRefused, ProberType
<1>2. UNCHANGED pathVars BY Zenon DEF SendRefused
<1>3. l \in Size
  <2> DEFINE m == IF connected THEN path ELSE IF size > BasePlpmtu THEN BasePlpmtu ELSE MinPlpmtu
             k == Lesser(size - 1, m)
  <2>2. m \in Size BY <1>0, SizesAssumption DEF Size
  <2>3. l = Greater(MinPlpmtu, k) BY Zenon DEF LimitAfter
  <2> HIDE DEF m
  <2>4. k \in Int /\ k <= MaxPlpmtu BY <2>2, SizesAssumption DEF Lesser, Size
  <2> HIDE DEF k, l
  <2> QED BY <2>3, <2>4, SizesAssumption DEF Greater, Size
<1> HIDE DEF l
<1>4. c \in Size /\ c <= prober.ceiling BY <1>0, <1>3, LesserSize, Zenon
<1> HIDE DEF c
<1>5. /\ n \in Size /\ n <= c /\ n <= prober.current
      /\ prober.current <= c => n = prober.current
  BY <1>0, <1>4, LesserSize, ZenonT(60)
<1> HIDE DEF n
<1>6. h \in Size /\ (prober.phase = "Search" => n <= h /\ h <= c)
      /\ \A x \in Size : prober.phase = "Search" /\ x <= c /\ x <= prober.high => x <= h
  <2>1. CASE prober.phase = "Search"
    <3>1. h = Lesser(prober.high, c) BY <2>1, Zenon
    <3>2. n <= prober.high
      BY <1>0, <1>5, <2>1, SizeOrder, Zenon DEF ProberOK, Ordered
    <3> QED BY <1>0, <1>4, <1>5, <3>1, <3>2, LesserSize, Zenon
  <2>2. CASE prober.phase # "Search" BY <1>0, <2>2, Zenon
  <2> QED BY <2>1, <2>2, Zenon
<1> HIDE DEF h
<1>7. o \in Outstanding \cup {NoProbe} /\ (o # NoProbe => o = prober.out /\ prober.out.size <= c)
  <2>1. prober.out # NoProbe => prober.out.size \in Size BY <1>0, Zenon DEF Outstanding
  <2>2. prober.out # NoProbe /\ ~(prober.out.size > c) => prober.out.size <= c
    BY <1>4, <2>1, SizeOrder, Zenon
  <2> QED BY <1>0, <2>2, Zenon
<1> HIDE DEF o
<1>8. /\ q.current = n /\ q.ceiling = c /\ q.max = prober.max
      /\ q.phase = prober.phase /\ q.high = h /\ q.out = o
  BY <1>0, Zenon DEF ProberType
<1>9. q \in ProberType BY <1>0, <1>4, <1>5, <1>6, <1>7, Zenon DEF ProberType
<1> HIDE DEF q
<1>10. c <= prober.max BY <1>0, <1>4, SizeOrder, Zenon DEF ProberOK, Ordered
<1>11. Ordered(q) BY <1>5, <1>6, <1>8, <1>10, Zenon DEF Ordered
<1>12. ASSUME o # NoProbe
       PROVE  /\ prober.phase # "Fixed"
              /\ o.purpose = "Confirm" => o.size = n
              /\ o.purpose = "Search" => prober.phase = "Search" /\ n < o.size /\ o.size <= h
  <2>1. o = prober.out /\ o.size <= c /\ o \in Outstanding /\ prober.out # NoProbe
    BY <1>7, <1>12, Zenon
  <2>2. o.size \in Size BY <2>1, Zenon DEF Outstanding
  <2>3. CASE o.purpose = "Confirm"
    BY <1>0, <1>5, <2>1, <2>3, Zenon DEF ProberOK, ProbeIsCurrent
  <2>4. CASE o.purpose = "Search"
    <3>1. prober.phase = "Search" /\ prober.current < o.size /\ o.size <= prober.high
      BY <1>0, <2>1, <2>4, Zenon DEF ProberOK, ProbeIsCurrent
    <3>2. n < o.size BY <1>0, <1>5, <2>2, <3>1, SizeOrder, ZenonT(60)
    <3>3. prober.phase # "Fixed" /\ o.purpose # "Confirm" BY <2>4, <3>1, Zenon
    <3> QED BY <1>6, <2>1, <2>2, <3>1, <3>2, <3>3, Zenon
  <2> QED BY <2>1, <2>3, <2>4, Zenon DEF Outstanding
<1>13. ProberOK(q) BY <1>8, <1>9, <1>11, <1>12, Zenon DEF ProberOK, ProbeIsCurrent
<1> QED BY <1>1, <1>2, <1>5, <1>8, <1>13, MtuStep, Zenon

\* Time moves on.
LEMMA MtuTickKeeps ==
    ASSUME MtuInv, MtuTick
    PROVE  MtuInv' /\ Raised
<1> DEFINE o == Aged(prober.out)
           a == Greater(prober.raise - 1, 0)
           b == Greater(prober.confirm - 1, 0)
           q == [prober EXCEPT !.raise = a, !.confirm = b, !.out = o]
<1>0. /\ ProberOK(prober) /\ prober \in ProberType /\ prober.out \in Outstanding \cup {NoProbe}
      /\ prober.current \in Size
  BY Zenon DEF MtuInv, ProberOK, ProberType
<1>1. prober' = q BY Zenon DEF MtuTick
<1>2. UNCHANGED pathVars BY Zenon DEF MtuTick
<1>3. a \in 0 .. RaiseInterval /\ b \in 0 .. ConfirmInterval
  BY <1>0, TimerFacts, CountDown, Zenon DEF ProberType
<1>4. /\ o \in Outstanding \cup {NoProbe}
      /\ o # NoProbe => prober.out # NoProbe /\ o.size = prober.out.size /\ o.purpose = prober.out.purpose
  <2>1. CASE prober.out = NoProbe BY <2>1, Zenon DEF Aged
  <2>2. CASE prober.out # NoProbe
    <3>1. prober.out \in Outstanding BY <1>0, <2>2, Zenon
    <3>2. Greater(prober.out.left - 1, 0) \in 0 .. ProbeTimeout
      BY <3>1, TimerFacts, CountDown, Zenon DEF Outstanding
    <3>3. /\ [prober.out EXCEPT !.left = Greater(@ - 1, 0)] \in Outstanding
          /\ [prober.out EXCEPT !.left = Greater(@ - 1, 0)].size = prober.out.size
          /\ [prober.out EXCEPT !.left = Greater(@ - 1, 0)].purpose = prober.out.purpose
      BY <3>1, <3>2, Zenon DEF Outstanding
    <3> QED BY <2>2, <3>3, Zenon DEF Aged
  <2> QED BY <2>1, <2>2, Zenon
<1> HIDE DEF o, a, b
<1>5. /\ q.current = prober.current /\ q.ceiling = prober.ceiling /\ q.max = prober.max
      /\ q.phase = prober.phase /\ q.high = prober.high /\ q.out = o
  BY <1>0, Zenon DEF ProberType
<1>6. q \in ProberType BY <1>0, <1>3, <1>4, Zenon DEF ProberType
<1> HIDE DEF q
<1>7. ProberOK(q) BY <1>0, <1>4, <1>5, <1>6, Zenon DEF ProberOK, Ordered, ProbeIsCurrent
<1>8. prober.current <= prober.current BY <1>0, SizeOrder, Zenon
<1> QED BY <1>1, <1>2, <1>5, <1>7, <1>8, MtuStep, Zenon

\* The path changes behind the prober's back.
LEMMA PathChangesKeeps ==
    ASSUME MtuInv, PathChanges
    PROVE  MtuInv' /\ Raised
<1>1. prober' = prober /\ prober.current \in Size BY Zenon DEF PathChanges, MtuInv, ProberOK, ProberType
<1>2. ~(prober'.current > prober.current) BY <1>1, SizeOrder, Zenon
<1>3. pathChanges' \in 0 .. MaxPathChanges
  BY TimersAssumption DEF PathChanges, MtuInv, MtuTypeOK
<1>4. MtuTypeOK' BY <1>1, <1>3, Zenon DEF PathChanges, MtuInv, MtuTypeOK
<1> QED BY <1>1, <1>2, <1>4, Zenon DEF MtuInv, Raised

\* discover and fixed build a prober that satisfies the invariant.
LEMMA NewProber ==
    ASSUME NEW n \in Size, NEW z \in Size, n <= z, NEW ph \in {"Fixed", "Search"},
           NEW cf \in 0 .. ConfirmInterval, NEW v \in BOOLEAN
    PROVE  ProberOK(Prober(n, ph, z, cf, v))
<1> DEFINE q == Prober(n, ph, z, cf, v)
<1>1. z <= z /\ 0 \in 0 .. RaiseInterval BY TimerFacts, SizeOrder, Zenon
<1>2. q \in ProberType BY <1>1, Zenon DEF Prober, ProberType
<1>3. q.current = n /\ q.ceiling = z /\ q.max = z /\ q.high = z /\ q.out = NoProbe
  BY Zenon DEF Prober
<1>4. Prober(n, ph, z, cf, v) = q BY Zenon
<1> HIDE DEF q
<1> QED BY <1>1, <1>2, <1>3, <1>4, Zenon DEF ProberOK, Ordered, ProbeIsCurrent

\* Every start of prober_for satisfies the invariant.
LEMMA MtuInitially == MtuInit => MtuInv
<1> SUFFICES ASSUME MtuInit PROVE MtuInv BY Zenon
<1>0. 0 \in 0 .. ConfirmInterval /\ ConfirmInterval \in 0 .. ConfirmInterval
      /\ 0 \in 0 .. MaxPathChanges
  BY TimerFacts, Zenon
<1>1. ASSUME NEW n \in Size, prober = FixedAt(n) PROVE ProberOK(prober)
  <2>1. n <= n BY SizeOrder, Zenon
  <2> QED BY <1>0, <1>1, <2>1, NewProber, Zenon DEF FixedAt
<1>2. ASSUME NEW c \in Size, prober = Discover(c) PROVE ProberOK(prober)
  <2>1. Lesser(BasePlpmtu, c) \in Size /\ Lesser(BasePlpmtu, c) <= c
    BY SizeFacts, LesserSize, Zenon
  <2> QED BY <1>0, <1>2, <2>1, NewProber, Zenon DEF Discover
<1>3. (IF connected THEN path .. MaxPlpmtu ELSE {MaxPlpmtu}) \subseteq Size
  BY SizesAssumption DEF MtuInit, Size
<1>4. \/ \E n \in Size : prober = FixedAt(n)
      \/ \E c \in IF connected THEN path .. MaxPlpmtu ELSE {MaxPlpmtu} : prober = Discover(c)
  BY Zenon DEF MtuInit
<1>5. ProberOK(prober) BY <1>1, <1>2, <1>3, <1>4, Zenon
<1> QED BY <1>0, <1>5, Zenon DEF MtuInit, MtuInv, MtuTypeOK, ProberOK, ProberType

\* Every step keeps the invariant, and raises the limit only by a probe.
LEMMA MtuStepKeeps == MtuInv /\ [MtuNext]_mtuVars => MtuInv' /\ (Raised \/ UNCHANGED mtuVars)
<1> SUFFICES ASSUME MtuInv, [MtuNext]_mtuVars PROVE MtuInv' /\ (Raised \/ UNCHANGED mtuVars)
  BY Zenon
<1>1. CASE PollProbe BY <1>1, PollProbeKeeps, Zenon
<1>2. CASE ProbeAck BY <1>2, ProbeAckKeeps, Zenon
<1>3. CASE MtuTick BY <1>3, MtuTickKeeps, Zenon
<1>4. CASE PathChanges BY <1>4, PathChangesKeeps, Zenon
<1>5. CASE \E size \in Size : SendRefused(size) BY <1>5, SendRefusedKeeps, Zenon
<1>6. CASE UNCHANGED mtuVars
  <2>1. MtuTypeOK' BY <1>6, Zenon DEF mtuVars, pathVars, MtuInv, MtuTypeOK
  <2>2. ProberOK(prober') BY <1>6, Zenon DEF mtuVars, MtuInv
  <2> QED BY <1>6, <2>1, <2>2, Zenon DEF MtuInv
<1> QED BY <1>1, <1>2, <1>3, <1>4, <1>5, <1>6, Zenon DEF MtuNext

(* Whatever losses, kernel refusals and path changes intervene between a   *)
(* probe and its acknowledgement, an outstanding confirmation is about the *)
(* limit in force when it is answered, so floor_validated is set for the   *)
(* size that was acknowledged; an outstanding search probe lies above the  *)
(* limit and within the interval searched; and limit, interval, ceiling    *)
(* and first ceiling stay in that order between MIN_PLPMTU and MAX_PLPMTU, *)
(* so poll's unsigned subtractions never wrap (on_probe_ack, poll,         *)
(* probe_lost, on_send_too_big, on_probe_too_big).                         *)
THEOREM ProbesAskAboutTheLimit ==
    MtuSpec => [](MtuTypeOK /\ Ordered(prober) /\ ProbeIsCurrent(prober))
<1>1. MtuInv => MtuTypeOK /\ Ordered(prober) /\ ProbeIsCurrent(prober)
  BY Zenon DEF MtuInv, ProberOK
<1> QED BY <1>1, MtuInitially, MtuStepKeeps, PTL DEF MtuSpec

(* The limit of a direction is raised by nothing but the acknowledgement   *)
(* of a search probe, to that probe's size, under the ceiling in force:    *)
(* no timer, fall-back, refusal or raise puts an unproved size into use    *)
(* (poll, on_probe_ack, on_send_too_big).                                  *)
THEOREM OnlyAProbeRaises == MtuSpec => [][Raised]_mtuVars
<1>1. MtuSpec => []MtuInv BY MtuInitially, MtuStepKeeps, PTL DEF MtuSpec
<1>2. MtuInv /\ [MtuNext]_mtuVars => [Raised]_mtuVars BY MtuStepKeeps, Zenon
<1> QED BY <1>1, <1>2, PTL DEF MtuSpec
=============================================================================
