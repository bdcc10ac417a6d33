----------------------------- MODULE UdpChannel -----------------------------
(* One association of the native Handoff UDP channel: the line's end         *)
(* (XudpHandoffUdpAssociation and the session loop around it), the landing's *)
(* session (run_landing_udp, handle_packet, open_session, sweep_sessions,    *)
(* pump_downlink), the nonce cache that admits an OPEN once, and the replay  *)
(* window of each direction. The network is external: it loses, duplicates,  *)
(* delays and reorders, so a packet once sent may arrive at any later time   *)
(* any number of times; a retransmitted OPEN is the same packet.             *)
(*                                                                           *)
(* Time passes in ticks. Instants are kept as ticks left until them; the     *)
(* OPEN's timestamp, a whole second of the line's clock, as its distance     *)
(* from the landing's clock in whole seconds.                                *)
EXTENDS Integers, FiniteSets

CONSTANTS
    MaxUp, MaxDown,     \* packets each end seals
    WindowBits,         \* REPLAY_WINDOW_BITS
    TicksPerSecond,
    TimeDifference,     \* the accepted distance of an OPEN's timestamp
    OpenTimeout,        \* ticks the line waits for the landing's first packet
    LineIdle,           \* ticks of XUDP_ASSOCIATION_IDLE
    LandingIdle         \* ticks of LANDING_UDP_SESSION_IDLE

ASSUME ChannelAssumption ==
    /\ MaxUp \in Nat /\ MaxDown \in Nat
    /\ WindowBits \in Nat \ {0} /\ TicksPerSecond \in Nat \ {0}
    /\ TimeDifference \in Nat /\ OpenTimeout \in Nat
    /\ LineIdle \in Nat /\ LandingIdle \in Nat

VARIABLES
    line,       \* the association: "new", "opening", "confirmed", "ended"
    openLeft,   \* ticks until its open deadline
    lineLeft,   \* ticks until its idle bound
    session,    \* whether the landing has a session: "none", "live"
    landLeft,   \* ticks until the session's idle bound
    serving,    \* whether the landing's task runs
    phase,      \* ticks of the landing's current second that have passed
    lead,       \* the landing's clock minus the OPEN's timestamp, in seconds
    nonceLeft,  \* ticks the OPEN's nonce stays in the cache
    upSealed, downSealed,   \* the counter of the last packet each end sealed
    upWindow, downWindow,   \* the receivers' windows
    net,        \* the packets sent so far
    forwarded,  \* per uplink counter, how often its datagram was given to the egress
    returned    \* per downlink counter, how often its datagram reached the client

entryVars == <<line, openLeft, lineLeft>>
landingVars == <<session, landLeft, serving>>
clockVars == <<phase, lead, nonceLeft>>
upVars == <<upSealed, upWindow, forwarded>>
downVars == <<downSealed, downWindow, returned>>
channelVars == <<entryVars, landingVars, clockVars, upVars, downVars, net>>

Packet(way, type, counter) == [way |-> way, type |-> type, counter |-> counter]

-----------------------------------------------------------------------------
(* ReplayWindow                                                              *)

EmptyWindow == [highest |-> 0, bits |-> {}]

Bit(counter) == counter % WindowBits

\* A mutant: a counter the window has left behind is looked up all the same.
FreshUnbounded(w, counter) ==
    counter # 0 /\ (counter > w.highest \/ Bit(counter) \notin w.bits)

\* check
Fresh(w, counter) ==
    /\ counter # 0
    /\ \/ counter > w.highest
       \/ w.highest - counter < WindowBits /\ Bit(counter) \notin w.bits

\* commit, of a counter that is fresh: the slots the window slides over are
\* cleared, all of them when it slides by its length.
Committed(w, counter) ==
    LET skipped == IF counter - w.highest >= WindowBits
                   THEN 0..(WindowBits - 1)
                   ELSE {Bit(c) : c \in (w.highest + 1)..(counter - 1)}
    IN  [highest |-> IF counter > w.highest THEN counter ELSE w.highest,
         bits |-> (w.bits \ skipped) \cup {Bit(counter)}]

-----------------------------------------------------------------------------
\* OPEN_REPLAY_RETENTION. A mutant keeps the nonce for the window alone.
RetentionOfWindow == TicksPerSecond * (2 * TimeDifference)
Retention == TicksPerSecond * (2 * TimeDifference + 1)

ChannelInit ==
    /\ line = "new" /\ openLeft = 0 /\ lineLeft = 0
    /\ session = "none" /\ landLeft = 0 /\ serving = TRUE
    /\ phase = 0 /\ lead = TimeDifference + 1 /\ nonceLeft = 0
    /\ upSealed = 0 /\ upWindow = EmptyWindow
    /\ downSealed = 0 /\ downWindow = EmptyWindow
    /\ net = {}
    /\ forwarded = [n \in 1..MaxUp |-> 0]
    /\ returned = [n \in 1..MaxDown |-> 0]

-----------------------------------------------------------------------------
(* The line                                                                  *)

\* open: the timestamp is whatever the line's clock says at this moment of
\* the landing's second.
OpenChannel ==
    /\ line = "new"
    /\ line' = "opening"
    /\ openLeft' = OpenTimeout
    /\ lineLeft' = LineIdle
    /\ lead' \in (-TimeDifference - 1)..(TimeDifference + 1)
    /\ phase' \in 0..(TicksPerSecond - 1)
    /\ net' = net \cup {Packet("up", "open", 0)}
    /\ UNCHANGED <<landingVars, nonceLeft, upVars, downVars>>

Alive == line \in {"opening", "confirmed"}

\* seal: a packet of the line; every packet but the OPEN takes a counter.
SealUp(type) ==
    /\ upSealed < MaxUp
    /\ upSealed' = upSealed + 1
    /\ net' = net \cup {Packet("up", type, upSealed + 1)}

\* handle_uplink_packet: a New or Keep frame with a payload. Past the open
\* deadline its retransmit_open fails instead (OpenTimesOut).
SendUplink ==
    /\ Alive
    /\ line = "confirmed" \/ openLeft > 0
    /\ SealUp("data")
    /\ lineLeft' = LineIdle
    /\ UNCHANGED <<line, openLeft, landingVars, clockVars, upWindow, forwarded, downVars>>

\* handle_uplink_packet: KeepAlive and End frames count as activity and send
\* nothing.
KeepAlive ==
    /\ Alive
    /\ lineLeft' = LineIdle
    /\ UNCHANGED <<line, openLeft, landingVars, clockVars, upVars, downVars, net>>

\* close, on every way out of the session loop: one CLOSE, best effort.
EndLine ==
    /\ line' = "ended"
    /\ openLeft' = 0 /\ lineLeft' = 0
    /\ SealUp("close") \/ (upSealed = MaxUp /\ UNCHANGED <<upSealed, net>>)
    /\ UNCHANGED <<landingVars, clockVars, upWindow, forwarded>>

ClientEnds == Alive /\ EndLine /\ UNCHANGED downVars

LineExpires == Alive /\ lineLeft = 0 /\ EndLine /\ UNCHANGED downVars

\* retransmit_open at or after open_deadline.
OpenTimesOut == line = "opening" /\ openLeft = 0 /\ EndLine /\ UNCHANGED downVars

\* recv_downlink_frame: any authenticated packet confirms the open.
LineReceives(p) ==
    /\ Alive
    /\ p \in net /\ p.way = "down"
    /\ Fresh(downWindow, p.counter)
    /\ downWindow' = Committed(downWindow, p.counter)
    /\ \/ /\ p.type = "data"
          /\ line' = "confirmed" /\ lineLeft' = LineIdle
          /\ returned' = [returned EXCEPT ![p.counter] = @ + 1]
          /\ UNCHANGED <<openLeft, landingVars, clockVars, upVars, net>>
       \/ /\ p.type = "ack"
          /\ line' = "confirmed"
          /\ UNCHANGED <<openLeft, lineLeft, landingVars, clockVars, upVars, net, returned>>
       \/ p.type = "close" /\ EndLine /\ UNCHANGED returned
    /\ UNCHANGED downSealed

-----------------------------------------------------------------------------
(* The landing                                                               *)

SealDown(type, counter) ==
    /\ counter <= MaxDown
    /\ downSealed' = counter
    /\ net' = net \cup {Packet("down", type, counter)}

\* handle_packet, an OPEN whose session exists: acknowledged again.
LandingReacknowledges ==
    /\ serving /\ session = "live"
    /\ Packet("up", "open", 0) \in net
    /\ SealDown("ack", downSealed + 1)
    /\ UNCHANGED <<entryVars, landingVars, clockVars, upVars, downWindow, returned>>

\* open_session with accept_open: the timestamp's window, then the nonce.
LandingOpens ==
    /\ serving /\ session = "none"
    /\ Packet("up", "open", 0) \in net
    /\ lead \in (-TimeDifference)..TimeDifference
    /\ nonceLeft = 0
    /\ nonceLeft' = Retention
    /\ session' = "live" /\ landLeft' = LandingIdle
    /\ upWindow' = EmptyWindow
    /\ SealDown("ack", 1)
    /\ UNCHANGED <<entryVars, serving, phase, lead, upSealed, forwarded, downWindow, returned>>

\* A mutant: the session counts as active before the packet is checked.
LandingReceivesTouching(p) ==
    /\ serving /\ session = "live"
    /\ p \in net /\ p.way = "up" /\ p.type = "data"
    /\ landLeft' = LandingIdle
    /\ IF Fresh(upWindow, p.counter)
       THEN /\ upWindow' = Committed(upWindow, p.counter)
            /\ forwarded' = [forwarded EXCEPT ![p.counter] = @ + 1]
       ELSE UNCHANGED <<upWindow, forwarded>>
    /\ UNCHANGED <<entryVars, session, serving, clockVars, upSealed, downVars, net>>

\* handle_packet, a packet of a live session. An egress socket that cannot be
\* opened or that fails to send leaves the session as it is.
LandingReceives(p) ==
    /\ serving /\ session = "live"
    /\ p \in net /\ p.way = "up" /\ p.type # "open"
    /\ Fresh(upWindow, p.counter)
    /\ \/ /\ p.type = "data"
          /\ upWindow' = Committed(upWindow, p.counter)
          /\ landLeft' = LandingIdle
          /\ forwarded' = [forwarded EXCEPT ![p.counter] = @ + 1]
          /\ UNCHANGED session
       \/ /\ p.type = "close"
          /\ session' = "none" /\ landLeft' = 0 /\ upWindow' = EmptyWindow
          /\ UNCHANGED forwarded
    /\ UNCHANGED <<entryVars, serving, clockVars, upSealed, downVars, net>>

\* pump_downlink: a datagram of the destination goes back to the line.
\* Its egress socket exists once the session forwarded one.
PumpDownlink ==
    /\ serving /\ session = "live"
    /\ \E n \in 1..MaxUp : forwarded[n] > 0
    /\ SealDown("data", downSealed + 1)
    /\ landLeft' = LandingIdle
    /\ UNCHANGED <<entryVars, session, serving, clockVars, upVars, downWindow, returned>>

\* sweep_sessions: an idle session goes without a CLOSE.
Sweep ==
    /\ serving /\ session = "live"
    /\ landLeft = 0
    /\ session' = "none" /\ upWindow' = EmptyWindow
    /\ UNCHANGED <<entryVars, landLeft, serving, clockVars, upSealed, forwarded, downVars, net>>

\* run_landing_udp at shutdown: a CLOSE to the peer of every session.
Shutdown ==
    /\ serving
    /\ serving' = FALSE
    /\ session' = "none" /\ landLeft' = 0 /\ upWindow' = EmptyWindow
    /\ IF session = "live" /\ downSealed < MaxDown
       THEN SealDown("close", downSealed + 1)
       ELSE UNCHANGED <<downSealed, net>>
    /\ UNCHANGED <<entryVars, clockVars, upSealed, forwarded, downWindow, returned>>

-----------------------------------------------------------------------------
Less(n) == IF n = 0 THEN 0 ELSE n - 1

\* A tick of every clock. A distance past the window stays there.
Tick ==
    /\ phase' = (phase + 1) % TicksPerSecond
    /\ lead' = IF phase' = 0 /\ lead <= TimeDifference THEN lead + 1 ELSE lead
    /\ nonceLeft' = Less(nonceLeft)
    /\ openLeft' = Less(openLeft)
    /\ lineLeft' = Less(lineLeft)
    /\ landLeft' = Less(landLeft)
    /\ UNCHANGED <<line, session, serving, upVars, downVars, net>>

Timers == OpenTimesOut \/ LineExpires

ChannelNext ==
    \/ OpenChannel \/ SendUplink \/ KeepAlive \/ ClientEnds \/ Timers
    \/ LandingReacknowledges \/ LandingOpens \/ PumpDownlink \/ Sweep \/ Shutdown
    \/ (\E p \in net : LineReceives(p) \/ LandingReceives(p))
    \/ Tick

ChannelSafety == ChannelInit /\ [][ChannelNext]_channelVars

\* Clocks run and the sweep comes round; no timer has to fire, no packet to
\* arrive, and neither the client nor the destination has to send.
ChannelSpec ==
    /\ ChannelSafety
    /\ WF_channelVars(Tick)
    /\ WF_channelVars(Sweep)

-----------------------------------------------------------------------------
\* No uplink datagram is forwarded twice, and none is returned to the client
\* twice: not by a duplicate the window tracks or has left behind, and not
\* after its session was closed or swept away.
DeliveredOnce ==
    /\ \A n \in 1..MaxUp : forwarded[n] <= 1
    /\ \A n \in 1..MaxDown : returned[n] <= 1

\* accept_open: the nonce outlives the timestamp's window, so the session of
\* an OPEN is never opened a second time, whatever the distance of the two
\* clocks and whenever its first session ended.
OpenAdmittedOnce == [][LandingOpens => downSealed = 0]_channelVars

\* sweep_sessions: a session whose line is gone ends although its CLOSE is
\* lost and old packets keep arriving (the destination sends MaxDown packets
\* at most).
SessionEnds == line = "ended" ~> session = "none"
=============================================================================
