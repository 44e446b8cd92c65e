---------------------------- MODULE SpoofEngine ----------------------------
(***************************************************************************)
(* One spoof.Engine (src/internal/spoof/engine.go and dialer.go): several  *)
(* dials share the source-port cursor and the flow table, one capture      *)
(* goroutine observes their handshakes packet by packet, one goroutine per *)
(* observed SYN-ACK injects the fake record, and Close may run at any      *)
(* time.                                                                   *)
(*                                                                         *)
(* The Windows TCP stack, the network and the edge are environment: they   *)
(* are modelled from how the engine uses them.                             *)
(*                                                                         *)
(* Abstractions.  A sequence number is represented by the connection that  *)
(* owns it: what the engine stores as synSeq is the connection whose SYN   *)
(* it read, and `ack == synSeq+1 /\ seq == synAckSeq+1` holds of exactly   *)
(* the pure ACKs of that connection.  The counters PacketsSeen, Confirmed  *)
(* and Failed only feed the display and are left out; Injected is the sum  *)
(* of flow.sent over the flows.                                            *)
(***************************************************************************)
EXTENDS Integers, Sequences, FiniteSets

CONSTANTS
    Dials,        \* calls of DialToPort; each ends in at most one connection
    Span,         \* PortHigh - PortLow + 1
    MaxAttempts,  \* maxPortAttempts
    Mode,         \* "fast" or "safe"
    AnyEdge,      \* Config.AnyEdge
    MaxQueue,     \* bound: packets the driver holds for the capture loop
    Faults,       \* what the environment may do, see FaultKinds
    None

FaultKinds == {"loss", "retransmit", "reset", "cancel", "inuse",
               "send", "recv", "early", "close"}

ASSUME DialsAssumption == /\ Dials # {}
                          /\ None \notin Dials
                          /\ None \notin Dials \X (1..MaxAttempts)
ASSUME NumbersAssumption == /\ Span \in Nat \ {0}
                            /\ MaxAttempts \in Nat \ {0}
                            /\ MaxQueue \in Nat \ {0}
ASSUME ModeAssumption == Mode \in {"fast", "safe"} /\ AnyEdge \in BOOLEAN
ASSUME FaultsAssumption == Faults \subseteq FaultKinds

Ports == 0 .. Span - 1

\* A flow object is what one dialOnce registers: attempt k of dial d.
Flows == Dials \X (1..MaxAttempts)

Outbound == {"SYN", "ACK", "RECORD"}
\* The edge's answer to an unacceptable segment is a bare ACK; the engine cannot
\* tell the answer to the record (ANSWER) from any other (CHALLENGE).
PureACK  == {"ANSWER", "CHALLENGE"}
Inbound  == {"SYNACK", "RST"} \cup PureACK
Packets  == [kind : Outbound \cup Inbound, conn : Dials]

ASSUME PacketsAssumption == None \notin Packets

\* unregister, with what dialOnce returns afterwards: before the delete, before
\* the counter goes down, before the removed flow is finished.
Leaving    == {"leave_ok", "leave_err", "leave_retry"}
Uncounting == {"uncount_ok", "uncount_err", "uncount_retry"}
Finishing  == {"finish_ok", "finish_err", "finish_retry"}

PCs == {"idle", "ready", "register", "count", "connect", "wait", "ok", "err"}
         \cup Leaving \cup Uncounting \cup Finishing

VARIABLES
    pc,        \* [Dials -> PCs]: where the dialling goroutine is
    attempt,   \* [Dials -> 0..MaxAttempts]: DialToPort's loop counter
    port,      \* [Dials -> Ports]: dialOnce's port
    next,      \* portCursor.next, modulo Span
    removed,   \* [Dials -> Flows \cup {None}]: the flow unregister took out
    table,     \* Engine.flows: [Ports -> Flows \cup {None}]
    flow,      \* the flow objects
    active,    \* Stats.ActiveFlows
    handle,    \* Engine.handle: "nil", "open", "closed"
    closer,    \* Close: "no", "waiting" for the capture loop, "done"
    loop,      \* captureLoop: "off", "recv", "exited"
    hand,      \* the packet between dispatch and its re-injection
    queue,     \* packets the driver diverted and Recv has not returned
    wire,      \* packets in flight between the host and the edges
    kernel,    \* the local socket: "none", "synsent", "estab", "closed"
    peer       \* the edge: "none", "synrcvd", "estab", "gone"

dialVars   == <<pc, attempt, port, next, removed>>
engineVars == <<handle, closer, loop>>
netVars    == <<hand, queue, wire, kernel, peer>>
vars == <<dialVars, table, flow, active, engineVars, netVars>>

NoFlow == [syn |-> None, synack |-> None, fake |-> <<>>, sent |-> 0,
           inj |-> "none", done |-> "open"]

Init ==
    /\ pc = [d \in Dials |-> "idle"]
    /\ attempt = [d \in Dials |-> 0]
    /\ port = [d \in Dials |-> 0]
    /\ next = 0
    /\ removed = [d \in Dials |-> None]
    /\ table = [p \in Ports |-> None]
    /\ flow = [f \in Flows |-> NoFlow]
    /\ active = 0
    /\ handle = "nil"
    /\ closer = "no"
    /\ loop = "off"
    /\ hand = None
    /\ queue = <<>>
    /\ wire = {}
    /\ kernel = [d \in Dials |-> "none"]
    /\ peer = [d \in Dials |-> "none"]

-----------------------------------------------------------------------------
(* flow.finish, the flow a dial is working on, the capture filter.         *)

FinishTwice(fl, outcome) == [fl EXCEPT !.done = outcome]

\* sync.Once: only the first outcome counts.
Finish(fl, outcome) ==
    [fl EXCEPT !.done = IF fl.done = "open" THEN outcome ELSE fl.done]

Current(d) == <<d, attempt[d]>>

InFlight(d) == pc[d] \in {"count", "connect", "wait"} \cup Leaving

SeesNoACKs == FALSE

\* buildFilter: the AnyEdge expression is returned before the mode is looked at.
SeesACKs == ~AnyEdge /\ Mode = "safe"

CapturedOneWay(kind) ==
    /\ handle = "open"
    /\ kind = "SYN" \/ (SeesACKs /\ kind = "ACK")

\* What the open handle diverts.  The engine's own sends are not diverted, and
\* the safe-mode term asks for an empty payload, so no RECORD matches.
Captured(kind) ==
    /\ handle = "open"
    /\ \/ kind \in {"SYN", "SYNACK"}
       \/ SeesACKs /\ kind \in {"ACK", "RST"} \cup PureACK

Packet(kind, d) == [kind |-> kind, conn |-> d]

\* The stack sends m, or m reaches the host: the driver takes it if the filter
\* matches; a full driver queue drops it.
Divert(m) == queue' = IF Len(queue) < MaxQueue THEN Append(queue, m) ELSE queue

\* The stack emits an outbound packet.
Emit(m) ==
    \/ Captured(m.kind) /\ Divert(m) /\ UNCHANGED wire
    \/ ~Captured(m.kind) /\ wire' = wire \cup {m} /\ UNCHANGED queue

\* The stack receives an inbound packet; only the SYN-ACK is answered (the first
\* one establishes the socket, a repeated one is acknowledged again).  Reads
\* wire0 and queue0, the channels after m has left its own.
KernelReceive(m, wire0, queue0) ==
    LET d == m.conn
        ack == Packet("ACK", d)
        answers == m.kind = "SYNACK" /\ kernel[d] \in {"synsent", "estab"}
    IN
    /\ kernel' = [kernel EXCEPT ![d] =
                    IF answers THEN "estab"
                    ELSE IF m.kind = "RST" /\ @ # "none" THEN "closed" ELSE @]
    /\ queue' = IF answers /\ Captured("ACK") /\ Len(queue0) < MaxQueue
                THEN Append(queue0, ack) ELSE queue0
    /\ wire' = IF answers /\ ~Captured("ACK") THEN wire0 \cup {ack} ELSE wire0

-----------------------------------------------------------------------------
(* Start and Close.  The callers (tunnel.Start, startClient, newScanEngine) *)
(* start an engine once, right after building it.                          *)

Start ==
    /\ handle = "nil" /\ closer = "no"
    /\ handle' = "open"
    /\ loop' = "recv"
    /\ UNCHANGED <<dialVars, table, flow, active, closer, netVars>>

\* CAS on closing, then Shutdown and Close of the handle: what the driver still
\* held is gone.
CloseBegin ==
    /\ "close" \in Faults
    /\ closer = "no"
    /\ IF handle = "nil"
       THEN closer' = "done" /\ UNCHANGED <<handle, queue>>
       ELSE closer' = "waiting" /\ handle' = "closed" /\ queue' = <<>>
    /\ UNCHANGED <<dialVars, table, flow, active, loop, hand, wire, kernel, peer>>

CloseEndForgets ==
    /\ closer = "waiting" /\ loop = "exited"
    /\ closer' = "done"
    /\ table' = [p \in Ports |-> None]
    /\ UNCHANGED <<dialVars, flow, active, handle, loop, netVars>>

\* wg.Wait has returned: every tracked flow is failed and the table emptied.
\* ActiveFlows is not touched.
CloseEnd ==
    /\ closer = "waiting" /\ loop = "exited"
    /\ closer' = "done"
    /\ flow' = [f \in Flows |-> IF \E p \in Ports : table[p] = f
                                THEN Finish(flow[f], "err") ELSE flow[f]]
    /\ table' = [p \in Ports |-> None]
    /\ UNCHANGED <<dialVars, active, handle, loop, netVars>>

-----------------------------------------------------------------------------
(* The dialling goroutine: DialToPort and dialOnce.                        *)

Begin(d) ==
    /\ pc[d] = "idle"
    /\ pc' = [pc EXCEPT ![d] = IF handle = "nil" THEN "err" ELSE "ready"]
    /\ UNCHANGED <<attempt, port, next, removed, table, flow, active, engineVars, netVars>>

NextPortUnbounded == next + 1

\* portCursor.take
NextPort == (next + 1) % Span

\* One turn of the loop up to portCursor.take.
Take(d) ==
    /\ pc[d] = "ready" /\ attempt[d] < MaxAttempts
    /\ attempt' = [attempt EXCEPT ![d] = @ + 1]
    /\ next' = NextPort
    /\ port' = [port EXCEPT ![d] = NextPort]
    /\ pc' = [pc EXCEPT ![d] = "register"]
    /\ UNCHANGED <<removed, table, flow, active, engineVars, netVars>>

\* After a collision: the context is done, or the attempts are used up.
GiveUp(d) ==
    /\ pc[d] = "ready" /\ attempt[d] > 0
    /\ "cancel" \in Faults \/ attempt[d] = MaxAttempts
    /\ pc' = [pc EXCEPT ![d] = "err"]
    /\ UNCHANGED <<attempt, port, next, removed, table, flow, active, engineVars, netVars>>

PortAssumedFree(p) == TRUE

PortFree(p) == table[p] = None

\* register up to the unlock.
Register(d) ==
    /\ pc[d] = "register" /\ PortFree(port[d])
    /\ table' = [table EXCEPT ![port[d]] = Current(d)]
    /\ pc' = [pc EXCEPT ![d] = "count"]
    /\ UNCHANGED <<attempt, port, next, removed, flow, active, engineVars, netVars>>

\* The rest of register: the counter goes up after the unlock.
Count(d) ==
    /\ pc[d] = "count"
    /\ active' = active + 1
    /\ pc' = [pc EXCEPT ![d] = "connect"]
    /\ UNCHANGED <<attempt, port, next, removed, table, flow, engineVars, netVars>>

PortBusyCounted(d) ==
    /\ pc[d] = "register" /\ ~PortFree(port[d])
    /\ pc' = [pc EXCEPT ![d] = "ready"]
    /\ active' = active + 1
    /\ UNCHANGED <<attempt, port, next, removed, table, flow, engineVars, netVars>>

\* ErrPortBusy; nothing was registered, so nothing is unregistered.
PortBusy(d) ==
    /\ pc[d] = "register" /\ ~PortFree(port[d])
    /\ pc' = [pc EXCEPT ![d] = "ready"]
    /\ UNCHANGED <<attempt, port, next, removed, table, flow, active, engineVars, netVars>>

\* The bind or connectex finds the port taken; no SYN has left.
AddrInUse(d) ==
    /\ "inuse" \in Faults
    /\ pc[d] = "connect" /\ kernel[d] = "none"
    /\ pc' = [pc EXCEPT ![d] = "leave_retry"]
    /\ UNCHANGED <<attempt, port, next, removed, table, flow, active, engineVars, netVars>>

\* DialContext fails any other way: refused, or its context is done.
ConnectFails(d) ==
    /\ pc[d] = "connect"
    /\ kernel[d] = "closed" \/ "cancel" \in Faults
    /\ pc' = [pc EXCEPT ![d] = "leave_err"]
    /\ kernel' = [kernel EXCEPT ![d] = "closed"]
    /\ UNCHANGED <<attempt, port, next, removed, table, flow, active, engineVars,
                   hand, queue, wire, peer>>

Connected(d) ==
    /\ pc[d] = "connect" /\ kernel[d] = "estab"
    /\ pc' = [pc EXCEPT ![d] = "wait"]
    /\ UNCHANGED <<attempt, port, next, removed, table, flow, active, engineVars, netVars>>

ResolvedUnchecked(d) ==
    /\ pc[d] = "wait" /\ flow[Current(d)].done # "open"
    /\ pc' = [pc EXCEPT ![d] = "leave_ok"]
    /\ UNCHANGED <<attempt, port, next, removed, table, flow, active, engineVars, netVars>>

\* select: f.done is closed.
Resolved(d) ==
    /\ pc[d] = "wait" /\ flow[Current(d)].done # "open"
    /\ IF flow[Current(d)].done = "ok"
       THEN pc' = [pc EXCEPT ![d] = "leave_ok"] /\ UNCHANGED kernel
       ELSE /\ pc' = [pc EXCEPT ![d] = "leave_err"]
            /\ kernel' = [kernel EXCEPT ![d] = "closed"]
    /\ UNCHANGED <<attempt, port, next, removed, table, flow, active, engineVars,
                   hand, queue, wire, peer>>

\* Nothing is on its way and nobody but a timer can act.
Quiescent ==
    /\ queue = <<>> \/ loop = "exited"
    /\ hand = None /\ wire = {}
    /\ \A f \in Flows : flow[f].inj \notin {"delay", "armed"}

GiveUpWaitingOnceInjected(d) ==
    /\ pc[d] = "wait" /\ flow[Current(d)].fake # <<>>
    /\ "cancel" \in Faults \/ "early" \in Faults \/ Quiescent
    /\ pc' = [pc EXCEPT ![d] = "leave_err"]
    /\ kernel' = [kernel EXCEPT ![d] = "closed"]
    /\ UNCHANGED <<attempt, port, next, removed, table, flow, active, engineVars,
                   hand, queue, wire, peer>>

\* select: ctx.Done, or the 3 s DefaultSpoofTimeout.  Without the fault "early"
\* packets are faster than the timers.
GiveUpWaiting(d) ==
    /\ pc[d] = "wait"
    /\ \/ "cancel" \in Faults
       \/ "early" \in Faults
       \/ Quiescent /\ flow[Current(d)].done = "open"
    /\ pc' = [pc EXCEPT ![d] = "leave_err"]
    /\ kernel' = [kernel EXCEPT ![d] = "closed"]
    /\ UNCHANGED <<attempt, port, next, removed, table, flow, active, engineVars,
                   hand, queue, wire, peer>>

\* The kernel's own connect timeout.
ConnectTimeout(d) ==
    /\ pc[d] = "connect" /\ kernel[d] = "synsent"
    /\ "early" \in Faults \/ Quiescent
    /\ pc' = [pc EXCEPT ![d] = "leave_err"]
    /\ kernel' = [kernel EXCEPT ![d] = "closed"]
    /\ UNCHANGED <<attempt, port, next, removed, table, flow, active, engineVars,
                   hand, queue, wire, peer>>

\* unregister goes on to lower the counter, and from there to finish the flow.
ToUncount(p) == CASE p = "leave_ok"  -> "uncount_ok"
                  [] p = "leave_err" -> "uncount_err"
                  [] OTHER           -> "uncount_retry"

ToFinish(p) == CASE p = "uncount_ok"  -> "finish_ok"
                 [] p = "uncount_err" -> "finish_err"
                 [] OTHER             -> "finish_retry"

\* Where dialOnce returns to: the result, or DialToPort's next attempt.
AfterLeaving(p) == CASE p \in {"leave_ok", "finish_ok"}   -> "ok"
                     [] p \in {"leave_err", "finish_err"} -> "err"
                     [] OTHER                             -> "ready"

\* unregister up to the unlock, explicit or deferred: whichever flow holds the
\* port is removed.
Unregister(d) ==
    LET f == table[port[d]] IN
    /\ pc[d] \in Leaving
    /\ pc' = [pc EXCEPT ![d] = IF f = None THEN AfterLeaving(@) ELSE ToUncount(@)]
    /\ table' = [table EXCEPT ![port[d]] = None]
    /\ removed' = [removed EXCEPT ![d] = f]
    /\ UNCHANGED <<attempt, port, next, flow, active, engineVars, netVars>>

\* The rest of unregister: the counter goes down after the unlock.
Uncount(d) ==
    /\ pc[d] \in Uncounting
    /\ active' = active - 1
    /\ pc' = [pc EXCEPT ![d] = ToFinish(@)]
    /\ UNCHANGED <<attempt, port, next, removed, table, flow, engineVars, netVars>>

\* Its end: the removed flow fails as cancelled if nothing resolved it yet.
FinishRemoved(d) ==
    /\ pc[d] \in Finishing
    /\ flow' = [flow EXCEPT ![removed[d]] = Finish(@, "err")]
    /\ removed' = [removed EXCEPT ![d] = None]
    /\ pc' = [pc EXCEPT ![d] = AfterLeaving(@)]
    /\ UNCHANGED <<attempt, port, next, table, active, engineVars, netVars>>

-----------------------------------------------------------------------------
(* captureLoop and dispatch.                                               *)

ReadyAgain(fl) == fl.syn # None

\* The SYN-ACK starts the injection, once and not before the SYN was seen.
Ready(fl) == fl.syn # None /\ fl.synack = None

AcknowledgesEarly(m, fl) == fl.syn = m.conn /\ fl.synack = m.conn

\* The edge acknowledges synSeq+1 from synAckSeq+1, after injected was set.
Acknowledges(m, fl) == fl.fake # <<>> /\ fl.syn = m.conn /\ fl.synack = m.conn

\* dispatch's switch: what a captured packet does to the flow it belongs to.
Observe(m, fl) ==
    CASE m.kind = "RST" -> Finish(fl, "err")
      [] m.kind = "SYN" -> [fl EXCEPT !.syn = m.conn]
      [] m.kind = "SYNACK" /\ Ready(fl) ->
           [fl EXCEPT !.synack = m.conn, !.inj = "delay"]
      [] m.kind \in PureACK /\ Mode = "safe" /\ Acknowledges(m, fl) ->
           Finish(fl, "ok")
      [] OTHER -> fl

\* The flow is looked up by the local port alone.
Dispatch(m) ==
    LET f == table[port[m.conn]] IN
    IF f = None THEN UNCHANGED flow
    ELSE flow' = [flow EXCEPT ![f] = Observe(m, @)]

\* Recv returns a packet and dispatch handles it.
CaptureRecv ==
    /\ loop = "recv" /\ hand = None /\ handle = "open" /\ queue # <<>>
    /\ hand' = Head(queue)
    /\ queue' = Tail(queue)
    /\ Dispatch(Head(queue))
    /\ UNCHANGED <<dialVars, table, active, engineVars, wire, kernel, peer>>

\* The packet is re-injected unmodified.
CaptureResend ==
    /\ hand # None /\ handle = "open"
    /\ hand' = None
    /\ IF hand.kind \in Outbound
       THEN wire' = wire \cup {hand} /\ UNCHANGED <<queue, kernel>>
       ELSE KernelReceive(hand, wire, queue)
    /\ UNCHANGED <<dialVars, table, flow, active, engineVars, peer>>

CaptureResendFailsForGood ==
    /\ hand # None /\ (handle = "closed" \/ "send" \in Faults)
    /\ hand' = None
    /\ loop' = "exited"
    /\ UNCHANGED <<dialVars, table, flow, active, handle, closer,
                   queue, wire, kernel, peer>>

\* Send fails: the handle is closed, or the driver refuses.
CaptureResendFails ==
    /\ hand # None /\ (handle = "closed" \/ "send" \in Faults)
    /\ hand' = None
    /\ UNCHANGED <<dialVars, table, flow, active, engineVars,
                   queue, wire, kernel, peer>>

CaptureExitLate ==
    /\ loop = "recv" /\ hand = None
    /\ closer = "done" \/ "recv" \in Faults
    /\ loop' = "exited"
    /\ UNCHANGED <<dialVars, table, flow, active, handle, closer, netVars>>

\* Recv fails: the handle is closed, or the driver reports an error.
CaptureExit ==
    /\ loop = "recv" /\ hand = None
    /\ handle = "closed" \/ "recv" \in Faults
    /\ loop' = "exited"
    /\ UNCHANGED <<dialVars, table, flow, active, handle, closer, netVars>>

-----------------------------------------------------------------------------
(* injectAfterDelay, one goroutine per flow.                               *)

\* select: f.done before the delay is over.
InjectAbort(f) ==
    /\ flow[f].inj = "delay" /\ flow[f].done # "open"
    /\ flow' = [flow EXCEPT ![f].inj = "ended"]
    /\ UNCHANGED <<dialVars, table, active, engineVars, netVars>>

InjectArmResolves(f) ==
    /\ flow[f].inj = "delay"
    /\ flow' = [flow EXCEPT ![f] = Finish([@ EXCEPT !.inj = "armed",
                   !.fake = <<flow[f].syn, flow[f].synack>>], "ok")]
    /\ UNCHANGED <<dialVars, table, active, engineVars, netVars>>

\* select: the delay is over.  The numbers are read and injected is set.
InjectArm(f) ==
    /\ flow[f].inj = "delay"
    /\ flow' = [flow EXCEPT ![f].inj = "armed",
                            ![f].fake = <<flow[f].syn, flow[f].synack>>]
    /\ UNCHANGED <<dialVars, table, active, engineVars, netVars>>

\* Send succeeds.  A record built for an attempt the dial has abandoned belongs
\* to no connection and is ignored by everybody.
InjectSend(f) ==
    /\ flow[f].inj = "armed" /\ handle = "open"
    /\ wire' = IF f = Current(f[1])
               THEN wire \cup {Packet("RECORD", f[1])} ELSE wire
    /\ LET out == [flow[f] EXCEPT !.inj = "ended", !.sent = @ + 1] IN
       flow' = [flow EXCEPT ![f] = IF Mode = "fast" THEN Finish(out, "ok") ELSE out]
    /\ UNCHANGED <<dialVars, table, active, engineVars, hand, queue, kernel, peer>>

\* Marshal or Send fails.
InjectFails(f) ==
    /\ flow[f].inj = "armed" /\ (handle = "closed" \/ "send" \in Faults)
    /\ flow' = [flow EXCEPT ![f] = Finish([@ EXCEPT !.inj = "ended"], "err")]
    /\ UNCHANGED <<dialVars, table, active, engineVars, netVars>>

-----------------------------------------------------------------------------
(* Environment: the Windows stack, the network and the edges.              *)

KernelSYN(d) ==
    /\ \/ pc[d] = "connect" /\ kernel[d] = "none"
       \/ "retransmit" \in Faults /\ kernel[d] = "synsent"
    /\ kernel' = [kernel EXCEPT ![d] = "synsent"]
    /\ Emit(Packet("SYN", d))
    /\ UNCHANGED <<dialVars, table, flow, active, engineVars, hand, peer>>

\* An inbound packet reaches the host.
Arrive(m) ==
    /\ m \in wire /\ m.kind \in Inbound
    /\ IF Captured(m.kind)
       THEN Divert(m) /\ wire' = wire \ {m} /\ UNCHANGED kernel
       ELSE KernelReceive(m, wire \ {m}, queue)
    /\ UNCHANGED <<dialVars, table, flow, active, engineVars, hand, peer>>

Lose(m) ==
    /\ "loss" \in Faults
    /\ m \in wire
    /\ wire' = wire \ {m}
    /\ UNCHANGED <<dialVars, table, flow, active, engineVars,
                   hand, queue, kernel, peer>>

\* What the edge answers to an outbound packet, given its state.
Reply(m) ==
    CASE peer[m.conn] = "gone" -> {"RST"}
      [] m.kind = "SYN" ->
           IF peer[m.conn] = "estab" THEN {"CHALLENGE"} ELSE {"SYNACK"}
      [] m.kind = "RECORD" ->
           IF peer[m.conn] = "none" THEN {"RST"} ELSE {"ANSWER"}
      [] OTHER -> {}

EdgeReceive(m) ==
    LET d == m.conn IN
    /\ m \in wire /\ m.kind \in Outbound
    /\ wire' = (wire \ {m}) \cup {Packet(k, d) : k \in Reply(m)}
    /\ peer' = [peer EXCEPT ![d] =
                  CASE @ = "none" /\ m.kind = "SYN" -> "synrcvd"
                    [] @ = "synrcvd" /\ m.kind = "ACK" -> "estab"
                    [] OTHER -> @]
    /\ UNCHANGED <<dialVars, table, flow, active, engineVars, hand, queue, kernel>>

EdgeRetransmit(d) ==
    /\ "retransmit" \in Faults
    /\ peer[d] = "synrcvd"
    /\ wire' = wire \cup {Packet("SYNACK", d)}
    /\ UNCHANGED <<dialVars, table, flow, active, engineVars,
                   hand, queue, kernel, peer>>

\* The edge refuses or drops the connection, or a middlebox resets it.
EdgeReset(d) ==
    /\ "reset" \in Faults
    /\ peer[d] # "gone" /\ kernel[d] # "none"
    /\ peer' = [peer EXCEPT ![d] = "gone"]
    /\ wire' = wire \cup {Packet("RST", d)}
    /\ UNCHANGED <<dialVars, table, flow, active, engineVars, hand, queue, kernel>>

-----------------------------------------------------------------------------

Dial(d) ==
    \/ Begin(d) \/ Take(d) \/ GiveUp(d) \/ Register(d) \/ Count(d) \/ PortBusy(d)
    \/ AddrInUse(d) \/ ConnectFails(d) \/ ConnectTimeout(d) \/ Connected(d)
    \/ Resolved(d) \/ GiveUpWaiting(d)
    \/ Unregister(d) \/ Uncount(d) \/ FinishRemoved(d)

Capture == CaptureRecv \/ CaptureResend \/ CaptureResendFails \/ CaptureExit

Inject(f) == InjectAbort(f) \/ InjectArm(f) \/ InjectSend(f) \/ InjectFails(f)

Environment ==
    \/ \E d \in Dials : KernelSYN(d) \/ EdgeRetransmit(d) \/ EdgeReset(d)
    \/ \E m \in wire : Arrive(m) \/ Lose(m) \/ EdgeReceive(m)

Next ==
    \/ Start \/ CloseBegin \/ CloseEnd
    \/ \E d \in Dials : Dial(d)
    \/ Capture
    \/ \E f \in Flows : Inject(f)
    \/ Environment

Spec == Init /\ [][Next]_vars

\* The Go scheduler runs every runnable goroutine, every timer fires, and the
\* network delivers or loses what it carries.
Fairness ==
    /\ \A d \in Dials : WF_vars(Dial(d)) /\ WF_vars(pc[d] = "connect" /\ KernelSYN(d))
    /\ WF_vars(Capture)
    /\ \A f \in Flows : WF_vars(Inject(f))
    /\ WF_vars(CloseEnd)
    /\ WF_vars(\E m \in wire : Arrive(m) \/ EdgeReceive(m))

FairSpec == Spec /\ Fairness
-----------------------------------------------------------------------------
(* Properties.                                                             *)

FlowStates ==
    [syn    : Dials \cup {None},
     synack : Dials \cup {None},
     fake   : {<<>>} \cup ((Dials \cup {None}) \X (Dials \cup {None})),
     sent   : Nat,
     inj    : {"none", "delay", "armed", "ended"},
     done   : {"open", "ok", "err"}]

\* The type invariant.
TypeOK ==
    /\ pc \in [Dials -> PCs]
    /\ attempt \in [Dials -> 0..MaxAttempts]
    /\ port \in [Dials -> Ports]
    /\ next \in Ports
    /\ removed \in [Dials -> Flows \cup {None}]
    /\ table \in [Ports -> Flows \cup {None}]
    /\ flow \in [Flows -> FlowStates]
    /\ active \in Int
    /\ handle \in {"nil", "open", "closed"}
    /\ closer \in {"no", "waiting", "done"}
    /\ loop \in {"off", "recv", "exited"}
    /\ hand \in Packets \cup {None}
    /\ queue \in Seq(Packets)
    /\ wire \subseteq Packets
    /\ kernel \in [Dials -> {"none", "synsent", "estab", "closed"}]
    /\ peer \in [Dials -> {"none", "synrcvd", "estab", "gone"}]

\* The flow table and the dialling goroutines agree: an entry belongs to a dial
\* that is still inside dialOnce on that port, and until Close empties the table
\* every such dial holds its port, so two dials never share one (the check in
\* register against unregister's delete by port number).
PortOwnership ==
    /\ \A p \in Ports : table[p] # None =>
         \E d \in Dials : InFlight(d) /\ port[d] = p /\ table[p] = Current(d)
    /\ closer # "done" =>
         \A d \in Dials : InFlight(d) => table[port[d]] = Current(d)

Tracked == {p \in Ports : table[p] # None}

\* Dials between the table and the counter: an entry not counted yet, a removed
\* entry still counted.
BetweenLockAndCounter == {d \in Dials : pc[d] \in {"count"} \cup Uncounting}

\* Stats.ActiveFlows, which moves outside the lock and by whichever dial found the
\* entry, is never negative; whenever no dial is between the table and the
\* counter it is the number of tracked flows, until Close drops the table
\* without counting down; from then on it can only overstate.
ActiveFlowsExact ==
    /\ active >= 0
    /\ BetweenLockAndCounter = {} =>
         /\ active >= Cardinality(Tracked)
         /\ closer # "done" => active = Cardinality(Tracked)

\* A dial whose flow is no longer in the table (Close, or another dial's
\* unregister, removed it) has had it resolved, or the unregister that removed it
\* is about to: nobody is left waiting for a flow that dispatch can no longer find.
OrphansResolved ==
    \A d \in Dials :
        InFlight(d) /\ table[port[d]] # Current(d) =>
            \/ flow[Current(d)].done # "open"
            \/ \E e \in Dials : removed[e] = Current(d)

\* However often the SYN-ACK is repeated, a flow puts at most one record on the
\* wire (the haveSYNACK test before the goroutine is started).
OneRecord == \A f \in Flows : flow[f].sent <= 1

\* Dial returns a connection only for a flow that resolved well, after the
\* numbers of a SYN and of a SYN-ACK were read and, in fast mode, after the
\* record went out, whatever packets were lost, repeated or late.
PrimedReturn ==
    \A d \in Dials : pc[d] \in {"leave_ok", "uncount_ok", "finish_ok", "ok"} =>
        LET fl == flow[Current(d)] IN
        /\ fl.done = "ok"
        /\ fl.syn # None /\ fl.synack # None /\ fl.fake # <<>>
        /\ Mode = "fast" => fl.sent = 1

\* finish resolves a flow once: a later RST, acknowledgement, send error,
\* cancellation or Close does not replace what the dialer may already have read.
OutcomeFixed ==
    [][\A f \in Flows : flow[f].done # "open" => flow'[f].done = flow[f].done]_vars

\* The promise of Dial (dialer.go:63-64): the record injected for a returned
\* connection carries that connection's own sequence numbers.
PrimedOwnConnection ==
    \A d \in Dials : pc[d] = "ok" => flow[Current(d)].fake = <<d, d>>

\* On a network that loses nothing, with timers slower than packets and enough
\* ports, no dial of a started engine fails: every handshake is seen, every record injected and, in
\* safe mode, every acknowledgement of one recognised (engine.go:27-31).
NoDialFails == \A d \in Dials : pc[d] = "err" => attempt[d] = 0

\* Every dial returns, whatever the environment does and however Close
\* interleaves: the flow is resolved, cancelled, or a timer fires.
EveryDialReturns == \A d \in Dials : pc[d] = "ready" ~> pc[d] \in {"ok", "err"}

\* Close does not wait for ever for the capture loop.
CloseCompletes == closer = "waiting" ~> closer = "done"

\* Captured packets are passed on (engine.go:369-370): while the handle diverts
\* packets, the capture loop takes them.
CaptureServes == queue # <<>> ~> hand # None \/ handle = "closed"
=============================================================================
