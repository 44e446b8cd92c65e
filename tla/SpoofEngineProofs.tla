------------------------- MODULE SpoofEngineProofs -------------------------
(* Proofs about SpoofEngine, for all values of its constants.               *)
EXTENDS SpoofDialRefinement, FiniteSetTheorems, TLAPS

\* The places of unregister are named by these sets everywhere below.
USE DEF Leaving, Uncounting, Finishing

-----------------------------------------------------------------------------
(* Type correctness.                                                       *)

LEMMA FinishType ==
    ASSUME NEW fl \in FlowStates, NEW outcome \in {"ok", "err"}
    PROVE  Finish(fl, outcome) \in FlowStates
BY DEF Finish, FlowStates

LEMMA CurrentType ==
    ASSUME NEW d \in Dials, attempt \in [Dials -> 0..MaxAttempts], attempt[d] # 0
    PROVE  Current(d) \in Flows
BY NumbersAssumption DEF Current, Flows

LEMMA DivertType ==
    ASSUME queue \in Seq(Packets), NEW m \in Packets, Divert(m)
    PROVE  queue' \in Seq(Packets)
BY DEF Divert

LEMMA EmitType ==
    ASSUME queue \in Seq(Packets), wire \subseteq Packets, NEW m \in Packets, Emit(m)
    PROVE  queue' \in Seq(Packets) /\ wire' \subseteq Packets
BY DivertType DEF Emit

LEMMA KernelReceiveType ==
    ASSUME TypeOK, NEW m \in Packets, NEW wire0 \in SUBSET Packets,
           NEW queue0 \in Seq(Packets), KernelReceive(m, wire0, queue0)
    PROVE  /\ kernel' \in [Dials -> {"none", "synsent", "estab", "closed"}]
           /\ queue' \in Seq(Packets)
           /\ wire' \subseteq Packets
<1>1. m.conn \in Dials
  BY DEF Packets
<1>2. Packet("ACK", m.conn) \in Packets
  BY <1>1 DEF Packet, Packets, Outbound
<1>3. kernel' \in [Dials -> {"none", "synsent", "estab", "closed"}]
  BY <1>1 DEF KernelReceive, TypeOK
<1>4. queue' \in Seq(Packets) /\ wire' \subseteq Packets
  BY <1>2 DEF KernelReceive
<1> QED BY <1>3, <1>4

LEMMA ObserveType ==
    ASSUME NEW m \in Packets, NEW fl \in FlowStates
    PROVE  Observe(m, fl) \in FlowStates
<1>1. m.conn \in Dials
  BY DEF Packets
<1>2. [fl EXCEPT !.syn = m.conn] \in FlowStates
  BY <1>1 DEF FlowStates
<1>3. [fl EXCEPT !.synack = m.conn, !.inj = "delay"] \in FlowStates
  BY <1>1 DEF FlowStates
<1>4. Observe(m, fl) \in {Finish(fl, "err"), Finish(fl, "ok"), fl,
                          [fl EXCEPT !.syn = m.conn],
                          [fl EXCEPT !.synack = m.conn, !.inj = "delay"]}
  BY DEF Observe
<1> QED BY <1>2, <1>3, <1>4, FinishType

LEMMA DispatchType ==
    ASSUME TypeOK, NEW m \in Packets, Dispatch(m)
    PROVE  flow' \in [Flows -> FlowStates]
<1> DEFINE f == table[port[m.conn]]
<1>1. f \in Flows \cup {None}
  BY DEF TypeOK, Packets
<1>2. CASE f = None
  BY <1>2 DEF Dispatch, TypeOK
<1>3. CASE f # None
  <2>1. f \in Flows /\ flow[f] \in FlowStates
    BY <1>1, <1>3 DEF TypeOK
  <2>2. flow' = [flow EXCEPT ![f] = Observe(m, flow[f])]
    BY <1>3 DEF Dispatch
  <2> QED BY <2>1, <2>2, ObserveType DEF TypeOK
<1> QED BY <1>2, <1>3

\* A packet of either direction is a packet.
LEMMA PacketType ==
    ASSUME NEW d \in Dials, NEW k \in Outbound \cup Inbound
    PROVE  Packet(k, d) \in Packets
BY DEF Packet, Packets

\* A dial beyond its first portCursor.take has an attempt number, so the flow it
\* works on exists.
Attempting == \A d \in Dials : attempt[d] = 0 => pc[d] \in {"idle", "ready", "err"}

LEMMA TypeStart == TypeOK /\ (Start \/ CloseBegin \/ CloseEnd) => TypeOK'
<1> SUFFICES ASSUME TypeOK, Start \/ CloseBegin \/ CloseEnd PROVE TypeOK'
  OBVIOUS
<1>1. CASE Start
  BY <1>1 DEF Start, TypeOK, dialVars, netVars
<1>2. CASE CloseBegin
  <2>1. queue' \in Seq(Packets)
    <3>1. <<>> \in Seq(Packets)
      OBVIOUS
    <3> QED BY <1>2, <3>1 DEF CloseBegin, TypeOK
  <2> QED BY <1>2, <2>1 DEF CloseBegin, TypeOK, dialVars
<1>3. CASE CloseEnd
  <2>1. flow' \in [Flows -> FlowStates]
    BY <1>3, FinishType DEF CloseEnd, TypeOK
  <2> QED BY <1>3, <2>1 DEF CloseEnd, TypeOK, dialVars, netVars
<1> QED BY <1>1, <1>2, <1>3

LEMMA TypeDial == ASSUME TypeOK, Attempting, NEW d \in Dials, Dial(d) PROVE TypeOK'
<1> USE DEF TypeOK, engineVars, netVars
<1>1. CASE Begin(d)
  BY <1>1 DEF Begin, PCs
<1>2. CASE Take(d)
  <2>1. NextPort \in Ports
    BY NumbersAssumption DEF NextPort, Ports
  <2>2. attempt' \in [Dials -> 0..MaxAttempts]
    BY <1>2, NumbersAssumption DEF Take
  <2> QED BY <1>2, <2>1, <2>2 DEF Take, PCs
<1>3. CASE GiveUp(d)
  BY <1>3 DEF GiveUp, PCs
<1>4. CASE Register(d)
  <2>1. Current(d) \in Flows
    BY <1>4, CurrentType DEF Attempting, Register
  <2> QED BY <1>4, <2>1 DEF Register, PCs
<1>12. CASE Count(d)
  BY <1>12 DEF Count, PCs
<1>5. CASE PortBusy(d)
  BY <1>5 DEF PortBusy, PCs
<1>6. CASE AddrInUse(d)
  BY <1>6 DEF AddrInUse, PCs
<1>7. CASE ConnectFails(d) \/ ConnectTimeout(d)
  BY <1>7 DEF ConnectFails, ConnectTimeout, PCs
<1>8. CASE Connected(d)
  BY <1>8 DEF Connected, PCs
<1>9. CASE Resolved(d)
  BY <1>9 DEF Resolved, PCs
<1>10. CASE GiveUpWaiting(d)
  BY <1>10 DEF GiveUpWaiting, PCs
<1>11. CASE Unregister(d)
  <2>1. (IF table[port[d]] = None THEN AfterLeaving(pc[d]) ELSE ToUncount(pc[d])) \in PCs
    BY DEF AfterLeaving, ToUncount, Uncounting, PCs
  <2> QED BY <1>11, <2>1 DEF Unregister
<1>13. CASE Uncount(d)
  <2>1. ToFinish(pc[d]) \in PCs
    BY DEF ToFinish, Finishing, PCs
  <2> QED BY <1>13, <2>1 DEF Uncount
<1>14. CASE FinishRemoved(d)
  <2>1. flow' \in [Flows -> FlowStates]
    BY <1>14, FinishType DEF FinishRemoved
  <2>2. AfterLeaving(pc[d]) \in PCs
    BY DEF AfterLeaving, PCs
  <2> QED BY <1>14, <2>1, <2>2 DEF FinishRemoved
<1> QED BY <1>1, <1>2, <1>3, <1>4, <1>5, <1>6, <1>7, <1>8, <1>9, <1>10, <1>11, <1>12, <1>13,
           <1>14 DEF Dial

LEMMA TypeCapture == TypeOK /\ Capture => TypeOK'
<1> SUFFICES ASSUME TypeOK, Capture PROVE TypeOK'
  OBVIOUS
<1>1. CASE CaptureRecv
  <2>1. Head(queue) \in Packets /\ Tail(queue) \in Seq(Packets)
    BY <1>1 DEF CaptureRecv, TypeOK
  <2>2. flow' \in [Flows -> FlowStates]
    BY <1>1, <2>1, DispatchType DEF CaptureRecv
  <2> QED BY <1>1, <2>1, <2>2 DEF CaptureRecv, TypeOK, dialVars, engineVars
<1>2. CASE CaptureResend
  <2>1. hand \in Packets
    BY <1>2 DEF CaptureResend, TypeOK
  <2>2. CASE hand.kind \in Outbound
    BY <1>2, <2>1, <2>2 DEF CaptureResend, TypeOK, dialVars, engineVars
  <2>3. CASE hand.kind \notin Outbound
    <3>1. /\ kernel' \in [Dials -> {"none", "synsent", "estab", "closed"}]
          /\ queue' \in Seq(Packets) /\ wire' \subseteq Packets
      BY <1>2, <2>1, <2>3, KernelReceiveType DEF CaptureResend, TypeOK
    <3> QED BY <1>2, <3>1 DEF CaptureResend, TypeOK, dialVars, engineVars
  <2> QED BY <2>2, <2>3
<1>3. CASE CaptureResendFails
  BY <1>3 DEF CaptureResendFails, TypeOK, dialVars, engineVars
<1>4. CASE CaptureExit
  BY <1>4 DEF CaptureExit, TypeOK, dialVars, netVars
<1> QED BY <1>1, <1>2, <1>3, <1>4 DEF Capture

LEMMA TypeInject == ASSUME TypeOK, NEW f \in Flows, Inject(f) PROVE TypeOK'
<1>0. flow[f] \in FlowStates
  BY DEF TypeOK
<1>1. CASE InjectAbort(f)
  <2>1. [flow[f] EXCEPT !.inj = "ended"] \in FlowStates
    BY <1>0 DEF FlowStates
  <2> QED BY <1>1, <2>1 DEF InjectAbort, TypeOK, dialVars, engineVars, netVars
<1>2. CASE InjectArm(f)
  <2> DEFINE armed == [flow[f] EXCEPT !.inj = "armed",
                                      !.fake = <<flow[f].syn, flow[f].synack>>]
  <2>1. armed \in FlowStates
    BY <1>0 DEF FlowStates
  <2>2. flow' = [flow EXCEPT ![f] = armed]
    BY <1>2 DEF InjectArm
  <2> QED BY <1>2, <2>1, <2>2 DEF InjectArm, TypeOK, dialVars, engineVars, netVars
<1>3. CASE InjectSend(f)
  <2> DEFINE out == [flow[f] EXCEPT !.inj = "ended", !.sent = @ + 1]
  <2>0. flow[f].sent + 1 \in Nat
    BY <1>0 DEF FlowStates
  <2>1. out \in FlowStates
    <3> DEFINE n == flow[f].sent + 1
    <3> HIDE DEF n
    <3>1. n \in Nat
      BY <2>0 DEF n
    <3>2. [flow[f] EXCEPT !.inj = "ended", !.sent = n] \in FlowStates
      BY <1>0, <3>1 DEF FlowStates
    <3> QED BY <3>2 DEF n
  <2>2. Finish(out, "ok") \in FlowStates
    BY <2>1, FinishType
  <2>3. flow' \in [Flows -> FlowStates]
    BY <1>3, <2>1, <2>2 DEF InjectSend, TypeOK
  <2>4. f[1] \in Dials
    BY DEF Flows
  <2>5. wire' \subseteq Packets
    BY <1>3, <2>4, PacketType DEF InjectSend, TypeOK, Outbound
  <2> QED BY <1>3, <2>3, <2>5 DEF InjectSend, TypeOK, dialVars, engineVars
<1>4. CASE InjectFails(f)
  <2>1. [flow[f] EXCEPT !.inj = "ended"] \in FlowStates
    BY <1>0 DEF FlowStates
  <2>2. Finish([flow[f] EXCEPT !.inj = "ended"], "err") \in FlowStates
    BY <2>1, FinishType
  <2> QED BY <1>4, <2>2 DEF InjectFails, TypeOK, dialVars, engineVars, netVars
<1> QED BY <1>1, <1>2, <1>3, <1>4 DEF Inject

LEMMA TypeEnvironment == TypeOK /\ Environment => TypeOK'
<1> SUFFICES ASSUME TypeOK, Environment PROVE TypeOK'
  OBVIOUS
<1> USE DEF dialVars, engineVars
<1>1. CASE \E d \in Dials : KernelSYN(d)
  <2>1. PICK d \in Dials : KernelSYN(d)
    BY <1>1
  <2>2. queue' \in Seq(Packets) /\ wire' \subseteq Packets
    BY <2>1, EmitType, PacketType DEF KernelSYN, TypeOK, Outbound
  <2> QED BY <2>1, <2>2 DEF KernelSYN, TypeOK
<1>2. CASE \E d \in Dials : EdgeRetransmit(d) \/ EdgeReset(d)
  <2>1. PICK d \in Dials : EdgeRetransmit(d) \/ EdgeReset(d)
    BY <1>2
  <2>2. Packet("SYNACK", d) \in Packets /\ Packet("RST", d) \in Packets
    BY PacketType DEF Inbound
  <2>3. CASE EdgeRetransmit(d)
    BY <2>2, <2>3 DEF EdgeRetransmit, TypeOK
  <2>4. CASE EdgeReset(d)
    BY <2>2, <2>4 DEF EdgeReset, TypeOK
  <2> QED BY <2>1, <2>3, <2>4
<1>3. CASE \E m \in wire : Arrive(m)
  <2>1. PICK m \in wire : Arrive(m)
    BY <1>3
  <2>2. m \in Packets
    BY DEF TypeOK
  <2>3. CASE Captured(m.kind)
    <3>1. queue' \in Seq(Packets)
      BY <2>1, <2>2, <2>3, DivertType DEF Arrive, TypeOK
    <3> QED BY <2>1, <2>3, <3>1 DEF Arrive, TypeOK
  <2>4. CASE ~Captured(m.kind)
    <3>1. wire \ {m} \in SUBSET Packets /\ queue \in Seq(Packets)
      BY DEF TypeOK
    <3>2. KernelReceive(m, wire \ {m}, queue)
      BY <2>1, <2>4 DEF Arrive
    <3>3. /\ kernel' \in [Dials -> {"none", "synsent", "estab", "closed"}]
          /\ queue' \in Seq(Packets) /\ wire' \subseteq Packets
      BY <2>2, <3>1, <3>2, KernelReceiveType
    <3> QED BY <2>1, <3>3 DEF Arrive, TypeOK
  <2> QED BY <2>3, <2>4
<1>4. CASE \E m \in wire : Lose(m)
  BY <1>4 DEF Lose, TypeOK
<1>5. CASE \E m \in wire : EdgeReceive(m)
  <2>1. PICK m \in wire : EdgeReceive(m)
    BY <1>5
  <2>2. m.conn \in Dials
    BY DEF TypeOK, Packets
  <2>3. Reply(m) \subseteq Inbound
    BY DEF Reply, Inbound, PureACK
  <2>4. wire' \subseteq Packets
    BY <2>1, <2>2, <2>3, PacketType DEF EdgeReceive, TypeOK
  <2>5. peer' \in [Dials -> {"none", "synrcvd", "estab", "gone"}]
    BY <2>1, <2>2 DEF EdgeReceive, TypeOK
  <2> QED BY <2>1, <2>4, <2>5 DEF EdgeReceive, TypeOK
<1> QED BY <1>1, <1>2, <1>3, <1>4, <1>5 DEF Environment

LEMMA AttemptingStep == TypeOK /\ Attempting /\ [Next]_vars => Attempting'
<1> SUFFICES ASSUME TypeOK, Attempting, [Next]_vars PROVE Attempting'
  OBVIOUS
<1>1. ASSUME NEW d \in Dials, Dial(d) PROVE Attempting'
  <2>1. CASE Take(d)
    <3>1. attempt'[d] # 0
      BY <2>1 DEF Take, TypeOK
    <3> QED BY <2>1, <3>1 DEF Take, TypeOK, Attempting
  <2>2. CASE ~Take(d)
    <3>1. attempt' = attempt
      BY <1>1, <2>2 DEF Dial, Begin, GiveUp, Register, Count, PortBusy, AddrInUse,
         ConnectFails, ConnectTimeout, Connected, Resolved, GiveUpWaiting, Unregister, Uncount,
         FinishRemoved
    <3>2. pc[d] # "idle" => pc'[d] # "idle"
      BY <1>1, <2>2 DEF Dial, Begin, GiveUp, Register, Count, PortBusy, AddrInUse,
         AfterLeaving, ToUncount, ToFinish, ConnectFails, ConnectTimeout, Connected, Resolved,
         GiveUpWaiting, Unregister, Uncount, FinishRemoved, TypeOK, Leaving
    <3>3. attempt[d] = 0 => pc'[d] \in {"idle", "ready", "err"}
      BY <1>1, <2>2 DEF Attempting, Dial, Begin, GiveUp, Register, Count, PortBusy, AddrInUse,
         ConnectFails, ConnectTimeout, Connected, Resolved, GiveUpWaiting, Unregister, Uncount,
         FinishRemoved, Leaving, TypeOK
    <3>4. \A e \in Dials : e # d => pc'[e] = pc[e]
      BY <1>1, <2>2 DEF Dial, Begin, GiveUp, Register, Count, PortBusy, AddrInUse,
         ConnectFails, ConnectTimeout, Connected, Resolved, GiveUpWaiting, Unregister, Uncount,
         FinishRemoved, TypeOK
    <3> QED BY <3>1, <3>3, <3>4 DEF Attempting
  <2> QED BY <2>1, <2>2
<1>2. CASE UNCHANGED dialVars
  BY <1>2 DEF Attempting, dialVars
<1>3. CASE Start \/ CloseBegin \/ CloseEnd
  BY <1>2, <1>3 DEF Start, CloseBegin, CloseEnd
<1>4. CASE Capture
  BY <1>2, <1>4 DEF Capture, CaptureRecv, CaptureResend, CaptureResendFails, CaptureExit
<1>5. CASE \E f \in Flows : Inject(f)
  BY <1>2, <1>5 DEF Inject, InjectAbort, InjectArm, InjectSend, InjectFails
<1>6. CASE Environment
  BY <1>2, <1>6 DEF Environment, KernelSYN, EdgeRetransmit, EdgeReset, Arrive, Lose, EdgeReceive
<1>7. CASE UNCHANGED vars
  BY <1>2, <1>7 DEF vars
<1> QED BY <1>1, <1>3, <1>4, <1>5, <1>6, <1>7 DEF Next

LEMMA TypeInit == Init => TypeOK /\ Attempting
<1> SUFFICES ASSUME Init PROVE TypeOK /\ Attempting
  OBVIOUS
<1>1. NoFlow \in FlowStates
  BY DEF NoFlow, FlowStates
<1>2. 0 \in Ports
  BY NumbersAssumption DEF Ports
<1>3. 0 \in 0..MaxAttempts
  BY NumbersAssumption
<1>4. queue \in Seq(Packets)
  BY DEF Init
<1> QED BY <1>1, <1>2, <1>3, <1>4 DEF Init, TypeOK, Attempting, PCs

LEMMA TypeStep == TypeOK /\ Attempting /\ [Next]_vars => TypeOK'
<1> SUFFICES ASSUME TypeOK, Attempting, [Next]_vars PROVE TypeOK'
  OBVIOUS
<1>1. CASE UNCHANGED vars
  BY <1>1 DEF TypeOK, vars, dialVars, engineVars, netVars
<1> QED BY <1>1, TypeStart, TypeDial, TypeCapture, TypeInject, TypeEnvironment DEF Next

\* Every variable keeps its type: in particular the dials, the flow table and the
\* goroutines only ever name flow objects that exist.
THEOREM TypeCorrect == Spec => [](TypeOK /\ Attempting)
<1>1. TypeOK /\ Attempting /\ [Next]_vars => (TypeOK /\ Attempting)'
  BY TypeStep, AttemptingStep
<1> QED BY <1>1, TypeInit, PTL DEF Spec

-----------------------------------------------------------------------------
(* One flow object: what a step can do to it, and its invariant.           *)

ArmedFlow(fl) == [fl EXCEPT !.inj = "armed", !.fake = <<fl.syn, fl.synack>>]
SentFlow(fl)  == [fl EXCEPT !.inj = "ended", !.sent = @ + 1]
EndedFlow(fl) == [fl EXCEPT !.inj = "ended"]

FlowStep(fl, gl) ==
    \/ gl = fl
    \/ gl = Finish(fl, "err")
    \/ \E m \in Packets : gl = Observe(m, fl)
    \/ fl.inj = "delay" /\ (gl = EndedFlow(fl) \/ gl = ArmedFlow(fl))
    \/ /\ fl.inj = "armed"
       /\ gl \in {IF Mode = "fast" THEN Finish(SentFlow(fl), "ok") ELSE SentFlow(fl),
                  Finish(EndedFlow(fl), "err")}

\* The life of a flow: the SYN is read before the SYN-ACK, the SYN-ACK starts the
\* one injecting goroutine, the numbers are fixed before the record goes out, the
\* record goes out once, and only then (safe mode: only after injected is set)
\* can the flow resolve well.
FlowOK(fl) ==
    /\ fl.inj = "none" <=> fl.synack = None
    /\ fl.synack # None => fl.syn # None
    /\ fl.inj = "armed" => fl.fake # <<>>
    /\ fl.fake # <<>> => fl.inj \in {"armed", "ended"}
    /\ fl.sent > 0 => fl.inj = "ended" /\ fl.fake # <<>>
    /\ fl.sent <= 1
    /\ fl.done = "ok" => fl.fake # <<>> /\ (Mode = "fast" => fl.sent = 1)

FlowsOK == \A f \in Flows : FlowOK(flow[f])

LEMMA FinishFields ==
    ASSUME NEW fl \in FlowStates, NEW outcome \in {"ok", "err"}
    PROVE  LET gl == Finish(fl, outcome) IN
           /\ gl.syn = fl.syn /\ gl.synack = fl.synack /\ gl.fake = fl.fake
           /\ gl.sent = fl.sent /\ gl.inj = fl.inj
           /\ gl.done = IF fl.done = "open" THEN outcome ELSE fl.done
BY DEF Finish, FlowStates

LEMMA FlowStepDone ==
    ASSUME NEW fl \in FlowStates, NEW gl \in FlowStates, FlowStep(fl, gl),
           fl.done # "open"
    PROVE  gl.done = fl.done
<1>1. CASE gl = fl \/ gl = Finish(fl, "err")
  BY <1>1, FinishFields
<1>2. ASSUME NEW m \in Packets, gl = Observe(m, fl) PROVE gl.done = fl.done
  BY <1>2, FinishFields DEF Observe, FlowStates
<1>3. EndedFlow(fl) \in FlowStates /\ EndedFlow(fl).done = fl.done
  BY DEF EndedFlow, FlowStates
<1>4. ArmedFlow(fl).done = fl.done
  BY DEF ArmedFlow, FlowStates
<1>5. SentFlow(fl) \in FlowStates /\ SentFlow(fl).done = fl.done
  <2> DEFINE n == fl.sent + 1
  <2>1. n \in Nat
    BY DEF FlowStates
  <2> HIDE DEF n
  <2>2. LET out == [fl EXCEPT !.inj = "ended", !.sent = n] IN
        out \in FlowStates /\ out.done = fl.done
    BY <2>1 DEF FlowStates
  <2> QED BY <2>2 DEF n, SentFlow
<1> QED BY <1>1, <1>2, <1>3, <1>4, <1>5, FinishFields DEF FlowStep

LEMMA FlowStepOK ==
    ASSUME NEW fl \in FlowStates, NEW gl \in FlowStates, FlowOK(fl), FlowStep(fl, gl)
    PROVE  FlowOK(gl)
<1>1. CASE gl = fl
  BY <1>1
<1>2. ASSUME NEW hl \in FlowStates, NEW outcome \in {"ok", "err"}, FlowOK(hl),
             outcome = "ok" => hl.fake # <<>> /\ (Mode = "fast" => hl.sent = 1)
      PROVE  FlowOK(Finish(hl, outcome))
  BY <1>2, FinishFields DEF FlowOK
<1>3. ASSUME NEW m \in Packets, gl = Observe(m, fl) PROVE FlowOK(gl)
  <2>1. m.conn \in Dials /\ m.conn # None
    BY DialsAssumption DEF Packets
  <2>2. CASE m.kind = "RST"
    BY <1>2, <1>3, <2>2 DEF Observe, PureACK
  <2>3. CASE m.kind = "SYN"
    <3>1. gl = [fl EXCEPT !.syn = m.conn]
      BY <1>3, <2>3 DEF Observe, PureACK
    <3>2. /\ gl.syn = m.conn /\ gl.synack = fl.synack /\ gl.fake = fl.fake
          /\ gl.sent = fl.sent /\ gl.inj = fl.inj /\ gl.done = fl.done
      BY <3>1 DEF FlowStates
    <3> QED BY <2>1, <3>2 DEF FlowOK
  <2>4. CASE m.kind = "SYNACK" /\ Ready(fl)
    <3>1. gl = [fl EXCEPT !.synack = m.conn, !.inj = "delay"]
      BY <1>3, <2>4 DEF Observe, PureACK
    <3>2. /\ gl.syn = fl.syn /\ gl.synack = m.conn /\ gl.fake = fl.fake
          /\ gl.sent = fl.sent /\ gl.inj = "delay" /\ gl.done = fl.done
      BY <3>1 DEF FlowStates
    <3>3. fl.syn # None /\ fl.synack = None
      BY <2>4 DEF Ready
    <3>4. fl.inj = "none" /\ fl.fake = <<>> /\ fl.sent = 0 /\ fl.done # "ok"
      BY <3>3 DEF FlowOK, FlowStates
    <3> QED BY <2>1, <3>2, <3>3, <3>4 DEF FlowOK
  <2>5. CASE m.kind \in PureACK /\ Mode = "safe" /\ Acknowledges(m, fl)
    <3>1. gl = Finish(fl, "ok") /\ fl.fake # <<>> /\ Mode # "fast"
      BY <1>3, <2>5 DEF Observe, PureACK, Acknowledges
    <3> QED BY <1>2, <3>1
  <2>6. CASE /\ m.kind # "RST" /\ m.kind # "SYN" /\ ~(m.kind = "SYNACK" /\ Ready(fl))
             /\ ~(m.kind \in PureACK /\ Mode = "safe" /\ Acknowledges(m, fl))
    BY <1>3, <2>6 DEF Observe
  <2> QED BY <2>2, <2>3, <2>4, <2>5, <2>6
<1>4. CASE fl.inj = "delay" /\ gl = EndedFlow(fl)
  <2>1. /\ gl.syn = fl.syn /\ gl.synack = fl.synack /\ gl.fake = fl.fake
        /\ gl.sent = fl.sent /\ gl.inj = "ended" /\ gl.done = fl.done
    BY <1>4 DEF EndedFlow, FlowStates
  <2> QED BY <1>4, <2>1 DEF FlowOK
<1>5. CASE fl.inj = "delay" /\ gl = ArmedFlow(fl)
  <2>1. /\ gl.syn = fl.syn /\ gl.synack = fl.synack /\ gl.fake = <<fl.syn, fl.synack>>
        /\ gl.sent = fl.sent /\ gl.inj = "armed" /\ gl.done = fl.done
    BY <1>5 DEF ArmedFlow, FlowStates
  <2>2. fl.sent = 0 /\ fl.done # "ok"
    BY <1>5 DEF FlowOK, FlowStates
  <2> QED BY <1>5, <2>1, <2>2 DEF FlowOK
<1>6. fl.inj = "armed" => EndedFlow(fl) \in FlowStates /\ FlowOK(EndedFlow(fl))
  <2> SUFFICES ASSUME fl.inj = "armed"
               PROVE  EndedFlow(fl) \in FlowStates /\ FlowOK(EndedFlow(fl))
    OBVIOUS
  <2> DEFINE hl == EndedFlow(fl)
  <2>1. /\ hl \in FlowStates
        /\ hl.syn = fl.syn /\ hl.synack = fl.synack /\ hl.fake = fl.fake
        /\ hl.sent = fl.sent /\ hl.inj = "ended" /\ hl.done = fl.done
    BY DEF EndedFlow, FlowStates
  <2> QED BY <2>1 DEF FlowOK
<1>7. fl.inj = "armed" => /\ SentFlow(fl) \in FlowStates /\ FlowOK(SentFlow(fl))
                          /\ SentFlow(fl).fake # <<>> /\ SentFlow(fl).sent = 1
  <2> SUFFICES ASSUME fl.inj = "armed"
               PROVE  /\ SentFlow(fl) \in FlowStates /\ FlowOK(SentFlow(fl))
                      /\ SentFlow(fl).fake # <<>> /\ SentFlow(fl).sent = 1
    OBVIOUS
  <2>1. fl.sent = 0 /\ fl.fake # <<>> /\ fl.synack # None /\ fl.syn # None
    BY DEF FlowOK, FlowStates
  <2>2. SentFlow(fl) = [fl EXCEPT !.inj = "ended", !.sent = 1]
    BY <2>1 DEF SentFlow
  <2> DEFINE hl == [fl EXCEPT !.inj = "ended", !.sent = 1]
  <2>3. /\ hl \in FlowStates
        /\ hl.syn = fl.syn /\ hl.synack = fl.synack /\ hl.fake = fl.fake
        /\ hl.sent = 1 /\ hl.inj = "ended" /\ hl.done = fl.done
    BY DEF FlowStates
  <2>4. FlowOK(hl)
    BY <2>1, <2>3 DEF FlowOK
  <2> QED BY <2>1, <2>2, <2>3, <2>4
<1> QED BY <1>1, <1>2, <1>3, <1>4, <1>5, <1>6, <1>7 DEF FlowStep

LEMMA NextFlow ==
    ASSUME TypeOK, Attempting, [Next]_vars
    PROVE  \A f \in Flows : FlowStep(flow[f], flow'[f])
<1>1. CASE UNCHANGED flow
  BY <1>1 DEF FlowStep
<1>2. CASE UNCHANGED vars
  BY <1>1, <1>2 DEF vars
<1>3. CASE CloseEnd
  BY <1>3 DEF CloseEnd, FlowStep
<1>4. CASE Start \/ CloseBegin
  BY <1>1, <1>4 DEF Start, CloseBegin
<1>5. ASSUME NEW d \in Dials, Dial(d)
      PROVE  \A f \in Flows : FlowStep(flow[f], flow'[f])
  <2>1. CASE FinishRemoved(d)
    BY <2>1 DEF FinishRemoved, FlowStep, TypeOK
  <2>2. CASE ~FinishRemoved(d)
    BY <1>1, <1>5, <2>2 DEF Dial, Begin, Take, GiveUp, Register, Count, PortBusy, AddrInUse,
       ConnectFails, ConnectTimeout, Connected, Resolved, GiveUpWaiting, Unregister, Uncount
  <2> QED BY <2>1, <2>2
<1>6. CASE CaptureRecv
  <2> DEFINE m == Head(queue)
             g == table[port[m.conn]]
  <2>1. m \in Packets
    BY <1>6 DEF CaptureRecv, TypeOK
  <2>2. g \in Flows \cup {None}
    BY <2>1 DEF TypeOK, Packets
  <2>3. CASE g = None
    BY <1>1, <1>6, <2>3 DEF CaptureRecv, Dispatch
  <2>4. CASE g # None
    <3>1. flow' = [flow EXCEPT ![g] = Observe(m, flow[g])]
      BY <1>6, <2>4 DEF CaptureRecv, Dispatch
    <3> HIDE DEF m, g
    <3> QED BY <2>1, <2>2, <2>4, <3>1 DEF FlowStep, TypeOK
  <2> QED BY <2>3, <2>4
<1>7. CASE Capture /\ ~CaptureRecv
  BY <1>1, <1>7 DEF Capture, CaptureResend, CaptureResendFails, CaptureExit
<1>8. ASSUME NEW f \in Flows, Inject(f)
      PROVE  \A g \in Flows : FlowStep(flow[g], flow'[g])
  <2>1. flow' = [flow EXCEPT ![f] = flow'[f]] /\ FlowStep(flow[f], flow'[f])
    <3>1. CASE InjectAbort(f)
      BY <3>1 DEF InjectAbort, FlowStep, EndedFlow, TypeOK
    <3>2. CASE InjectArm(f)
      BY <3>2 DEF InjectArm, FlowStep, ArmedFlow, TypeOK
    <3>3. CASE InjectSend(f)
      BY <3>3 DEF InjectSend, FlowStep, SentFlow, TypeOK
    <3>4. CASE InjectFails(f)
      BY <3>4 DEF InjectFails, FlowStep, EndedFlow, TypeOK
    <3> QED BY <1>8, <3>1, <3>2, <3>3, <3>4 DEF Inject
  <2> QED BY <2>1 DEF FlowStep, TypeOK
<1>9. CASE Environment
  BY <1>1, <1>9 DEF Environment, KernelSYN, EdgeRetransmit, EdgeReset, Arrive, Lose, EdgeReceive
<1> QED BY <1>2, <1>3, <1>4, <1>5, <1>6, <1>7, <1>8, <1>9 DEF Next, Capture

-----------------------------------------------------------------------------
(* The inductive invariant behind the results on returned connections.     *)

\* A dial that leaves with a connection works on a flow that resolved well.
ReturningWell == {"leave_ok", "uncount_ok", "finish_ok", "ok"}

Returned == \A d \in Dials : pc[d] \in ReturningWell => flow[Current(d)].done = "ok"

IInv == TypeOK /\ Attempting /\ FlowsOK /\ Returned

LEMMA IInvInit == Init => IInv
<1> SUFFICES ASSUME Init PROVE FlowsOK /\ Returned
  BY TypeInit DEF IInv
<1>1. FlowOK(NoFlow)
  BY DEF FlowOK, NoFlow
<1> QED BY <1>1 DEF Init, FlowsOK, Returned, ReturningWell

\* A step that is not the dial's own leaves its goroutine where it is.
LEMMA DialFrame ==
    ASSUME TypeOK, [Next]_vars, NEW d \in Dials, ~Dial(d)
    PROVE  /\ pc'[d] = pc[d] /\ attempt'[d] = attempt[d] /\ port'[d] = port[d]
           /\ removed'[d] = removed[d]
<1>1. CASE UNCHANGED dialVars
  BY <1>1 DEF dialVars
<1>2. ASSUME NEW e \in Dials, e # d, Dial(e)
      PROVE  /\ pc'[d] = pc[d] /\ attempt'[d] = attempt[d] /\ port'[d] = port[d]
             /\ removed'[d] = removed[d]
  BY <1>2 DEF TypeOK, Dial, Begin, Take, GiveUp, Register, Count, PortBusy, AddrInUse,
     ConnectFails, ConnectTimeout, Connected, Resolved, GiveUpWaiting, Unregister, Uncount,
     FinishRemoved
<1>3. CASE Start \/ CloseBegin \/ CloseEnd \/ UNCHANGED vars
  BY <1>1, <1>3 DEF Start, CloseBegin, CloseEnd, vars
<1>4. CASE Capture \/ \E f \in Flows : Inject(f)
  BY <1>1, <1>4 DEF Capture, CaptureRecv, CaptureResend, CaptureResendFails, CaptureExit,
     Inject, InjectAbort, InjectArm, InjectSend, InjectFails
<1>5. CASE Environment
  BY <1>1, <1>5 DEF Environment, KernelSYN, EdgeRetransmit, EdgeReset, Arrive, Lose, EdgeReceive
<1> QED BY <1>2, <1>3, <1>4, <1>5 DEF Next

LEMMA ReturnedStep == IInv /\ [Next]_vars => Returned'
<1> SUFFICES ASSUME IInv, [Next]_vars, NEW d \in Dials, pc'[d] \in ReturningWell
             PROVE  (flow[Current(d)].done)' = "ok"
  BY DEF Returned
<1> USE DEF IInv, ReturningWell
<1>1. TypeOK' /\ Attempting'
  BY TypeStep, AttemptingStep
<1>2. ASSUME Current(d)' = Current(d), flow[Current(d)].done = "ok", attempt[d] # 0
      PROVE  (flow[Current(d)].done)' = "ok"
  <2> DEFINE f == Current(d)
  <2>1. f \in Flows
    BY <1>2, CurrentType DEF TypeOK
  <2>2. flow[f] \in FlowStates /\ flow'[f] \in FlowStates
    BY <1>1, <2>1 DEF TypeOK
  <2>3. FlowStep(flow[f], flow'[f])
    BY <2>1, NextFlow
  <2>4. flow'[f].done = flow[f].done
    BY <1>2, <2>2, <2>3, FlowStepDone
  <2> QED BY <1>2, <2>4
<1>3. CASE Dial(d)
  <2>1. attempt'[d] = attempt[d] /\ attempt[d] # 0 /\ pc[d] # "idle"
    BY <1>3 DEF TypeOK, Attempting, Dial, Begin, Take, GiveUp, Register, Count, PortBusy,
       AddrInUse, ConnectFails, ConnectTimeout, Connected, Resolved, GiveUpWaiting, Unregister,
       Uncount, FinishRemoved, AfterLeaving, ToUncount, ToFinish, Leaving
  <2>2. Current(d)' = Current(d)
    BY <2>1 DEF Current
  <2>3. Resolved(d) \/ Unregister(d) \/ Uncount(d) \/ FinishRemoved(d)
    BY <1>3 DEF TypeOK, Dial, Begin, Take, GiveUp, Register, Count, PortBusy, AddrInUse,
       ConnectFails, ConnectTimeout, Connected, GiveUpWaiting
  <2>4. flow[Current(d)].done = "ok"
    BY <2>3 DEF Resolved, Unregister, Uncount, FinishRemoved, AfterLeaving, ToUncount, ToFinish,
       Returned, TypeOK
  <2> QED BY <1>2, <2>1, <2>2, <2>4
<1>4. CASE ~Dial(d)
  <2>1. pc'[d] = pc[d] /\ attempt'[d] = attempt[d]
    BY <1>4, DialFrame
  <2>2. Current(d)' = Current(d) /\ attempt[d] # 0
    BY <2>1 DEF Current, Attempting
  <2> QED BY <1>2, <2>1, <2>2 DEF Returned
<1> QED BY <1>3, <1>4

LEMMA IInvStep == IInv /\ [Next]_vars => IInv'
<1> SUFFICES ASSUME IInv, [Next]_vars PROVE IInv'
  OBVIOUS
<1>1. TypeOK' /\ Attempting'
  BY TypeStep, AttemptingStep DEF IInv
<1>2. FlowsOK'
  <2> SUFFICES ASSUME NEW f \in Flows PROVE FlowOK(flow'[f])
    BY DEF FlowsOK
  <2>1. flow[f] \in FlowStates /\ flow'[f] \in FlowStates
    BY <1>1 DEF IInv, TypeOK
  <2>2. FlowStep(flow[f], flow'[f])
    BY NextFlow DEF IInv
  <2> QED BY <2>1, <2>2, FlowStepOK DEF IInv, FlowsOK
<1> QED BY <1>1, <1>2, ReturnedStep DEF IInv

LEMMA Invariance == Spec => []IInv
BY IInvInit, IInvStep, PTL DEF Spec

LEMMA ReturnedPrimed == IInv => PrimedReturn
<1> SUFFICES ASSUME IInv, NEW d \in Dials, pc[d] \in ReturningWell
             PROVE  LET fl == flow[Current(d)] IN
                    /\ fl.done = "ok"
                    /\ fl.syn # None /\ fl.synack # None /\ fl.fake # <<>>
                    /\ Mode = "fast" => fl.sent = 1
  BY DEF PrimedReturn, ReturningWell
<1>1. Current(d) \in Flows
  BY CurrentType DEF IInv, Attempting, TypeOK, ReturningWell
<1>2. flow[Current(d)].done = "ok" /\ FlowOK(flow[Current(d)])
  BY <1>1 DEF IInv, Returned, FlowsOK
<1> QED BY <1>2 DEF FlowOK

\* Whatever the packets, the faults and the other dials do, Dial hands out a
\* connection only for a flow whose handshake was read and, in fast mode, whose
\* record was sent.
THEOREM PrimedReturnCorrect == Spec => []PrimedReturn
BY Invariance, ReturnedPrimed, PTL

\* No flow puts a second record on the wire, however often its SYN-ACK repeats.
THEOREM OneRecordCorrect == Spec => []OneRecord
<1>1. IInv => OneRecord
  BY DEF IInv, FlowsOK, FlowOK, OneRecord
<1> QED BY <1>1, Invariance, PTL

\* The first outcome of a flow stays.
THEOREM OutcomeFixedCorrect == Spec => OutcomeFixed
<1>1. TypeOK /\ Attempting /\ (TypeOK /\ Attempting)' /\ [Next]_vars =>
        [\A f \in Flows : flow[f].done # "open" => flow'[f].done = flow[f].done]_vars
  <2> SUFFICES ASSUME TypeOK, Attempting, TypeOK', [Next]_vars,
                      NEW f \in Flows, flow[f].done # "open"
               PROVE  flow'[f].done = flow[f].done
    OBVIOUS
  <2>1. flow[f] \in FlowStates /\ flow'[f] \in FlowStates
    BY DEF TypeOK
  <2> QED BY <2>1, NextFlow, FlowStepDone
<1> QED BY <1>1, TypeCorrect, PTL DEF Spec, OutcomeFixed

-----------------------------------------------------------------------------
(* The flow table.                                                         *)

\* Only the rest of an unregister holds a removed flow.
RemovedInUse ==
    \A d \in Dials : removed[d] # None => pc[d] \in Uncounting \cup Finishing

PInv == TypeOK /\ Attempting /\ RemovedInUse /\ PortOwnership /\ OrphansResolved

LEMMA RemovedStep == PInv /\ [Next]_vars => RemovedInUse'
<1> SUFFICES ASSUME PInv, [Next]_vars, NEW d \in Dials, removed'[d] # None
             PROVE  pc'[d] \in Uncounting \cup Finishing
  BY DEF RemovedInUse
<1>1. CASE removed'[d] = removed[d] /\ pc'[d] = pc[d]
  BY <1>1 DEF PInv, RemovedInUse
<1>2. CASE Dial(d)
  <2>1. CASE Unregister(d)
    BY <2>1 DEF Unregister, AfterLeaving, ToUncount, PInv, TypeOK
  <2>2. CASE Uncount(d)
    BY <2>2 DEF Uncount, ToFinish, PInv, TypeOK
  <2>3. CASE FinishRemoved(d)
    BY <2>3 DEF FinishRemoved, PInv, TypeOK
  <2>4. CASE ~Unregister(d) /\ ~Uncount(d) /\ ~FinishRemoved(d)
    <3>1. removed' = removed /\ pc[d] \notin Uncounting \cup Finishing
      BY <1>2, <2>4 DEF Dial, Begin, Take, GiveUp, Register, Count, PortBusy, AddrInUse,
         ConnectFails, ConnectTimeout, Connected, Resolved, GiveUpWaiting
    <3> QED BY <3>1 DEF PInv, RemovedInUse
  <2> QED BY <2>1, <2>2, <2>3, <2>4
<1>3. CASE ~Dial(d)
  BY <1>1, <1>3, DialFrame DEF PInv
<1> QED BY <1>2, <1>3

\* What resolved an orphan, or is about to, goes on doing so.
LEMMA OrphanStep ==
    ASSUME PInv, [Next]_vars, NEW f \in Flows,
           flow[f].done # "open" \/ \E e \in Dials : removed[e] = f
    PROVE  flow'[f].done # "open" \/ \E e \in Dials : removed'[e] = f
<1>1. flow[f] \in FlowStates /\ flow'[f] \in FlowStates
  BY TypeStep DEF PInv, TypeOK
<1>2. CASE flow[f].done # "open"
  BY <1>1, <1>2, NextFlow, FlowStepDone DEF PInv
<1>3. ASSUME NEW e \in Dials, removed[e] = f
      PROVE  flow'[f].done # "open" \/ removed'[e] = f
  <2>1. pc[e] \in Uncounting \cup Finishing
    BY <1>3, DialsAssumption DEF PInv, RemovedInUse, Flows
  <2>2. CASE FinishRemoved(e)
    <3>1. flow'[f] = Finish(flow[f], "err")
      BY <1>3, <2>2 DEF FinishRemoved, PInv, TypeOK
    <3> QED BY <1>1, <3>1, FinishFields
  <2>3. CASE Dial(e) /\ ~FinishRemoved(e)
    <3>1. Uncount(e)
      BY <2>1, <2>3 DEF Dial, Begin, Take, GiveUp, Register, Count, PortBusy, AddrInUse,
         ConnectFails, ConnectTimeout, Connected, Resolved, GiveUpWaiting, Unregister
    <3> QED BY <1>3, <3>1 DEF Uncount
  <2>4. CASE ~Dial(e)
    BY <1>3, <2>4, DialFrame DEF PInv
  <2> QED BY <2>2, <2>3, <2>4
<1> QED BY <1>2, <1>3

\* The flow of d has been resolved, or is about to be.
Resolving(d) ==
    flow[Current(d)].done # "open" \/ \E e \in Dials : removed[e] = Current(d)

\* A step without a change to the table keeps PortOwnership and OrphansResolved if
\* the dials in flight stay in flight on their ports.
LEMMA TableFrame ==
    ASSUME PInv, [Next]_vars, table' = table, closer' # "done" => closer # "done",
           \A d \in Dials : InFlight(d)' = InFlight(d),
           \A d \in Dials : InFlight(d) => port'[d] = port[d] /\ attempt'[d] = attempt[d]
    PROVE  PortOwnership' /\ OrphansResolved'
<1>1. \A d \in Dials : InFlight(d) => Current(d)' = Current(d)
  BY DEF Current
<1>2. PortOwnership'
  <2>1. ASSUME NEW p \in Ports, table[p] # None
        PROVE  \E d \in Dials : InFlight(d)' /\ port'[d] = p /\ table'[p] = Current(d)'
    <3>1. PICK d \in Dials : InFlight(d) /\ port[d] = p /\ table[p] = Current(d)
      BY <2>1 DEF PInv, PortOwnership
    <3> QED BY <1>1, <3>1
  <2>2. ASSUME closer' # "done", NEW d \in Dials, InFlight(d)'
        PROVE  table'[port'[d]] = Current(d)'
    BY <1>1, <2>2 DEF PInv, PortOwnership
  <2> QED BY <2>1, <2>2 DEF PortOwnership
<1>3. ASSUME NEW d \in Dials, InFlight(d)', table'[port'[d]] # Current(d)'
      PROVE  Resolving(d)'
  <2>1. InFlight(d) /\ table[port[d]] # Current(d) /\ Current(d)' = Current(d) /\ Resolving(d)
    BY <1>1, <1>3 DEF PInv, OrphansResolved, Resolving
  <2>2. Current(d) \in Flows
    BY <2>1, CurrentType DEF PInv, TypeOK, Attempting, InFlight
  <2> QED BY <2>1, <2>2, OrphanStep DEF Resolving
<1> QED BY <1>2, <1>3 DEF OrphansResolved, Resolving

LEMMA RegisterTable ==
    ASSUME PInv, NEW d \in Dials, Register(d)
    PROVE  PortOwnership' /\ OrphansResolved'
<1>1. /\ pc[d] = "register" /\ table[port[d]] = None
      /\ table' = [table EXCEPT ![port[d]] = Current(d)]
      /\ pc' = [pc EXCEPT ![d] = "count"]
      /\ attempt' = attempt /\ port' = port /\ flow' = flow /\ closer' = closer
      /\ removed' = removed
  BY DEF Register, PortFree, engineVars
<1>2. /\ \A e \in Dials : Current(e)' = Current(e) /\ port[e] \in Ports
      /\ \A e \in Dials : e # d => InFlight(e)' = InFlight(e)
      /\ ~InFlight(d) /\ InFlight(d)'
  BY <1>1 DEF Current, InFlight, PInv, TypeOK
<1>3. ASSUME NEW e \in Dials, InFlight(e), table[port[e]] = Current(e)
      PROVE  port[e] # port[d]
  <2>1. Current(e) \in Flows
    BY <1>3, CurrentType DEF PInv, TypeOK, Attempting, InFlight
  <2> QED BY <1>1, <1>3, <2>1, DialsAssumption DEF Flows
<1>4. PortOwnership'
  <2>1. ASSUME NEW p \in Ports, table'[p] # None
        PROVE  \E e \in Dials : InFlight(e)' /\ port'[e] = p /\ table'[p] = Current(e)'
    <3>1. CASE p = port[d]
      BY <1>1, <1>2, <3>1 DEF PInv, TypeOK
    <3>2. CASE p # port[d]
      <4>1. table'[p] = table[p] /\ table[p] # None
        BY <1>1, <2>1, <3>2 DEF PInv, TypeOK
      <4>2. PICK e \in Dials : InFlight(e) /\ port[e] = p /\ table[p] = Current(e)
        BY <4>1 DEF PInv, PortOwnership
      <4> QED BY <1>1, <1>2, <4>1, <4>2
    <3> QED BY <3>1, <3>2
  <2>2. ASSUME closer' # "done", NEW e \in Dials, InFlight(e)'
        PROVE  table'[port'[e]] = Current(e)'
    <3>1. CASE e = d
      BY <1>1, <1>2, <3>1 DEF PInv, TypeOK
    <3>2. CASE e # d
      <4>1. InFlight(e) /\ table[port[e]] = Current(e)
        BY <1>1, <1>2, <2>2, <3>2 DEF PInv, PortOwnership
      <4> QED BY <1>1, <1>2, <1>3, <4>1 DEF PInv, TypeOK
    <3> QED BY <3>1, <3>2
  <2> QED BY <2>1, <2>2 DEF PortOwnership
<1>5. ASSUME NEW e \in Dials, InFlight(e)', table'[port'[e]] # Current(e)'
      PROVE  Resolving(e)'
  <2>1. e # d
    BY <1>1, <1>2, <1>5 DEF PInv, TypeOK
  <2>2. table[port[e]] # Current(e)
    BY <1>1, <1>2, <1>3, <1>5, <2>1 DEF PInv, TypeOK
  <2> QED BY <1>1, <1>2, <1>5, <2>1, <2>2 DEF PInv, OrphansResolved, Resolving
<1> QED BY <1>4, <1>5 DEF OrphansResolved, Resolving

LEMMA UnregisterTable ==
    ASSUME PInv, [Next]_vars, NEW d \in Dials, Unregister(d)
    PROVE  PortOwnership' /\ OrphansResolved'
<1> DEFINE q == port[d]
<1>1. /\ InFlight(d) /\ ~InFlight(d)' /\ q \in Ports
      /\ table' = [table EXCEPT ![q] = None] /\ removed'[d] = table[q]
      /\ attempt' = attempt /\ port' = port /\ closer' = closer
      /\ \A e \in Dials : e # d => InFlight(e)' = InFlight(e)
  BY DEF Unregister, AfterLeaving, ToUncount, InFlight, PInv, TypeOK, engineVars
<1>2. \A e \in Dials : Current(e)' = Current(e) /\ port[e] \in Ports
  BY <1>1 DEF Current, PInv, TypeOK
<1>3. \A e, g \in Dials : Current(e) = Current(g) => e = g
  BY DEF Current
<1>4. PortOwnership'
  <2>1. ASSUME NEW p \in Ports, table'[p] # None
        PROVE  \E e \in Dials : InFlight(e)' /\ port'[e] = p /\ table'[p] = Current(e)'
    <3>1. p # q /\ table'[p] = table[p] /\ table[p] # None
      BY <1>1, <2>1 DEF PInv, TypeOK
    <3>2. PICK e \in Dials : InFlight(e) /\ port[e] = p /\ table[p] = Current(e)
      BY <3>1 DEF PInv, PortOwnership
    <3> QED BY <1>1, <1>2, <3>1, <3>2
  <2>2. ASSUME closer' # "done", NEW e \in Dials, InFlight(e)'
        PROVE  table'[port'[e]] = Current(e)'
    <3>1. e # d /\ InFlight(e) /\ table[port[e]] = Current(e) /\ table[q] = Current(d)
      BY <1>1, <2>2 DEF PInv, PortOwnership
    <3>2. port[e] # q
      BY <1>3, <3>1
    <3> QED BY <1>1, <1>2, <3>1, <3>2 DEF PInv, TypeOK
  <2> QED BY <2>1, <2>2 DEF PortOwnership
<1>5. ASSUME NEW e \in Dials, InFlight(e)', table'[port'[e]] # Current(e)'
      PROVE  Resolving(e)'
  <2> DEFINE f == Current(e)
  <2>1. e # d /\ InFlight(e) /\ Current(e)' = f
    BY <1>1, <1>2, <1>5
  <2>2. f \in Flows
    BY <2>1, CurrentType DEF PInv, TypeOK, Attempting, InFlight
  <2>3. CASE table[port[e]] = f
    <3>1. port[e] = q
      BY <1>1, <1>2, <1>5, <2>3 DEF PInv, TypeOK
    <3> QED BY <1>1, <2>1, <2>3, <3>1 DEF Resolving
  <2>4. CASE table[port[e]] # f
    BY <2>1, <2>2, <2>4, OrphanStep DEF PInv, OrphansResolved, Resolving
  <2> QED BY <2>3, <2>4
<1> QED BY <1>4, <1>5 DEF OrphansResolved, Resolving

LEMMA CloseEndTable ==
    ASSUME PInv, CloseEnd
    PROVE  PortOwnership' /\ OrphansResolved'
<1>1. /\ table' = [p \in Ports |-> None] /\ closer' = "done" /\ closer = "waiting"
      /\ \A d \in Dials : Current(d)' = Current(d) /\ InFlight(d)' = InFlight(d)
      /\ port' = port
  BY DEF CloseEnd, Current, InFlight, dialVars
<1>2. PortOwnership'
  BY <1>1 DEF PortOwnership
<1>3. ASSUME NEW d \in Dials, InFlight(d)'
      PROVE  Resolving(d)'
  <2> DEFINE f == Current(d)
  <2>1. InFlight(d) /\ table[port[d]] = f /\ port[d] \in Ports /\ Current(d)' = f
    BY <1>1, <1>3 DEF PInv, PortOwnership, TypeOK
  <2>2. f \in Flows
    BY <2>1, CurrentType DEF PInv, TypeOK, Attempting, InFlight
  <2>3. flow'[f] = Finish(flow[f], "err") /\ flow[f] \in FlowStates
    BY <2>1, <2>2 DEF CloseEnd, PInv, TypeOK
  <2> QED BY <2>1, <2>3, FinishFields DEF Resolving
<1> QED BY <1>2, <1>3 DEF OrphansResolved, Resolving

LEMMA PInvStep == PInv /\ [Next]_vars => PInv'
<1> SUFFICES ASSUME PInv, [Next]_vars PROVE PortOwnership' /\ OrphansResolved'
  BY TypeStep, AttemptingStep, RemovedStep DEF PInv
<1>1. CASE UNCHANGED <<dialVars, table, closer>>
  BY <1>1, TableFrame DEF dialVars, InFlight
<1>2. CASE CloseEnd
  BY <1>2, CloseEndTable
<1>3. CASE Start \/ UNCHANGED vars
  BY <1>1, <1>3 DEF Start, vars, engineVars
<1>4. CASE CloseBegin
  <2>1. UNCHANGED dialVars /\ UNCHANGED table /\ closer = "no"
    BY <1>4 DEF CloseBegin
  <2> QED BY <2>1, TableFrame DEF dialVars, InFlight
<1>5. ASSUME NEW d \in Dials, Dial(d) PROVE PortOwnership' /\ OrphansResolved'
  <2>1. CASE Register(d)
    BY <2>1, RegisterTable
  <2>2. CASE Unregister(d)
    BY <2>2, UnregisterTable
  <2>3. CASE ~Register(d) /\ ~Unregister(d)
    <3>1. table' = table /\ closer' = closer
      BY <1>5, <2>3 DEF Dial, Begin, Take, GiveUp, Count, PortBusy, AddrInUse, engineVars,
         ConnectFails, ConnectTimeout, Connected, Resolved, GiveUpWaiting, Uncount, FinishRemoved
    <3>2. \A e \in Dials : InFlight(e)' = InFlight(e)
      BY <1>5, <2>3 DEF Dial, Begin, Take, GiveUp, Count, PortBusy, AddrInUse, InFlight,
         ConnectFails, ConnectTimeout, Connected, Resolved, GiveUpWaiting, Uncount, FinishRemoved,
         AfterLeaving, ToFinish, PInv, TypeOK
    <3>3. \A e \in Dials : InFlight(e) => port'[e] = port[e] /\ attempt'[e] = attempt[e]
      BY <1>5, <2>3 DEF Dial, Begin, Take, GiveUp, Count, PortBusy, AddrInUse, InFlight,
         ConnectFails, ConnectTimeout, Connected, Resolved, GiveUpWaiting, Uncount, FinishRemoved,
         AfterLeaving, ToFinish, PInv, TypeOK
    <3> QED BY <3>1, <3>2, <3>3, TableFrame
  <2> QED BY <2>1, <2>2, <2>3
<1>6. CASE Capture \/ \E f \in Flows : Inject(f)
  BY <1>1, <1>6 DEF Capture, CaptureRecv, CaptureResend, CaptureResendFails, CaptureExit,
     Inject, InjectAbort, InjectArm, InjectSend, InjectFails, engineVars
<1>7. CASE Environment
  BY <1>1, <1>7 DEF Environment, KernelSYN, EdgeRetransmit, EdgeReset, Arrive, Lose,
     EdgeReceive, engineVars
<1> QED BY <1>2, <1>3, <1>4, <1>5, <1>6, <1>7 DEF Next

LEMMA PInvInit == Init => PInv
<1> SUFFICES ASSUME Init PROVE RemovedInUse /\ PortOwnership /\ OrphansResolved
  BY TypeInit DEF PInv
<1> QED BY DEF Init, RemovedInUse, PortOwnership, OrphansResolved, InFlight

\* Two dials never hold the same source port, and every entry of the flow table
\* belongs to a dial that is working on that port.
THEOREM PortOwnershipCorrect == Spec => []PortOwnership
<1>1. PInv => PortOwnership
  BY DEF PInv
<1> QED BY <1>1, PInvInit, PInvStep, PTL DEF Spec

\* No dial waits for a flow that the capture loop can no longer find.
THEOREM OrphansResolvedCorrect == Spec => []OrphansResolved
<1>1. PInv => OrphansResolved
  BY DEF PInv
<1> QED BY <1>1, PInvInit, PInvStep, PTL DEF Spec

-----------------------------------------------------------------------------
(* The count of tracked flows.                                             *)

LEMMA TrackedFinite ==
    ASSUME NEW S \in SUBSET Ports
    PROVE  IsFiniteSet(S) /\ Cardinality(S) \in Nat
<1>1. IsFiniteSet(Ports)
  BY NumbersAssumption, FS_Interval DEF Ports
<1>2. IsFiniteSet(S)
  BY <1>1, FS_Subset
<1> QED BY <1>2, FS_CardinalityType

At(places) == {d \in Dials : pc[d] \in places}

\* Dials whose entry is counted by ActiveFlows.
Counted == {"connect", "wait"} \cup Leaving \cup Uncounting

\* The counter is that of the dials it counts, and what it lacks of the table are
\* the entries not counted yet and the removed ones still counted.
CountInv ==
    /\ \A places \in {{"count"}, Counted, Uncounting} : IsFiniteSet(At(places))
    /\ active >= Cardinality(At(Counted))
    /\ active + Cardinality(At({"count"})) >= Cardinality(Tracked) + Cardinality(At(Uncounting))
    /\ closer # "done" =>
         active + Cardinality(At({"count"})) = Cardinality(Tracked) + Cardinality(At(Uncounting))

\* How many dials are at some places after one dial moved.
LEMMA AtStep ==
    ASSUME TypeOK, NEW places, IsFiniteSet(At(places)),
           NEW d \in Dials, NEW x, pc' = [pc EXCEPT ![d] = x]
    PROVE  LET later == {e \in Dials : pc'[e] \in places} IN
           /\ IsFiniteSet(later) /\ Cardinality(later) \in Nat /\ Cardinality(At(places)) \in Nat
           /\ Cardinality(later) = Cardinality(At(places))
                + (IF x \in places THEN 1 ELSE 0) - (IF pc[d] \in places THEN 1 ELSE 0)
<1> DEFINE later == {e \in Dials : pc'[e] \in places}
<1>1. Cardinality(At(places)) \in Nat
  BY FS_CardinalityType
<1>2. d \in At(places) <=> pc[d] \in places
  BY DEF At
<1>3. CASE x \in places /\ pc[d] \notin places
  <2>1. later = At(places) \cup {d}
    BY <1>3 DEF At, TypeOK
  <2>2. Cardinality(later) = Cardinality(At(places)) + 1 /\ IsFiniteSet(later)
    BY <1>2, <1>3, <2>1, FS_AddElement
  <2> QED BY <1>1, <1>3, <2>2, FS_CardinalityType
<1>4. CASE x \notin places /\ pc[d] \in places
  <2>1. later = At(places) \ {d}
    BY <1>4 DEF At, TypeOK
  <2>2. Cardinality(later) = Cardinality(At(places)) - 1 /\ IsFiniteSet(later)
    BY <1>2, <1>4, <2>1, FS_RemoveElement
  <2> QED BY <1>1, <1>4, <2>2, FS_CardinalityType
<1>5. CASE x \in places <=> pc[d] \in places
  <2>1. later = At(places)
    BY <1>5 DEF At, TypeOK
  <2>2. Cardinality(later) = Cardinality(At(places)) /\ IsFiniteSet(later)
    BY <2>1
  <2>3. CASE x \in places /\ pc[d] \in places
    BY <1>1, <2>2, <2>3
  <2>4. CASE x \notin places /\ pc[d] \notin places
    BY <1>1, <2>2, <2>4
  <2> QED BY <1>5, <2>3, <2>4
<1> QED BY <1>3, <1>4, <1>5

\* The table moves first, the counter follows: up after an entry that register
\* added, down after one that unregister found.
LEMMA CountStep ==
    ASSUME PInv, CountInv, [Next]_vars
    PROVE  CountInv'
<1> USE DEF PInv
<1>1. /\ active \in Int /\ table \in [Ports -> Flows \cup {None}]
      /\ \A d \in Dials : port[d] \in Ports
      /\ IsFiniteSet(Tracked) /\ Cardinality(Tracked) \in Nat
  BY TrackedFinite DEF TypeOK, Tracked
<1>2. /\ IsFiniteSet(At({"count"})) /\ IsFiniteSet(At(Counted)) /\ IsFiniteSet(At(Uncounting))
      /\ Cardinality(At({"count"})) \in Nat /\ Cardinality(At(Counted)) \in Nat
      /\ Cardinality(At(Uncounting)) \in Nat
  <2>1. IsFiniteSet(At({"count"})) /\ IsFiniteSet(At(Counted)) /\ IsFiniteSet(At(Uncounting))
    BY DEF CountInv
  <2> QED BY <2>1, FS_CardinalityType
<1>3. CASE UNCHANGED <<pc, table, active, closer>>
  BY <1>3 DEF CountInv, Tracked, At, Counted
<1>4. CASE Start \/ UNCHANGED vars
  BY <1>3, <1>4 DEF Start, vars, engineVars, dialVars
<1>5. CASE CloseBegin
  <2>1. UNCHANGED <<pc, table, active>> /\ closer # "done"
    BY <1>5 DEF CloseBegin, dialVars
  <2> QED BY <2>1 DEF CountInv, Tracked, At, Counted
<1>6. CASE CloseEnd
  <2>1. Tracked' = {} /\ closer' = "done" /\ UNCHANGED <<pc, active>>
    BY <1>6 DEF CloseEnd, Tracked, dialVars
  <2>2. Cardinality(At(Uncounting)) <= Cardinality(At(Counted))
    <3>1. At(Uncounting) \subseteq At(Counted)
      BY DEF At, Counted
    <3> QED BY <1>2, <3>1, FS_Subset
  <2>3. /\ active >= Cardinality(At(Counted))
        /\ active + Cardinality(At({"count"})) >= 0 + Cardinality(At(Uncounting))
    BY <1>1, <1>2, <2>2 DEF CountInv
  <2>4. Cardinality(Tracked') = 0
    BY <2>1, FS_EmptySet
  <2>5. /\ active' >= Cardinality(At(Counted)')
        /\ active' + Cardinality(At({"count"})') >= Cardinality(Tracked') + Cardinality(At(Uncounting)')
        /\ \A places : At(places)' = At(places)
    BY <2>1, <2>3, <2>4 DEF At, Counted
  <2> QED BY <1>2, <2>1, <2>5 DEF CountInv, Counted
<1>7. ASSUME NEW d \in Dials, Dial(d) PROVE CountInv'
  <2>1. PICK x : pc' = [pc EXCEPT ![d] = x]
    BY <1>7 DEF Dial, Begin, Take, GiveUp, Register, Count, PortBusy, AddrInUse, ConnectFails,
       ConnectTimeout, Connected, Resolved, GiveUpWaiting, Unregister, Uncount, FinishRemoved
  <2>2. pc'[d] = x /\ closer' = closer
    BY <1>7, <2>1 DEF TypeOK, Dial, Begin, Take, GiveUp, Register, Count, PortBusy, AddrInUse,
       ConnectFails, ConnectTimeout, Connected, Resolved, GiveUpWaiting, Unregister, Uncount,
       FinishRemoved, engineVars
  <2> DEFINE early == At({"count"})
             early1 == {e \in Dials : pc'[e] \in {"count"}}
             counted == At(Counted)
             counted1 == {e \in Dials : pc'[e] \in Counted}
             late == At(Uncounting)
             late1 == {e \in Dials : pc'[e] \in Uncounting}
             tracked1 == {p \in Ports : table'[p] # None}
             One(b) == IF b THEN 1 ELSE 0
  <2>3. /\ IsFiniteSet(early1) /\ Cardinality(early1) \in Nat
        /\ Cardinality(early1) = Cardinality(early) + One(x \in {"count"}) - One(pc[d] \in {"count"})
    BY <1>2, <2>1, AtStep
  <2>4. /\ IsFiniteSet(counted1) /\ Cardinality(counted1) \in Nat
        /\ Cardinality(counted1) = Cardinality(counted) + One(x \in Counted) - One(pc[d] \in Counted)
    BY <1>2, <2>1, AtStep
  <2>5. /\ IsFiniteSet(late1) /\ Cardinality(late1) \in Nat
        /\ Cardinality(late1) = Cardinality(late) + One(x \in Uncounting) - One(pc[d] \in Uncounting)
    BY <1>2, <2>1, AtStep
  <2> DEFINE Balanced ==
        /\ active' = active + One(x \in Counted) - One(pc[d] \in Counted)
             \/ (active' = active /\ x \notin Counted)
        /\ active' + One(x \in {"count"}) - One(pc[d] \in {"count"}) - active
             = Cardinality(tracked1) - Cardinality(Tracked)
                 + One(x \in Uncounting) - One(pc[d] \in Uncounting)
        /\ active' \in Int /\ Cardinality(tracked1) \in Nat
  <2>6. Balanced
    <3>1. CASE Register(d)
      <4>1. /\ pc[d] = "register" /\ x = "count" /\ table[port[d]] = None
            /\ table' = [table EXCEPT ![port[d]] = Current(d)] /\ active' = active
        BY <2>2, <3>1 DEF Register, PortFree, TypeOK
      <4>2. Current(d) # None
        <5>1. attempt[d] # 0
          BY <4>1 DEF Attempting
        <5>2. Current(d) \in Flows
          BY <5>1, CurrentType DEF TypeOK
        <5> QED BY <5>2, DialsAssumption DEF Flows
      <4>3. port[d] \in Ports \ Tracked /\ tracked1 = Tracked \cup {port[d]}
        BY <1>1, <4>1, <4>2 DEF Tracked
      <4>4. Cardinality(tracked1) = Cardinality(Tracked) + 1
        BY <1>1, <4>3, FS_AddElement
      <4> QED BY <1>1, <4>1, <4>4 DEF Counted
    <3>2. CASE Unregister(d)
      <4>1. /\ tracked1 = Tracked \ {port[d]} /\ active' = active /\ pc[d] \in Leaving
            /\ x = IF port[d] \in Tracked THEN ToUncount(pc[d]) ELSE AfterLeaving(pc[d])
        BY <1>1, <2>2, <3>2 DEF Unregister, Tracked, TypeOK
      <4>2. ToUncount(pc[d]) \in Uncounting /\ AfterLeaving(pc[d]) \in {"ok", "err", "ready"}
        BY DEF ToUncount, AfterLeaving
      <4>3. /\ Cardinality(tracked1) = Cardinality(Tracked) - One(port[d] \in Tracked)
            /\ Cardinality(tracked1) \in Nat
        <5>1. port[d] \in Tracked => Cardinality(tracked1) = Cardinality(Tracked) - 1
          BY <1>1, <4>1, FS_RemoveElement
        <5>2. port[d] \notin Tracked => tracked1 = Tracked
          BY <4>1
        <5>3. Cardinality(tracked1) \in Nat
          BY TrackedFinite
        <5> QED BY <1>1, <5>1, <5>2, <5>3
      <4>4. /\ x \in {"uncount_ok", "uncount_err", "uncount_retry"} <=> port[d] \in Tracked
            /\ x # "count" /\ pc[d] # "count" /\ pc[d] \in Counted /\ pc[d] \notin Uncounting
            /\ x \in Counted <=> port[d] \in Tracked
        BY <4>1, <4>2 DEF Counted
      <4> HIDE DEF early1, counted1, late1, tracked1
      <4> QED BY <1>1, <4>1, <4>3, <4>4
    <3>3. CASE Count(d)
      <4>1. x = "connect" /\ pc[d] = "count" /\ active' = active + 1 /\ table' = table
        BY <2>2, <3>3 DEF Count, TypeOK
      <4>2. tracked1 = Tracked
        BY <4>1 DEF Tracked
      <4> HIDE DEF tracked1
      <4> QED BY <1>1, <4>1, <4>2 DEF Counted
    <3>4. CASE Uncount(d)
      <4>1. ToFinish(pc[d]) \in Finishing /\ x = ToFinish(pc[d]) /\ pc[d] \in Uncounting
            /\ active' = active - 1 /\ tracked1 = Tracked
        BY <2>2, <3>4 DEF Uncount, ToFinish, Tracked, TypeOK
      <4> HIDE DEF tracked1
      <4> QED BY <1>1, <4>1 DEF Counted
    <3>5. CASE Dial(d) /\ ~Register(d) /\ ~Unregister(d) /\ ~Count(d) /\ ~Uncount(d)
      <4>1. tracked1 = Tracked /\ active' = active
        BY <3>5 DEF Tracked, Dial, Begin, Take, GiveUp, PortBusy, AddrInUse, ConnectFails,
           ConnectTimeout, Connected, Resolved, GiveUpWaiting, FinishRemoved
      <4>2. /\ x \notin {"count"} \cup Uncounting /\ pc[d] \notin {"count"} \cup Uncounting
            /\ x \in Counted <=> pc[d] \in Counted
        BY <2>2, <3>5 DEF Dial, Begin, Take, GiveUp, PortBusy, AddrInUse, ConnectFails, Counted,
           ConnectTimeout, Connected, Resolved, GiveUpWaiting, FinishRemoved, AfterLeaving, TypeOK
      <4> HIDE DEF early1, counted1, late1, tracked1
      <4> QED BY <1>1, <4>1, <4>2
    <3> QED BY <1>7, <3>1, <3>2, <3>3, <3>4, <3>5
  <2> HIDE DEF early1, counted1, late1, tracked1
  <2> DEFINE a == One(x \in {"count"})
             b == One(pc[d] \in {"count"})
             c == One(x \in Counted)
             g == One(pc[d] \in Counted)
             h == One(x \in Uncounting)
             k == One(pc[d] \in Uncounting)
  <2>8. /\ \A n \in {a, b, c, g, h, k} : n \in {0, 1}
        /\ x \notin Counted => c = 0
    OBVIOUS
  <2>9. /\ Cardinality(early1) = Cardinality(early) + a - b
        /\ Cardinality(counted1) = Cardinality(counted) + c - g
        /\ Cardinality(late1) = Cardinality(late) + h - k
        /\ active' = active + c - g \/ (active' = active /\ c = 0)
        /\ active' + a - b - active = Cardinality(tracked1) - Cardinality(Tracked) + h - k
        /\ active' \in Int /\ Cardinality(tracked1) \in Nat
    BY <2>3, <2>4, <2>5, <2>6, <2>8
  <2>10. /\ active >= Cardinality(counted)
         /\ active + Cardinality(early) >= Cardinality(Tracked) + Cardinality(late)
         /\ closer # "done" =>
              active + Cardinality(early) = Cardinality(Tracked) + Cardinality(late)
    BY DEF CountInv
  <2>11. /\ Cardinality(early) \in Nat /\ Cardinality(counted) \in Nat /\ Cardinality(late) \in Nat
         /\ Cardinality(early1) \in Nat /\ Cardinality(counted1) \in Nat
         /\ Cardinality(late1) \in Nat
    BY <1>2, <2>3, <2>4, <2>5
  <2> HIDE DEF a, b, c, g, h, k, Balanced, One, early, counted, late
  <2>7. /\ active' >= Cardinality(counted1)
        /\ active' + Cardinality(early1) >= Cardinality(tracked1) + Cardinality(late1)
        /\ closer' # "done" =>
             active' + Cardinality(early1) = Cardinality(tracked1) + Cardinality(late1)
    <3>1. active' >= Cardinality(counted1)
      <4>1. active \in Int /\ active' \in Int
        BY <1>1, <2>9
      <4>2. /\ Cardinality(counted1) = Cardinality(counted) + c - g
            /\ c \in {0, 1} /\ g \in {0, 1} /\ active >= Cardinality(counted)
            /\ Cardinality(counted1) \in Nat /\ Cardinality(counted) \in Nat
        BY <2>8, <2>9, <2>10, <2>11
      <4>3. c \in Int /\ g \in Int
        BY <4>2
      <4>4. CASE active' = active + c - g
        BY <4>1, <4>4, <4>2, <4>3
      <4>5. CASE active' = active /\ c = 0
        BY <2>8, <2>9, <2>10, <2>11, <4>1, <4>5
      <4> QED BY <2>9, <4>4, <4>5
    <3>2. active' + Cardinality(early1) >= Cardinality(tracked1) + Cardinality(late1)
      BY <1>1, <2>8, <2>9, <2>10, <2>11
    <3>3. closer' # "done" =>
             active' + Cardinality(early1) = Cardinality(tracked1) + Cardinality(late1)
      BY <1>1, <2>2, <2>8, <2>9, <2>10, <2>11
    <3> QED BY <3>1, <3>2, <3>3
  <2> QED BY <2>3, <2>4, <2>5, <2>7 DEF CountInv, At, Tracked, Counted, early1, counted1,
     late1, tracked1
<1>8. CASE Capture
  BY <1>3, <1>8 DEF Capture, CaptureRecv, CaptureResend, CaptureResendFails, CaptureExit,
     engineVars, dialVars
<1>9. CASE \E f \in Flows : Inject(f)
  BY <1>3, <1>9 DEF Inject, InjectAbort, InjectArm, InjectSend, InjectFails, engineVars, dialVars
<1>10. CASE Environment
  BY <1>3, <1>10 DEF Environment, KernelSYN, EdgeRetransmit, EdgeReset, Arrive, Lose,
     EdgeReceive, engineVars, dialVars
<1> QED BY <1>4, <1>5, <1>6, <1>7, <1>8, <1>9, <1>10 DEF Next

LEMMA CountExact == PInv /\ CountInv => ActiveFlowsExact
<1> SUFFICES ASSUME PInv, CountInv PROVE ActiveFlowsExact
  OBVIOUS
<1>1. active \in Int /\ Cardinality(At(Counted)) \in Nat /\ Cardinality(Tracked) \in Nat
  BY TrackedFinite, FS_CardinalityType DEF PInv, TypeOK, CountInv, Tracked
<1>2. BetweenLockAndCounter = {} => At({"count"}) = {} /\ At(Uncounting) = {}
  BY DEF BetweenLockAndCounter, At
<1>3. Cardinality({}) = 0
  BY FS_EmptySet
<1> QED BY <1>1, <1>2, <1>3 DEF CountInv, ActiveFlowsExact

\* The number of active flows that the window shows is never negative, and is that
\* of the flow table whenever no dial is between the table and the counter, until
\* Close, and never below it after, although the counter moves outside the lock,
\* unregister deletes by port number and Close empties the table without counting
\* down.
THEOREM ActiveFlowsExactCorrect == Spec => []ActiveFlowsExact
<1>1. Init => CountInv
  <2> SUFFICES ASSUME Init PROVE CountInv
    OBVIOUS
  <2>1. Tracked = {} /\ At({"count"}) = {} /\ At(Counted) = {} /\ At(Uncounting) = {} /\ active = 0
    BY DEF Init, Tracked, At, Counted
  <2> QED BY <2>1, FS_EmptySet DEF CountInv
<1>2. PInv /\ CountInv /\ [Next]_vars => CountInv'
  BY CountStep
<1> QED BY <1>1, <1>2, CountExact, PInvInit, PInvStep, PTL DEF Spec

-----------------------------------------------------------------------------
(* The engine implements SpoofDial.                                        *)

\* No packet and no goroutine reaches a flow of a dial that has not begun.
Fresh == \A f \in Flows : pc[f[1]] = "idle" => flow[f].inj = "none"

RInv == IInv /\ PInv /\ Fresh

LEMMA FreshStep == PInv /\ Fresh /\ [Next]_vars => Fresh'
<1> SUFFICES ASSUME PInv, Fresh, [Next]_vars, NEW f \in Flows, pc'[f[1]] = "idle"
             PROVE  flow'[f].inj = "none"
  BY DEF Fresh
<1> DEFINE d == f[1]
<1>1. d \in Dials
  BY DEF Flows
<1>2. pc[d] = "idle" /\ ~Dial(d)
  <2>1. CASE Dial(d)
    BY <1>1, <2>1 DEF Dial, Begin, Take, GiveUp, Register, Count, PortBusy, AddrInUse,
       AfterLeaving, ToUncount, ToFinish, ConnectFails, ConnectTimeout, Connected, Resolved,
       GiveUpWaiting, Unregister, Uncount, FinishRemoved, PInv, TypeOK
  <2>2. CASE ~Dial(d)
    BY <1>1, <2>2, DialFrame DEF PInv
  <2> QED BY <2>1, <2>2
<1>3. flow[f] \in FlowStates /\ flow[f].inj = "none"
  BY <1>2 DEF Fresh, PInv, TypeOK
<1>4. \A p \in Ports : table[p] # f
  <2> SUFFICES ASSUME NEW p \in Ports, table[p] = f PROVE FALSE
    OBVIOUS
  <2>1. f # None
    BY DialsAssumption DEF Flows
  <2>2. PICK e \in Dials : InFlight(e) /\ port[e] = p /\ f = Current(e)
    BY <2>1 DEF PInv, PortOwnership
  <2>3. e = d
    BY <2>2 DEF Current
  <2> QED BY <1>2, <2>2, <2>3 DEF InFlight
<1>5. CASE flow'[f] = flow[f] \/ flow'[f] = Finish(flow[f], "err")
  BY <1>3, <1>5, FinishFields
<1>6. CASE CaptureRecv
  <2>1. Head(queue) \in Packets
    BY <1>6 DEF CaptureRecv, PInv, TypeOK
  <2>2. port[Head(queue).conn] \in Ports
    BY <2>1 DEF Packets, PInv, TypeOK
  <2> QED BY <1>4, <1>5, <1>6, <2>2 DEF CaptureRecv, Dispatch, PInv, TypeOK
<1>7. CASE \E e \in Dials : Dial(e)
  <2>1. PICK e \in Dials : Dial(e)
    BY <1>7
  <2>2. CASE FinishRemoved(e)
    BY <1>5, <2>2 DEF FinishRemoved, PInv, TypeOK
  <2>3. CASE ~FinishRemoved(e)
    BY <1>5, <2>1, <2>3 DEF Dial, Begin, Take, GiveUp, Register, Count, PortBusy, AddrInUse,
       ConnectFails, ConnectTimeout, Connected, Resolved, GiveUpWaiting, Unregister, Uncount
  <2> QED BY <2>2, <2>3
<1>8. CASE \E g \in Flows : Inject(g)
  <2>1. PICK g \in Flows : Inject(g)
    BY <1>8
  <2>2. g # f
    BY <1>3, <2>1 DEF Inject, InjectAbort, InjectArm, InjectSend, InjectFails
  <2> QED BY <1>5, <2>1, <2>2
          DEF Inject, InjectAbort, InjectArm, InjectSend, InjectFails, PInv, TypeOK
<1>9. CASE Start \/ CloseBegin \/ CloseEnd \/ UNCHANGED vars
  BY <1>5, <1>9 DEF Start, CloseBegin, CloseEnd, vars
<1>10. CASE Capture /\ ~CaptureRecv
  BY <1>5, <1>10 DEF Capture, CaptureResend, CaptureResendFails, CaptureExit
<1>11. CASE Environment
  BY <1>5, <1>11 DEF Environment, KernelSYN, EdgeRetransmit, EdgeReset, Arrive, Lose, EdgeReceive
<1> QED BY <1>6, <1>7, <1>8, <1>9, <1>10, <1>11 DEF Next, Capture

LEMMA RefinementInvariance == Spec => []RInv
<1>1. Init => RInv
  BY IInvInit, PInvInit DEF RInv, Fresh, Init, NoFlow
<1>2. RInv /\ [Next]_vars => RInv'
  BY IInvStep, PInvStep, FreshStep DEF RInv, IInv
<1> QED BY <1>1, <1>2, PTL DEF Spec

\* Only the injecting goroutine primes a flow.
LEMMA PrimedFrame ==
    ASSUME TypeOK, Attempting, NEW f \in Flows,
           \/ flow'[f] = flow[f] \/ flow'[f] = Finish(flow[f], "err")
           \/ \E m \in Packets : flow'[f] = Observe(m, flow[f])
    PROVE  FlowPrimed(flow'[f]) = FlowPrimed(flow[f])
<1>1. flow[f] \in FlowStates
  BY DEF TypeOK
<1>2. flow'[f].sent = flow[f].sent /\ flow'[f].fake = flow[f].fake
  <2>1. CASE flow'[f] = flow[f] \/ flow'[f] = Finish(flow[f], "err")
    BY <1>1, <2>1, FinishFields
  <2>2. ASSUME NEW m \in Packets, flow'[f] = Observe(m, flow[f])
        PROVE  flow'[f].sent = flow[f].sent /\ flow'[f].fake = flow[f].fake
    <3>1. flow'[f] \in {Finish(flow[f], "err"), Finish(flow[f], "ok"), flow[f],
                        [flow[f] EXCEPT !.syn = m.conn],
                        [flow[f] EXCEPT !.synack = m.conn, !.inj = "delay"]}
      BY <2>2 DEF Observe
    <3> QED BY <1>1, <3>1, FinishFields DEF FlowStates
  <2> QED BY <2>1, <2>2
<1> QED BY <1>2 DEF FlowPrimed

LEMMA StatusFrame ==
    ASSUME pc' = pc PROVE Status' = Status
BY DEF Status

LEMMA DialPrimedFrame ==
    ASSUME \A f \in Flows : FlowPrimed(flow'[f]) = FlowPrimed(flow[f])
    PROVE  DialPrimed' = DialPrimed
<1>1. \A d \in Dials, k \in 1..MaxAttempts :
        FlowPrimed(flow'[<<d, k>>]) = FlowPrimed(flow[<<d, k>>])
  BY DEF Flows
<1> QED BY <1>1 DEF DialPrimed, FlowPrimed

\* The injecting goroutine of f: at most the priming of its dial.
LEMMA InjectRefines ==
    ASSUME RInv, RInv', NEW f \in Flows, Inject(f)
    PROVE  [Abstract!Next]_Abstract!vars
<1> DEFINE d == f[1]
           k == f[2]
<1>1. d \in Dials /\ k \in 1..MaxAttempts /\ f = <<d, k>>
  BY DEF Flows
<1>2. pc' = pc /\ attempt' = attempt /\ \A g \in Flows : g # f => flow'[g] = flow[g]
  BY DEF Inject, InjectAbort, InjectArm, InjectSend, InjectFails, RInv, IInv, TypeOK, dialVars
<1>3. Status' = Status
  BY <1>2, StatusFrame
<1>4. CASE DialPrimed' = DialPrimed
  BY <1>3, <1>4 DEF Abstract!vars
<1>5. CASE DialPrimed' # DialPrimed
  <2>1. \A e \in Dials : e # d => DialPrimed'[e] = DialPrimed[e]
    <3>1. \A e \in Dials, j \in 1..MaxAttempts : e # d =>
            flow'[<<e, j>>] = flow[<<e, j>>]
      BY <1>1, <1>2 DEF Flows
    <3> QED BY <3>1 DEF DialPrimed, FlowPrimed
  <2>2. FlowPrimed(flow[f]) => FlowPrimed(flow'[f])
    <3>1. FlowStep(flow[f], flow'[f])
      <4>1. [Next]_vars
        BY DEF Next
      <4> QED BY <4>1, NextFlow DEF RInv, IInv
    <3>2. flow[f] \in FlowStates /\ FlowOK(flow[f]) /\ flow[f].inj \in {"delay", "armed"}
      BY DEF RInv, IInv, TypeOK, FlowsOK, Inject, InjectAbort, InjectArm, InjectSend, InjectFails
    <3>3. CASE flow[f].inj = "delay"
      BY <3>2, <3>3 DEF FlowPrimed, FlowOK
    <3>4. CASE flow[f].inj = "armed"
      <4>1. Mode = "fast" => ~FlowPrimed(flow[f])
        BY <3>2, <3>4 DEF FlowPrimed, FlowOK
      <4>2. flow'[f].fake = flow[f].fake
        <5>1. InjectSend(f) \/ InjectFails(f)
          BY <3>4 DEF Inject, InjectAbort, InjectArm
        <5>2. CASE InjectFails(f)
          <6>1. flow'[f] = Finish(EndedFlow(flow[f]), "err")
            BY <5>2 DEF InjectFails, EndedFlow, RInv, IInv, TypeOK
          <6>2. EndedFlow(flow[f]) \in FlowStates /\ EndedFlow(flow[f]).fake = flow[f].fake
            BY <3>2 DEF EndedFlow, FlowStates
          <6> QED BY <6>1, <6>2, FinishFields
        <5>3. CASE InjectSend(f)
          <6> DEFINE n == flow[f].sent + 1
                     out == [flow[f] EXCEPT !.inj = "ended", !.sent = n]
          <6>1. flow'[f] = IF Mode = "fast" THEN Finish(out, "ok") ELSE out
            BY <5>3 DEF InjectSend, RInv, IInv, TypeOK
          <6>2. n \in Nat
            BY <3>2 DEF FlowStates
          <6> HIDE DEF n
          <6>3. out \in FlowStates /\ out.fake = flow[f].fake
            BY <3>2, <6>2 DEF FlowStates
          <6> QED BY <6>1, <6>3, FinishFields
        <5> QED BY <5>1, <5>2, <5>3
      <4> QED BY <4>1, <4>2, ModeAssumption DEF FlowPrimed
    <3> QED BY <3>2, <3>3, <3>4
  <2>3. ~DialPrimed[d] /\ DialPrimed'[d]
    <3>1. DialPrimed'[d] # DialPrimed[d]
      BY <1>5, <2>1 DEF DialPrimed
    <3>2. DialPrimed[d] => DialPrimed'[d]
      <4> SUFFICES ASSUME NEW j \in 1..MaxAttempts, FlowPrimed(flow[<<d, j>>])
                   PROVE  FlowPrimed(flow'[<<d, j>>])
        BY <1>1 DEF DialPrimed
      <4> QED BY <1>1, <1>2, <2>2 DEF Flows
    <3> QED BY <3>1, <3>2, <1>1 DEF DialPrimed
  <2>4. Status[d] \in {"pending", "failed"}
    <3>1. pc[d] # "idle"
      BY <1>1 DEF RInv, Fresh, Inject, InjectAbort, InjectArm, InjectSend, InjectFails
    <3>2. pc[d] # "ok"
      <4> SUFFICES ASSUME pc[d] = "ok" PROVE FALSE
        OBVIOUS
      <4>1. attempt[d] \in 1..MaxAttempts /\ Current(d) \in Flows
        <5>1. attempt \in [Dials -> 0..MaxAttempts] /\ attempt[d] # 0
          BY <1>1 DEF RInv, IInv, TypeOK, Attempting
        <5> QED BY <1>1, <5>1, CurrentType, NumbersAssumption
      <4>2. flow[Current(d)].done = "ok" /\ FlowOK(flow[Current(d)])
        BY <1>1, <4>1 DEF RInv, IInv, Returned, ReturningWell, FlowsOK
      <4>3. FlowPrimed(flow[Current(d)])
        BY <4>2 DEF FlowPrimed, FlowOK
      <4> QED BY <1>1, <2>3, <4>1, <4>3 DEF DialPrimed, Current
    <3> QED BY <1>1, <3>1, <3>2 DEF Status
  <2>5. DialPrimed' = [DialPrimed EXCEPT ![d] = TRUE]
    BY <1>1, <2>1, <2>3 DEF DialPrimed
  <2>6. Abstract!Prime(d)
    BY <1>3, <2>3, <2>4, <2>5 DEF Abstract!Prime
  <2> QED BY <1>1, <2>6 DEF Abstract!Next
<1> QED BY <1>4, <1>5

\* A step of the dialling goroutine: its outcome, or nothing the caller sees.
LEMMA DialRefines ==
    ASSUME RInv, NEW d \in Dials, Dial(d)
    PROVE  [Abstract!Next]_Abstract!vars
<1>1. DialPrimed' = DialPrimed
  <2>1. CASE FinishRemoved(d)
    <3>1. \A f \in Flows : flow'[f] = flow[f] \/ flow'[f] = Finish(flow[f], "err")
      BY <2>1 DEF FinishRemoved, RInv, IInv, TypeOK
    <3> QED BY <3>1, PrimedFrame, DialPrimedFrame DEF RInv, IInv
  <2>2. CASE ~FinishRemoved(d)
    <3>1. flow' = flow
      BY <2>2 DEF Dial, Begin, Take, GiveUp, Register, Count, PortBusy, AddrInUse,
         ConnectFails, ConnectTimeout, Connected, Resolved, GiveUpWaiting, Unregister, Uncount
    <3> QED BY <3>1, DialPrimedFrame
  <2> QED BY <2>1, <2>2
<1>2. ASSUME NEW x \in PCs, pc' = [pc EXCEPT ![d] = x]
      PROVE  Status' = [Status EXCEPT ![d] = CASE x = "idle" -> "idle"
                                               [] x = "ok"   -> "ok"
                                               [] x = "err"  -> "failed"
                                               [] OTHER      -> "pending"]
  BY <1>2 DEF Status, RInv, IInv, TypeOK
<1>3. PICK x \in PCs : pc' = [pc EXCEPT ![d] = x]
  BY DEF Dial, Begin, Take, GiveUp, Register, Count, PortBusy, AddrInUse, ConnectFails,
     ConnectTimeout, Connected, Resolved, GiveUpWaiting, Unregister, Uncount, FinishRemoved,
     AfterLeaving, ToUncount, ToFinish, PCs, RInv, IInv, TypeOK
<1>4. pc[d] \notin {"ok", "err"} /\ x # "idle" /\ (x = "ok" => pc[d] \in ReturningWell)
  BY <1>3 DEF Dial, Begin, Take, GiveUp, Register, Count, PortBusy, AddrInUse, ConnectFails,
     ConnectTimeout, Connected, Resolved, GiveUpWaiting, Unregister, Uncount, FinishRemoved,
     AfterLeaving, ToUncount, ToFinish, ReturningWell, RInv, IInv, TypeOK
<1>5. Status[d] = IF pc[d] = "idle" THEN "idle" ELSE "pending"
  BY <1>4 DEF Status
<1>6. CASE x = "err"
  <2>1. Abstract!Fail(d)
    BY <1>1, <1>2, <1>3, <1>5, <1>6 DEF Abstract!Fail
  <2> QED BY <2>1 DEF Abstract!Next
<1>7. CASE x = "ok"
  <2>1. pc[d] \in ReturningWell /\ Status[d] = "pending"
    BY <1>4, <1>5, <1>7 DEF ReturningWell
  <2>2. attempt[d] \in 1..MaxAttempts /\ Current(d) \in Flows
    <3>1. attempt \in [Dials -> 0..MaxAttempts] /\ attempt[d] # 0
      BY <2>1 DEF RInv, IInv, TypeOK, Attempting, ReturningWell
    <3> QED BY <3>1, CurrentType, NumbersAssumption
  <2>3. flow[Current(d)].done = "ok" /\ FlowOK(flow[Current(d)])
    BY <2>1, <2>2 DEF RInv, IInv, Returned, FlowsOK
  <2>4. FlowPrimed(flow[Current(d)])
    BY <2>3 DEF FlowPrimed, FlowOK
  <2>5. DialPrimed[d]
    BY <2>2, <2>4 DEF DialPrimed, Current
  <2>6. Status' = [Status EXCEPT ![d] = "ok"]
    BY <1>2, <1>3, <1>7
  <2>7. Abstract!Return(d)
    BY <1>1, <2>1, <2>5, <2>6 DEF Abstract!Return
  <2> QED BY <2>7 DEF Abstract!Next
<1>8. CASE x \notin {"err", "ok"}
  <2>1. Status' = [Status EXCEPT ![d] = "pending"]
    BY <1>2, <1>3, <1>4, <1>8
  <2>2. CASE pc[d] = "idle"
    <3>1. Abstract!Begin(d)
      BY <1>1, <1>5, <2>1, <2>2 DEF Abstract!Begin
    <3> QED BY <3>1 DEF Abstract!Next
  <2>3. CASE pc[d] # "idle"
    <3>1. Status' = Status
      BY <1>5, <2>1, <2>3 DEF Status
    <3> QED BY <1>1, <3>1 DEF Abstract!vars
  <2> QED BY <2>2, <2>3
<1> QED BY <1>6, <1>7, <1>8

\* The other steps are invisible to the callers of Dial.
LEMMA OtherRefines ==
    ASSUME RInv, \/ Start \/ CloseBegin \/ CloseEnd \/ Capture \/ Environment
                 \/ UNCHANGED vars
    PROVE  [Abstract!Next]_Abstract!vars
<1>1. pc' = pc
  BY DEF Start, CloseBegin, CloseEnd, Capture, CaptureRecv, CaptureResend, CaptureResendFails,
     CaptureExit, Environment, KernelSYN, EdgeRetransmit, EdgeReset, Arrive, Lose, EdgeReceive,
     vars, dialVars
<1>2. \A f \in Flows : \/ flow'[f] = flow[f] \/ flow'[f] = Finish(flow[f], "err")
                       \/ \E m \in Packets : flow'[f] = Observe(m, flow[f])
  <2>1. CASE CaptureRecv
    <3>1. Head(queue) \in Packets
      BY <2>1 DEF CaptureRecv, RInv, IInv, TypeOK
    <3> QED BY <2>1, <3>1 DEF CaptureRecv, Dispatch, RInv, IInv, TypeOK
  <2>2. CASE CloseEnd
    BY <2>2 DEF CloseEnd
  <2>3. CASE ~CaptureRecv /\ ~CloseEnd
    BY <2>3 DEF Start, CloseBegin, Capture, CaptureResend, CaptureResendFails, CaptureExit,
       Environment, KernelSYN, EdgeRetransmit, EdgeReset, Arrive, Lose, EdgeReceive, vars
  <2> QED BY <2>1, <2>2, <2>3
<1>3. DialPrimed' = DialPrimed
  BY <1>2, PrimedFrame, DialPrimedFrame DEF RInv, IInv
<1> QED BY <1>1, <1>3, StatusFrame DEF Abstract!vars

\* Every behaviour of the engine is a behaviour of SpoofDial: callers of Dial see
\* one final outcome each, and no connection that was not primed.
THEOREM EngineImplementsSpoofDial == Spec => ImplementsSpoofDial
<1>1. Init => Abstract!Init
  <2> SUFFICES ASSUME Init PROVE Abstract!Init
    OBVIOUS
  <2>1. ~FlowPrimed(NoFlow)
    BY DEF FlowPrimed, NoFlow
  <2>2. \A d \in Dials, k \in 1..MaxAttempts : flow[<<d, k>>] = NoFlow
    BY DEF Init, Flows
  <2> QED BY <2>1, <2>2 DEF Init, Abstract!Init, Status, DialPrimed
<1>2. RInv /\ RInv' /\ [Next]_vars => [Abstract!Next]_Abstract!vars
  BY InjectRefines, DialRefines, OtherRefines DEF Next
<1> QED BY <1>1, <1>2, RefinementInvariance, PTL DEF Spec, ImplementsSpoofDial, Abstract!Spec

-----------------------------------------------------------------------------
(***************************************************************************)
(* On a calm network no dial fails.  Every dial has at most two packets on *)
(* their way, one of the handshake and one that carries the record or its  *)
(* answer: whoever waits, waits for one of them, and the driver's queue    *)
(* has room for all.                                                       *)
(***************************************************************************)

\* Nothing fails, the mode can see what it waits for, and there are enough
\* ports and places in the queue.
Calm ==
    /\ Faults = {} /\ (Mode = "fast" \/ ~AnyEdge)
    /\ IsFiniteSet(Dials) /\ Cardinality(Dials) <= Span
    /\ 2 * Cardinality(Dials) <= MaxQueue

Flow1(d) == flow[<<d, 1>>]

InQueue(m) == \E i \in DOMAIN queue : queue[i] = m

Moving(m) == InQueue(m) \/ hand = m \/ m \in wire

OfRecord(m) == m.kind \in {"RECORD", "ANSWER"}

Thread(m) == <<m.conn, IF OfRecord(m) THEN "record" ELSE "handshake">>

Travels(t) == \E m \in Packets : Moving(m) /\ Thread(m) = t

\* One packet of each thread, in one place.
OnePlace(m) == ~(InQueue(m) /\ hand = m) /\ ~(InQueue(m) /\ m \in wire) /\ ~(hand = m /\ m \in wire)

Distinct == \A i, j \in DOMAIN queue : queue[i] = queue[j] => i = j

OneEach ==
    /\ Distinct
    /\ \A m, n \in Packets : Moving(m) /\ Moving(n) /\ Thread(m) = Thread(n) => m = n
    /\ \A m \in Packets : OnePlace(m)

\* What a packet on its way says of its dial.
Fits(m) ==
    LET d == m.conn IN
    /\ m.kind \in {"SYN", "SYNACK", "ACK", "RECORD", "ANSWER"}
    /\ m.kind = "SYN" => /\ kernel[d] = "synsent" /\ peer[d] = "none"
                         /\ Flow1(d).inj = "none" /\ Flow1(d).synack = None
    /\ m.kind = "SYNACK" => kernel[d] = "synsent" /\ peer[d] # "none" /\ Flow1(d).syn = d
    /\ m.kind = "ACK" => kernel[d] = "estab"
    /\ OfRecord(m) => Flow1(d).inj = "ended"

Unseen(m) == m.kind = "SYNACK" => Flow1(m.conn).synack = None /\ Flow1(m.conn).inj = "none"

Queued(m) == Fits(m) /\ Unseen(m) /\ m.kind # "RECORD"

Held(m) ==
    /\ Fits(m) /\ m.kind # "RECORD"
    /\ m.kind = "SYN" => Flow1(m.conn).syn = m.conn
    /\ m.kind = "SYNACK" => Flow1(m.conn).inj # "none"
    /\ m.kind = "ANSWER" => Flow1(m.conn).done = "ok"

Wired(m) == Fits(m) /\ Unseen(m) /\ (m.kind = "SYN" => Flow1(m.conn).syn = m.conn)

Placed(m) ==
    (InQueue(m) => Queued(m)) /\ (hand = m => Held(m)) /\ (m \in wire => Wired(m))

\* How far a dial has come, and what it waits for.
Stage(d) ==
    /\ pc[d] \in {"idle", "ready", "register", "count", "connect", "wait", "err"}
             \cup ReturningWell
    /\ attempt[d] = IF pc[d] \in {"idle", "ready", "err"} THEN 0 ELSE 1
    /\ pc[d] \in {"idle", "ready", "register", "count", "err"} => kernel[d] = "none"
    /\ pc[d] \in {"wait"} \cup ReturningWell => kernel[d] = "estab"
    /\ kernel[d] # "closed" /\ peer[d] # "gone"
    /\ kernel[d] = "none" => Flow1(d) = NoFlow /\ peer[d] = "none"
    /\ kernel[d] = "synsent" => Travels(<<d, "handshake">>)
    /\ kernel[d] = "estab" => Flow1(d).inj # "none"
    /\ Flow1(d).inj # "none" => /\ Flow1(d).syn = d /\ Flow1(d).synack = d
                                /\ peer[d] # "none"
    /\ Flow1(d).inj \in {"armed", "ended"} => Flow1(d).fake # <<>> \/ Flow1(d).done = "ok"
    /\ Flow1(d).done # "err"
    /\ Flow1(d).inj = "ended" /\ Flow1(d).done = "open"
         => Mode = "safe" /\ Travels(<<d, "record">>)

\* The cursor has not come round to a port in use.
Age(n, p) == IF p <= n THEN n - p ELSE n - p + Span

Begun == {d \in Dials : attempt[d] # 0}

PortsApart ==
    /\ \A d \in Begun : Age(next, port[d]) < Cardinality(Begun)
    /\ \A d, e \in Begun : port[d] = port[e] => d = e

Running ==
    /\ closer = "no" /\ handle \in {"nil", "open"}
    /\ handle = "nil" => \A d \in Dials : pc[d] \in {"idle", "err"}
    /\ handle = "open" => loop = "recv"

CalmInv ==
    /\ IInv /\ PInv
    /\ Running /\ PortsApart /\ OneEach
    /\ \A m \in Packets : Placed(m)
    /\ \A d \in Dials : Stage(d)

-----------------------------------------------------------------------------
(* The queue.                                                              *)

LEMMA QueueAppended ==
    ASSUME queue \in Seq(Packets), NEW m \in Packets, queue' = Append(queue, m)
    PROVE  /\ \A n \in Packets : InQueue(n)' <=> InQueue(n) \/ n = m
           /\ Distinct /\ ~InQueue(m) => Distinct'
<1>1. /\ Len(queue) \in Nat /\ DOMAIN queue = 1 .. Len(queue)
      /\ DOMAIN queue' = 1 .. Len(queue) + 1
      /\ queue'[Len(queue) + 1] = m
      /\ \A i \in 1 .. Len(queue) : queue'[i] = queue[i]
  OBVIOUS
<1>2. \A n \in Packets : InQueue(n)' <=> InQueue(n) \/ n = m
  <2> SUFFICES ASSUME NEW n \in Packets PROVE InQueue(n)' <=> InQueue(n) \/ n = m
    OBVIOUS
  <2>1. InQueue(n)' => InQueue(n) \/ n = m
    BY <1>1 DEF InQueue
  <2>2. InQueue(n) => InQueue(n)'
    BY <1>1 DEF InQueue
  <2>3. n = m => InQueue(n)'
    BY <1>1 DEF InQueue
  <2> QED BY <2>1, <2>2, <2>3
<1>3. Distinct /\ ~InQueue(m) => Distinct'
  BY <1>1 DEF Distinct, InQueue
<1> QED BY <1>2, <1>3

LEMMA QueueTaken ==
    ASSUME queue \in Seq(Packets), queue # <<>>, queue' = Tail(queue),
           NEW h, h = Head(queue)
    PROVE  /\ h \in Packets /\ InQueue(h)
           /\ \A n \in Packets : n # h => (InQueue(n)' <=> InQueue(n))
           /\ Distinct => Distinct' /\ ~InQueue(h)'
<1>1. /\ Len(queue) \in Nat \ {0} /\ DOMAIN queue = 1 .. Len(queue)
      /\ DOMAIN queue' = 1 .. Len(queue) - 1
      /\ h = queue[1]
      /\ \A i \in 1 .. Len(queue) - 1 : queue'[i] = queue[i + 1]
  OBVIOUS
<1>2. ASSUME NEW n \in Packets, n # h PROVE InQueue(n)' <=> InQueue(n)
  <2>1. InQueue(n)' => InQueue(n)
    BY <1>1 DEF InQueue
  <2>2. ASSUME NEW i \in DOMAIN queue, queue[i] = n PROVE InQueue(n)'
    <3>1. i - 1 \in DOMAIN queue' /\ queue'[i - 1] = queue[i]
      BY <1>1, <1>2, <2>2
    <3> QED BY <2>2, <3>1 DEF InQueue
  <2> QED BY <2>1, <2>2 DEF InQueue
<1>3. Distinct => Distinct' /\ ~InQueue(h)'
  <2> SUFFICES ASSUME Distinct PROVE Distinct' /\ ~InQueue(h)'
    OBVIOUS
  <2>1. ASSUME NEW i \in DOMAIN queue' PROVE queue'[i] = queue[i + 1] /\ i + 1 \in DOMAIN queue
    BY <1>1
  <2>2. Distinct'
    <3> SUFFICES ASSUME NEW i \in DOMAIN queue', NEW j \in DOMAIN queue', queue'[i] = queue'[j]
                 PROVE  i = j
      BY DEF Distinct
    <3>1. i + 1 = j + 1
      BY <2>1 DEF Distinct
    <3> QED BY <1>1, <3>1
  <2>3. ASSUME NEW i \in DOMAIN queue', queue'[i] = queue[1] PROVE FALSE
    <3>1. i + 1 = 1
      BY <1>1, <2>1, <2>3 DEF Distinct
    <3> QED BY <1>1, <3>1
  <2> QED BY <1>1, <2>2, <2>3 DEF InQueue
<1>4. h \in Packets /\ InQueue(h)
  BY <1>1 DEF InQueue
<1> QED BY <1>2, <1>3, <1>4

\* There is room for a packet of a thread that has none in the queue.
LEMMA RoomInQueue ==
    ASSUME Calm, queue \in Seq(Packets), OneEach, NEW m \in Packets,
           \A n \in Packets : InQueue(n) => Thread(n) # Thread(m)
    PROVE  Len(queue) < MaxQueue
<1> DEFINE T == Dials \X {"handshake", "record"}
           g == [i \in 1 .. Len(queue) |-> Thread(queue[i])]
<1>1. Len(queue) \in Nat /\ DOMAIN queue = 1 .. Len(queue)
      /\ \A i \in 1 .. Len(queue) : queue[i] \in Packets /\ InQueue(queue[i])
  BY DEF InQueue
<1>2. \A n \in Packets : Thread(n) \in T
  BY DEF Packets, Thread, OfRecord
<1>3. g \in [1 .. Len(queue) -> T \ {Thread(m)}]
  BY <1>1, <1>2
<1>4. \A i, j \in 1 .. Len(queue) : g[i] = g[j] => i = j
  <2> SUFFICES ASSUME NEW i \in 1 .. Len(queue), NEW j \in 1 .. Len(queue), g[i] = g[j]
               PROVE  i = j
    OBVIOUS
  <2>1. queue[i] = queue[j]
    BY <1>1 DEF OneEach, Moving
  <2> QED BY <1>1, <2>1 DEF OneEach, Distinct
<1>5. g \in Injection(1 .. Len(queue), T \ {Thread(m)})
  BY <1>3, <1>4 DEF Injection, IsInjective
<1>6. IsFiniteSet({"handshake", "record"}) /\ Cardinality({"handshake", "record"}) = 2
  <2>1. IsFiniteSet({"handshake"}) /\ Cardinality({"handshake"}) = 1
    BY FS_Singleton
  <2>2. /\ IsFiniteSet({"handshake"} \cup {"record"})
        /\ Cardinality({"handshake"} \cup {"record"}) = Cardinality({"handshake"}) + 1
    BY <2>1, FS_AddElement
  <2>3. {"handshake", "record"} = {"handshake"} \cup {"record"}
    OBVIOUS
  <2> QED BY <2>1, <2>2, <2>3
<1>7. IsFiniteSet(T) /\ Cardinality(T) = Cardinality(Dials) * 2
  <2>1. IsFiniteSet(Dials)
    BY DEF Calm
  <2> QED BY <1>6, <2>1, FS_Product
<1>8. IsFiniteSet(T \ {Thread(m)}) /\ Cardinality(T \ {Thread(m)}) = Cardinality(T) - 1
  BY <1>2, <1>7, FS_RemoveElement
<1> HIDE DEF T, g
<1>9. Cardinality(1 .. Len(queue)) <= Cardinality(T \ {Thread(m)})
  BY <1>5, <1>8, FS_Injection
<1>10. Cardinality(1 .. Len(queue)) = Len(queue)
  BY <1>1, FS_Interval
<1>11. Cardinality(Dials) \in Nat /\ Cardinality(Dials) * 2 <= MaxQueue /\ MaxQueue \in Nat
  BY FS_CardinalityType, NumbersAssumption DEF Calm
<1> QED BY <1>1, <1>7, <1>8, <1>9, <1>10, <1>11

-----------------------------------------------------------------------------
(* What one step leaves alone.                                             *)

\* The packets of other threads stay where they are.
Elsewhere(t) ==
    \A n \in Packets : Thread(n) # t =>
        /\ InQueue(n)' <=> InQueue(n)
        /\ hand' = n <=> hand = n
        /\ n \in wire' <=> n \in wire

\* Of thread t, at most k is on its way, in one place.
Alone(t, k) == \A n \in Packets : Thread(n) = t /\ Moving(n)' => n = k /\ OnePlace(n)'

\* The flow goes on as it was, as far as packets on their way can tell.
GoesOn(fl, gl) ==
    /\ gl.syn = fl.syn /\ gl.synack = fl.synack
    /\ gl.inj = "none" <=> fl.inj = "none"
    /\ fl.inj = "ended" => gl.inj = "ended"
    /\ fl.done = "ok" => gl.done = "ok"

Kept(m) == (Queued(m) => Queued(m)') /\ (Held(m) => Held(m)') /\ (Wired(m) => Wired(m)')

Same(d) ==
    /\ pc'[d] = pc[d] /\ attempt'[d] = attempt[d]
    /\ kernel'[d] = kernel[d] /\ peer'[d] = peer[d] /\ Flow1(d)' = Flow1(d)

LEMMA OneEachMoved ==
    ASSUME OneEach, NEW t, NEW k, Elsewhere(t), Alone(t, k), Distinct'
    PROVE  OneEach'
<1>1. ASSUME NEW m \in Packets, NEW n \in Packets, Moving(m)', Moving(n)', Thread(m) = Thread(n)
      PROVE  m = n
  BY <1>1 DEF OneEach, Elsewhere, Alone, Moving
<1>2. ASSUME NEW m \in Packets PROVE OnePlace(m)'
  BY DEF OneEach, Elsewhere, Alone, Moving, OnePlace
<1> QED BY <1>1, <1>2 DEF OneEach

LEMMA FactsKept ==
    ASSUME NEW m, kernel'[m.conn] = kernel[m.conn], peer'[m.conn] = peer[m.conn],
           GoesOn(Flow1(m.conn), Flow1(m.conn)')
    PROVE  Kept(m)
BY DEF Kept, Queued, Held, Wired, Fits, Unseen, GoesOn, OfRecord

LEMMA RecordFactsKept ==
    ASSUME NEW m, OfRecord(m), Flow1(m.conn).inj = "ended" => Flow1(m.conn)'.inj = "ended",
           Flow1(m.conn).done = "ok" => Flow1(m.conn)'.done = "ok"
    PROVE  Kept(m)
BY DEF Kept, Queued, Held, Wired, Fits, Unseen, OfRecord

LEMMA TravelsElsewhere ==
    ASSUME NEW t, NEW s, s # t, Elsewhere(t), Travels(s)
    PROVE  Travels(s)'
BY DEF Elsewhere, Travels, Moving

LEMMA StageKept ==
    ASSUME NEW d \in Dials, Stage(d), Same(d),
           Travels(<<d, "handshake">>) => Travels(<<d, "handshake">>)',
           Travels(<<d, "record">>) => Travels(<<d, "record">>)'
    PROVE  Stage(d)'
BY DEF Stage, Same

\* A step that moves a packet k of one thread.
LEMMA PacketStep ==
    ASSUME CalmInv, IInv', PInv', Running', UNCHANGED <<attempt, port, next>>,
           NEW d \in Dials, NEW kind \in {"handshake", "record"},
           NEW k \in Packets, Thread(k) = <<d, kind>>,
           Elsewhere(<<d, kind>>), Alone(<<d, kind>>, k), Distinct',
           \A e \in Dials : e # d => Same(e),
           \A m \in Packets : m.conn = d /\ Thread(m) # <<d, kind>> => Kept(m),
           Placed(k)', Stage(d)'
    PROVE  CalmInv'
<1>1. OneEach'
  BY OneEachMoved DEF CalmInv
<1>2. ASSUME NEW m \in Packets PROVE Placed(m)'
  <2>1. CASE Thread(m) = <<d, kind>>
    BY <2>1 DEF Alone, Placed, Moving
  <2>2. CASE Thread(m) # <<d, kind>>
    <3>1. Kept(m)
      <4>1. CASE m.conn = d
        BY <2>2, <4>1
      <4>2. CASE m.conn # d
        <5>1. m.conn \in Dials
          BY DEF Packets
        <5>2. Same(m.conn)
          BY <4>2, <5>1
        <5> QED BY <5>2, FactsKept DEF Same, GoesOn
      <4> QED BY <4>1, <4>2
    <3>2. Placed(m)
      BY DEF CalmInv
    <3> QED BY <2>2, <3>1, <3>2 DEF Placed, Elsewhere, Kept
  <2> QED BY <2>1, <2>2
<1>3. ASSUME NEW e \in Dials, e # d PROVE Stage(e)'
  <2>1. Stage(e) /\ Same(e)
    BY <1>3 DEF CalmInv
  <2>2. \A s : <<e, s>> # <<d, kind>>
    BY <1>3
  <2>3. Travels(<<e, "handshake">>) => Travels(<<e, "handshake">>)'
    BY <2>2, TravelsElsewhere
  <2>4. Travels(<<e, "record">>) => Travels(<<e, "record">>)'
    BY <2>2, TravelsElsewhere
  <2> QED BY <2>1, <2>3, <2>4, StageKept
<1>4. PortsApart'
  BY DEF CalmInv, PortsApart, Begun, Age
<1> QED BY <1>1, <1>2, <1>3, <1>4 DEF CalmInv

\* A step that moves no packet.
LEMMA QuietStep ==
    ASSUME CalmInv, IInv', PInv', Running', PortsApart',
           UNCHANGED <<hand, queue, wire, kernel, peer>>,
           NEW d \in Dials, \A e \in Dials : e # d => Same(e),
           GoesOn(Flow1(d), Flow1(d)'), Stage(d)'
    PROVE  CalmInv'
<1>1. \A m : /\ InQueue(m)' <=> InQueue(m)
             /\ Moving(m)' <=> Moving(m)
  BY DEF InQueue, Moving
<1>2. OneEach'
  BY <1>1 DEF CalmInv, OneEach, OnePlace, Distinct, InQueue
<1>3. ASSUME NEW m \in Packets PROVE Placed(m)'
  <2>1. m.conn \in Dials
    BY DEF Packets
  <2>2. GoesOn(Flow1(m.conn), Flow1(m.conn)')
    BY <2>1 DEF Same, GoesOn
  <2>3. Kept(m)
    BY <2>2, FactsKept
  <2> QED BY <1>1, <2>3 DEF CalmInv, Placed, Kept
<1>4. ASSUME NEW e \in Dials, e # d PROVE Stage(e)'
  BY <1>1, <1>4, StageKept DEF CalmInv, Travels
<1> QED BY <1>2, <1>3, <1>4 DEF CalmInv

-----------------------------------------------------------------------------
(* What does not happen on a calm network.                                 *)

LEMMA OneFlow == \A d \in Dials : <<d, 1>> \in Flows
BY NumbersAssumption DEF Flows

LEMMA Facts ==
    ASSUME CalmInv
    PROVE  /\ TypeOK /\ PortOwnership /\ Running /\ OneEach
           /\ \A d \in Dials : Stage(d) /\ Flow1(d) \in FlowStates
           /\ \A d \in Dials : attempt[d] \in {0, 1} /\ (attempt[d] = 1 => Current(d) = <<d, 1>>)
           /\ \A d \in Dials : attempt[d] = 0 <=> pc[d] \in {"idle", "ready", "err"}
           /\ \A m \in Packets : Placed(m)
<1>1. TypeOK /\ PortOwnership /\ Running /\ OneEach
  BY DEF CalmInv, IInv, PInv
<1>2. \A d \in Dials : Stage(d) /\ Flow1(d) \in FlowStates
  BY <1>1, OneFlow DEF CalmInv, TypeOK, Flow1
<1>3. \A d \in Dials : attempt[d] = IF pc[d] \in {"idle", "ready", "err"} THEN 0 ELSE 1
  BY <1>2 DEF Stage
<1> QED BY <1>1, <1>2, <1>3 DEF CalmInv, Current

\* A packet that somebody waits for is with the capture loop or on the wire.
LEMMA SomebodyActs ==
    ASSUME CalmInv, NEW d \in Dials, NEW kind, Travels(<<d, kind>>), pc[d] \notin {"idle", "err"}
    PROVE  ~Quiescent
<1>1. PICK m \in Packets : Moving(m)
  BY DEF Travels
<1>2. handle = "open" /\ loop = "recv"
  BY Facts DEF Running
<1>3. InQueue(m) => queue # <<>>
  <2>1. queue \in Seq(Packets)
    BY Facts DEF TypeOK
  <2> QED BY <2>1 DEF InQueue
<1>4. m # None
  BY PacketsAssumption
<1> QED BY <1>1, <1>2, <1>3, <1>4 DEF Moving, Quiescent

LEMMA NobodyGivesUp ==
    ASSUME Calm, CalmInv, NEW d \in Dials
    PROVE  ~ConnectTimeout(d) /\ ~GiveUpWaiting(d) /\ ~ConnectFails(d) /\ ~AddrInUse(d)
           /\ ~GiveUp(d) /\ ~PortBusy(d)
<1>1. Stage(d) /\ Flow1(d) \in FlowStates /\ Faults = {}
      /\ (attempt[d] = 1 => Current(d) = <<d, 1>>)
  BY Facts DEF Calm
<1>2. ~ConnectTimeout(d)
  BY <1>1, SomebodyActs DEF ConnectTimeout, Stage
<1>3. ~GiveUpWaiting(d)
  <2> SUFFICES ASSUME pc[d] = "wait", Quiescent, flow[Current(d)].done = "open" PROVE FALSE
    BY <1>1 DEF GiveUpWaiting
  <2>1. kernel[d] = "estab" /\ attempt[d] = 1 /\ Flow1(d).inj # "none"
        /\ Flow1(d).done = "open"
    BY <1>1 DEF Stage, Flow1
  <2>2. Flow1(d).inj \notin {"delay", "armed"}
    BY OneFlow DEF Quiescent, Flow1
  <2>3. Flow1(d).inj = "ended"
    BY <1>1, <2>1, <2>2 DEF FlowStates
  <2> QED BY <1>1, <2>1, <2>3, SomebodyActs DEF Stage
<1>4. ~ConnectFails(d) /\ ~AddrInUse(d) /\ ~GiveUp(d)
  BY <1>1 DEF ConnectFails, AddrInUse, GiveUp, Stage
<1>5. ~PortBusy(d)
  <2> SUFFICES ASSUME pc[d] = "register", table[port[d]] # None PROVE FALSE
    BY DEF PortBusy, PortFree
  <2>1. port[d] \in Ports
    BY Facts DEF TypeOK
  <2>2. PICK e \in Dials : InFlight(e) /\ port[e] = port[d]
    BY <2>1, Facts DEF PortOwnership
  <2>3. d \in Begun /\ e \in Begun
    BY <2>2, Facts DEF Begun, InFlight
  <2>4. d = e
    BY <2>2, <2>3 DEF CalmInv, PortsApart
  <2> QED BY <2>2, <2>4 DEF InFlight
<1> QED BY <1>2, <1>3, <1>4, <1>5

LEMMA NothingFails ==
    ASSUME Calm, CalmInv
    PROVE  /\ ~CloseBegin /\ ~CloseEnd /\ ~CaptureResendFails /\ ~CaptureExit
           /\ \A f \in Flows : ~InjectFails(f)
           /\ \A d \in Dials : ~EdgeRetransmit(d) /\ ~EdgeReset(d)
           /\ \A m \in wire : ~Lose(m)
BY Facts DEF Calm, Running, CloseBegin, CloseEnd, CaptureResendFails, CaptureExit, InjectFails,
   EdgeRetransmit, EdgeReset, Lose

-----------------------------------------------------------------------------
(* The dialling goroutine.                                                 *)

\* portCursor.take goes to the next port, round the end of the window.
LEMMA NextPortIs ==
    ASSUME next \in Ports
    PROVE  NextPort = IF next + 1 = Span THEN 0 ELSE next + 1
<1>1. Span \in Nat \ {0} /\ next \in 0 .. Span - 1
  BY NumbersAssumption DEF Ports
<1> QED BY <1>1 DEF NextPort

LEMMA TakeApart ==
    ASSUME Calm, CalmInv, NEW d \in Dials, Take(d)
    PROVE  PortsApart' /\ attempt'[d] = 1
<1>1. /\ attempt[d] = 0 /\ attempt'[d] = 1 /\ port'[d] = next' /\ next' = NextPort
      /\ \A e \in Dials : e # d => attempt'[e] = attempt[e] /\ port'[e] = port[e]
  <2>1. attempt[d] = 0 /\ attempt \in [Dials -> 0 .. MaxAttempts] /\ port \in [Dials -> Ports]
    BY Facts DEF Take, TypeOK
  <2> QED BY <2>1 DEF Take
<1>2. /\ next \in Ports /\ \A e \in Dials : port[e] \in Ports
      /\ Span \in Nat \ {0} /\ Ports = 0 .. Span - 1
  BY Facts, NumbersAssumption DEF TypeOK, Ports
<1>3. Begun' = Begun \cup {d} /\ d \notin Begun /\ Begun' \subseteq Dials
  BY <1>1 DEF Begun
<1>4. IsFiniteSet(Dials) /\ Cardinality(Dials) <= Span
  BY DEF Calm
<1>5. IsFiniteSet(Begun)
  BY <1>4, FS_Subset DEF Begun
<1>6. Cardinality(Begun') = Cardinality(Begun) + 1
  BY <1>3, <1>5, FS_AddElement
<1>7. /\ Cardinality(Begun') <= Cardinality(Dials) /\ Cardinality(Begun) \in Nat
      /\ Cardinality(Dials) \in Nat
  BY <1>3, <1>4, <1>5, FS_Subset, FS_CardinalityType
<1>8. next' = IF next + 1 = Span THEN 0 ELSE next + 1
  BY <1>1, <1>2, NextPortIs
<1>9. Age(next', port'[d]) = 0
  BY <1>1, <1>2, <1>8 DEF Age
<1>10. ASSUME NEW e \in Begun
       PROVE  /\ e # d /\ port'[e] = port[e] /\ Age(next', port[e]) = Age(next, port[e]) + 1
              /\ port'[e] # port'[d]
  <2>1. e # d /\ port'[e] = port[e] /\ port[e] \in Ports /\ e \in Dials
    BY <1>1, <1>2, <1>3 DEF Begun
  <2>2. Age(next, port[e]) < Cardinality(Begun)
    BY DEF CalmInv, PortsApart
  <2>3. Age(next, port[e]) < Span - 1
    BY <1>2, <1>4, <1>6, <1>7, <2>1, <2>2 DEF Age
  <2>4. Age(next', port[e]) = Age(next, port[e]) + 1
    BY <1>2, <1>8, <2>1, <2>3 DEF Age
  <2> QED BY <1>1, <1>2, <1>8, <2>1, <2>3 DEF Age
<1>11. ASSUME NEW e \in Begun' PROVE Age(next', port'[e]) < Cardinality(Begun')
  <2>1. CASE e = d
    BY <1>6, <1>7, <1>9, <2>1
  <2>2. CASE e \in Begun
    <3>1. Age(next, port[e]) < Cardinality(Begun) /\ Age(next, port[e]) \in Int
      BY <1>2, <1>10, <2>2 DEF CalmInv, PortsApart, Age, Begun
    <3>2. Age(next', port'[e]) = Age(next, port[e]) + 1
      BY <1>10, <2>2
    <3> QED BY <1>6, <1>7, <3>1, <3>2
  <2> QED BY <1>3, <2>1, <2>2
<1>12. ASSUME NEW e \in Begun', NEW c \in Begun', port'[e] = port'[c] PROVE e = c
  <2>1. e \in Begun /\ c \in Begun => port[e] = port[c]
    BY <1>10, <1>12
  <2>2. e \in Begun /\ c \in Begun => e = c
    BY <2>1 DEF CalmInv, PortsApart
  <2> QED BY <1>3, <1>10, <1>12, <2>2
<1> QED BY <1>1, <1>11, <1>12 DEF PortsApart

\* A step of d's goroutine that leaves everything but its own state alone.
LEMMA OwnStep ==
    ASSUME CalmInv, IInv', PInv', NEW d \in Dials, NEW x,
           pc' = [pc EXCEPT ![d] = x],
           UNCHANGED <<flow, engineVars, netVars>>,
           \A e \in Dials : e # d => attempt'[e] = attempt[e],
           handle = "nil" => x = "err",
           PortsApart', Stage(d)'
    PROVE  CalmInv'
<1>1. \A e \in Dials : e # d => pc'[e] = pc[e]
  BY Facts DEF TypeOK
<1>2. pc'[d] = x
  BY Facts DEF TypeOK
<1>3. Running'
  BY <1>1, <1>2, Facts DEF Running, engineVars
<1>4. \A e \in Dials : e # d => Same(e)
  BY <1>1 DEF Same, netVars, Flow1
<1>5. GoesOn(Flow1(d), Flow1(d)')
  BY DEF GoesOn, Flow1
<1> QED BY <1>3, <1>4, <1>5, QuietStep DEF netVars

LEMMA PortsStay ==
    ASSUME CalmInv, UNCHANGED <<attempt, port, next>> PROVE PortsApart'
BY DEF CalmInv, PortsApart, Begun

LEMMA TravelsStay ==
    ASSUME UNCHANGED netVars, NEW t PROVE Travels(t)' <=> Travels(t)
BY DEF netVars, Travels, Moving, InQueue

\* A dial in flight finds its flow in the table.
LEMMA OwnEntry ==
    ASSUME CalmInv, NEW d \in Dials, InFlight(d)
    PROVE  table[port[d]] = <<d, 1>>
<1>1. attempt[d] = 1
  BY Facts DEF InFlight
<1> QED BY <1>1, Facts DEF Running, PortOwnership

\* What a dial that leaves has removed is its own flow.
RemovedOwn ==
    \A d \in Dials : pc[d] \in {"uncount_ok", "finish_ok"} => removed[d] = <<d, 1>>

LEMMA RemovedOwnStep ==
    ASSUME CalmInv, RemovedOwn, [Next]_vars
    PROVE  RemovedOwn'
<1> SUFFICES ASSUME NEW d \in Dials, pc'[d] \in {"uncount_ok", "finish_ok"}
             PROVE  removed'[d] = <<d, 1>>
  BY DEF RemovedOwn
<1>1. TypeOK
  BY Facts
<1>2. CASE Unregister(d)
  <2>1. InFlight(d)
    BY <1>2 DEF Unregister, InFlight
  <2>2. table[port[d]] = <<d, 1>>
    BY <2>1, OwnEntry
  <2> QED BY <1>1, <1>2, <2>2 DEF Unregister, TypeOK
<1>3. CASE Uncount(d)
  <2>1. pc[d] = "uncount_ok" /\ removed' = removed
    BY <1>1, <1>3 DEF Uncount, ToFinish, TypeOK
  <2> QED BY <2>1 DEF RemovedOwn
<1>4. CASE Dial(d) /\ ~Unregister(d) /\ ~Uncount(d)
  BY <1>1, <1>4 DEF Dial, Begin, Take, GiveUp, Register, Count, PortBusy, AddrInUse, ConnectFails,
     ConnectTimeout, Connected, Resolved, GiveUpWaiting, FinishRemoved, AfterLeaving, TypeOK
<1>5. CASE ~Dial(d)
  BY <1>1, <1>5, DialFrame DEF RemovedOwn
<1> QED BY <1>2, <1>3, <1>4, <1>5

LEMMA DialCalm ==
    ASSUME Calm, CalmInv, RemovedOwn, IInv', PInv', NEW d \in Dials, Dial(d)
    PROVE  CalmInv'
<1>1. /\ Stage(d) /\ Flow1(d) \in FlowStates /\ TypeOK /\ Running
      /\ (attempt[d] = 0 <=> pc[d] \in {"idle", "ready", "err"})
      /\ (attempt[d] = 1 => Current(d) = <<d, 1>>) /\ attempt[d] \in {0, 1}
  BY Facts
<1>2. \A x : pc' = [pc EXCEPT ![d] = x] => pc'[d] = x
  BY <1>1 DEF TypeOK
<1>3. UNCHANGED netVars => /\ Travels(<<d, "handshake">>)' <=> Travels(<<d, "handshake">>)
                           /\ Travels(<<d, "record">>)' <=> Travels(<<d, "record">>)
  BY TravelsStay
<1>4. UNCHANGED <<kernel, peer, flow>>
        => kernel'[d] = kernel[d] /\ peer'[d] = peer[d] /\ Flow1(d)' = Flow1(d)
  BY DEF Flow1
<1>5. CASE Begin(d)
  <2> DEFINE x == IF handle = "nil" THEN "err" ELSE "ready"
  <2>1. /\ pc' = [pc EXCEPT ![d] = x] /\ pc[d] = "idle" /\ (handle = "nil" => x = "err")
        /\ UNCHANGED <<attempt, port, next, flow, engineVars, netVars>>
    BY <1>5 DEF Begin
  <2>2. x \in {"ready", "err"} /\ pc'[d] = x /\ attempt'[d] = attempt[d] /\ UNCHANGED <<kernel, peer>>
    BY <1>2, <2>1 DEF netVars
  <2> HIDE DEF x
  <2>3. Stage(d)'
    BY <1>1, <1>3, <1>4, <2>1, <2>2 DEF Stage, ReturningWell
  <2> QED BY <2>1, <2>3, OwnStep, PortsStay
<1>6. CASE Take(d)
  <2>1. /\ pc' = [pc EXCEPT ![d] = "register"] /\ pc[d] = "ready"
        /\ UNCHANGED <<flow, engineVars, netVars>>
        /\ \A e \in Dials : e # d => attempt'[e] = attempt[e]
    BY <1>1, <1>6 DEF Take, TypeOK
  <2>2. pc'[d] = "register" /\ attempt'[d] = 1 /\ PortsApart' /\ UNCHANGED <<kernel, peer>>
    BY <1>2, <1>6, <2>1, TakeApart DEF netVars
  <2>3. Stage(d)'
    BY <1>1, <1>3, <1>4, <2>1, <2>2 DEF Stage, ReturningWell
  <2>4. handle # "nil"
    BY <1>1, <2>1 DEF Running
  <2> QED BY <2>1, <2>2, <2>3, <2>4, OwnStep
<1>7. CASE Register(d)
  <2>1. /\ pc' = [pc EXCEPT ![d] = "count"] /\ pc[d] = "register"
        /\ UNCHANGED <<attempt, port, next, flow, engineVars, netVars>>
    BY <1>7 DEF Register
  <2>2. pc'[d] = "count" /\ attempt'[d] = 1 /\ UNCHANGED <<kernel, peer>>
    BY <1>1, <1>2, <2>1 DEF netVars
  <2>3. Stage(d)'
    BY <1>1, <1>3, <1>4, <2>1, <2>2 DEF Stage, ReturningWell
  <2>4. handle # "nil"
    BY <1>1, <2>1 DEF Running
  <2> QED BY <2>1, <2>3, <2>4, OwnStep, PortsStay
<1>8. CASE Connected(d)
  <2>1. /\ pc' = [pc EXCEPT ![d] = "wait"] /\ pc[d] = "connect" /\ kernel[d] = "estab"
        /\ UNCHANGED <<attempt, port, next, flow, engineVars, netVars>>
    BY <1>8 DEF Connected
  <2>2. pc'[d] = "wait" /\ attempt'[d] = 1 /\ UNCHANGED <<kernel, peer>>
    BY <1>1, <1>2, <2>1 DEF netVars
  <2>3. Stage(d)'
    BY <1>1, <1>3, <1>4, <2>1, <2>2 DEF Stage, ReturningWell
  <2>4. handle # "nil"
    BY <1>1, <2>1 DEF Running
  <2> QED BY <2>1, <2>3, <2>4, OwnStep, PortsStay
<1>9. CASE Resolved(d)
  <2>1. pc[d] = "wait" /\ attempt[d] = 1 /\ Flow1(d).done = "ok"
    BY <1>1, <1>9 DEF Resolved, Stage, ReturningWell, FlowStates, Flow1
  <2>2. /\ pc' = [pc EXCEPT ![d] = "leave_ok"]
        /\ UNCHANGED <<attempt, port, next, flow, engineVars, netVars>>
    BY <1>1, <1>9, <2>1 DEF Resolved, netVars, Flow1
  <2>3. pc'[d] = "leave_ok" /\ attempt'[d] = 1 /\ UNCHANGED <<kernel, peer>>
    BY <1>2, <2>1, <2>2 DEF netVars
  <2>4. Stage(d)'
    BY <1>1, <1>3, <1>4, <2>1, <2>2, <2>3 DEF Stage, ReturningWell
  <2>5. handle # "nil"
    BY <1>1, <2>1 DEF Running
  <2> QED BY <2>2, <2>4, <2>5, OwnStep, PortsStay
<1>12. ASSUME NEW x \in ReturningWell, pc[d] \in ReturningWell, attempt[d] = 1, flow' = flow,
              pc' = [pc EXCEPT ![d] = x], UNCHANGED <<attempt, port, next, engineVars, netVars>>
       PROVE  CalmInv'
  <2>1. pc'[d] = x /\ attempt'[d] = 1 /\ UNCHANGED <<kernel, peer>>
    BY <1>2, <1>12 DEF netVars
  <2>2. Stage(d)'
    BY <1>1, <1>3, <1>4, <1>12, <2>1 DEF Stage, ReturningWell
  <2>3. handle # "nil"
    BY <1>1, <1>12 DEF Running, ReturningWell
  <2> QED BY <1>12, <2>2, <2>3, OwnStep, PortsStay
<1>13. CASE Count(d)
  <2>1. /\ pc' = [pc EXCEPT ![d] = "connect"] /\ pc[d] = "count"
        /\ UNCHANGED <<attempt, port, next, flow, engineVars, netVars>>
    BY <1>13 DEF Count
  <2>2. pc'[d] = "connect" /\ attempt'[d] = 1 /\ UNCHANGED <<kernel, peer>>
    BY <1>1, <1>2, <2>1 DEF netVars
  <2>3. Stage(d)'
    BY <1>1, <1>3, <1>4, <2>1, <2>2 DEF Stage, ReturningWell
  <2>4. handle # "nil"
    BY <1>1, <2>1 DEF Running
  <2> QED BY <2>1, <2>3, <2>4, OwnStep, PortsStay
<1>10. CASE Unregister(d)
  <2>1. pc[d] = "leave_ok" /\ attempt[d] = 1
    BY <1>1, <1>10 DEF Unregister, Stage, ReturningWell
  <2>2. table[port[d]] = <<d, 1>> /\ <<d, 1>> # None
    <3>1. InFlight(d)
      BY <2>1 DEF InFlight
    <3>2. <<d, 1>> # None
      BY OneFlow, DialsAssumption DEF Flows
    <3> QED BY <3>1, <3>2, OwnEntry
  <2>3. /\ pc' = [pc EXCEPT ![d] = "uncount_ok"]
        /\ UNCHANGED <<attempt, port, next, flow, engineVars, netVars>>
    BY <1>10, <2>1, <2>2 DEF Unregister, ToUncount
  <2> QED BY <2>1, <2>3, <1>12 DEF ReturningWell
<1>11. CASE Uncount(d) \/ FinishRemoved(d)
  <2>1. pc[d] \in {"uncount_ok", "finish_ok"} /\ attempt[d] = 1
    BY <1>1, <1>11 DEF Uncount, FinishRemoved, Stage, ReturningWell
  <2>2. Flow1(d).done = "ok"
    BY <1>1, <2>1 DEF CalmInv, IInv, Returned, ReturningWell, Flow1
  <2>3. Finish(Flow1(d), "err") = Flow1(d)
    BY <1>1, <2>2 DEF Finish, FlowStates
  <2>4. flow' = flow
    <3>1. CASE FinishRemoved(d)
      <4>1. pc[d] = "finish_ok" /\ removed[d] = <<d, 1>>
        BY <2>1, <3>1 DEF FinishRemoved, RemovedOwn
      <4>2. flow' = [flow EXCEPT ![<<d, 1>>] = Flow1(d)]
        BY <2>3, <3>1, <4>1 DEF FinishRemoved, Flow1
      <4> QED BY <1>1, <4>2 DEF TypeOK, Flow1
    <3>2. CASE Uncount(d)
      BY <3>2 DEF Uncount
    <3> QED BY <1>11, <3>1, <3>2
  <2>5. PICK x \in {"finish_ok", "ok"} :
          /\ pc' = [pc EXCEPT ![d] = x]
          /\ UNCHANGED <<attempt, port, next, engineVars, netVars>>
    BY <1>11, <2>1 DEF Uncount, FinishRemoved, ToFinish, AfterLeaving
  <2> QED BY <2>1, <2>4, <2>5, <1>12 DEF ReturningWell
<1> QED
  BY <1>5, <1>6, <1>7, <1>8, <1>9, <1>10, <1>11, <1>13, NobodyGivesUp DEF Dial

-----------------------------------------------------------------------------
(* The injection.                                                          *)

\* A step that changes d's flow and nothing else.
LEMMA FlowStepCalm ==
    ASSUME CalmInv, IInv', PInv', NEW d \in Dials, NEW fl,
           flow' = [flow EXCEPT ![<<d, 1>>] = fl], GoesOn(Flow1(d), fl),
           UNCHANGED <<dialVars, engineVars, netVars>>,
           fl.inj \in {"armed", "ended"} => fl.fake # <<>> \/ fl.done = "ok",
           fl.done # "err", fl.inj = "ended" => fl.done = "ok",
           Flow1(d).inj # "none"
    PROVE  CalmInv'
<1>1. Flow1(d)' = fl /\ \A e \in Dials : e # d => Flow1(e)' = Flow1(e)
  BY OneFlow, Facts DEF TypeOK, Flow1
<1>2. \A e \in Dials : e # d => Same(e)
  BY <1>1 DEF Same, dialVars, netVars
<1>3. Travels(<<d, "handshake">>)' <=> Travels(<<d, "handshake">>)
  BY TravelsStay
<1>4. kernel[d] # "none"
  BY Facts DEF Stage, NoFlow
<1>5. Stage(d)'
  BY <1>1, <1>3, <1>4, Facts DEF Stage, GoesOn, dialVars, netVars
<1>6. Running' /\ PortsApart'
  BY Facts, PortsStay DEF Running, dialVars, engineVars
<1> QED BY <1>1, <1>2, <1>5, <1>6, QuietStep DEF netVars

\* A step of a flow that no attempt of a calm dial uses.
LEMMA OtherFlowCalm ==
    ASSUME CalmInv, IInv', PInv', \A d \in Dials : Flow1(d)' = Flow1(d),
           UNCHANGED <<dialVars, engineVars, netVars>>
    PROVE  CalmInv'
<1>1. PICK d \in Dials : TRUE
  BY DialsAssumption
<1>2. Running' /\ PortsApart'
  BY Facts, PortsStay DEF Running, dialVars, engineVars
<1>3. \A e \in Dials : Same(e)
  BY DEF Same, dialVars, netVars
<1>4. GoesOn(Flow1(d), Flow1(d)')
  BY DEF GoesOn
<1>5. Stage(d)'
  BY <1>3, StageKept, TravelsStay, Facts
<1> QED BY <1>2, <1>3, <1>4, <1>5, QuietStep DEF netVars

LEMMA SendCalm ==
    ASSUME Calm, CalmInv, IInv', PInv', NEW d \in Dials, InjectSend(<<d, 1>>)
    PROVE  CalmInv'
<1> DEFINE t == <<d, "record">>
           k == Packet("RECORD", d)
           out == [Flow1(d) EXCEPT !.inj = "ended", !.sent = Flow1(d).sent + 1]
           fl == IF Mode = "fast" THEN Finish(out, "ok") ELSE out
<1>1. /\ Stage(d) /\ Flow1(d) \in FlowStates /\ TypeOK /\ Running /\ OneEach
      /\ (attempt[d] = 0 <=> pc[d] \in {"idle", "ready", "err"})
      /\ (attempt[d] = 1 => Current(d) = <<d, 1>>) /\ attempt[d] \in {0, 1}
  BY Facts
<1>2. /\ Flow1(d).inj = "armed"
      /\ flow' = [flow EXCEPT ![<<d, 1>>] = fl]
      /\ wire' = IF <<d, 1>> = Current(d) THEN wire \cup {k} ELSE wire
      /\ UNCHANGED <<dialVars, table, active, engineVars, hand, queue, kernel, peer>>
  BY DEF InjectSend, Flow1
<1>3. attempt[d] = 1 /\ wire' = wire \cup {k}
  BY <1>1, <1>2 DEF Stage, NoFlow
<1>4. k \in Packets /\ Thread(k) = t /\ k.kind = "RECORD" /\ k.conn = d /\ OfRecord(k)
  BY DEF Packet, Packets, Outbound, Thread, OfRecord
<1>5. /\ fl.syn = Flow1(d).syn /\ fl.synack = Flow1(d).synack /\ fl.fake = Flow1(d).fake
      /\ fl.inj = "ended"
      /\ fl.done = IF Mode = "fast" /\ Flow1(d).done = "open" THEN "ok" ELSE Flow1(d).done
  BY <1>1 DEF Finish, FlowStates
<1>6. Flow1(d)' = fl /\ \A e \in Dials : e # d => Flow1(e)' = Flow1(e)
  BY <1>1, <1>2, OneFlow DEF TypeOK, Flow1
<1> HIDE DEF t, k, out, fl
<1>7. \A n \in Packets : Thread(n) = t => ~Moving(n)
  <2> SUFFICES ASSUME NEW n \in Packets, Thread(n) = t, Moving(n) PROVE FALSE
    OBVIOUS
  <2>1. n.conn = d /\ OfRecord(n)
    BY DEF Thread, t
  <2>2. Fits(n)
    BY Facts DEF Placed, Moving, Queued, Held, Wired
  <2> QED BY <1>2, <2>1, <2>2 DEF Fits
<1>8. Elsewhere(t) /\ \A n : InQueue(n)' <=> InQueue(n)
  BY <1>2, <1>3, <1>4 DEF Elsewhere, InQueue
<1>9. \A n \in Packets : Thread(n) = t /\ Moving(n)' => n = k
  BY <1>2, <1>3, <1>7, <1>8 DEF Moving
<1>10. ~InQueue(k)' /\ hand' # k
  BY <1>2, <1>4, <1>7, <1>8 DEF Moving
<1>11. Alone(t, k)
  BY <1>9, <1>10 DEF Alone, OnePlace
<1>12. Distinct'
  BY <1>1, <1>2 DEF OneEach, Distinct
<1>13. GoesOn(Flow1(d), fl)
  BY <1>2, <1>5 DEF GoesOn
<1>14. \A m \in Packets : m.conn = d => Kept(m)
  BY <1>2, <1>6, <1>13, FactsKept
<1>15. Placed(k)'
  BY <1>4, <1>5, <1>6, <1>10 DEF Placed, Wired, Fits, Unseen
<1>16. \A e \in Dials : e # d => Same(e)
  BY <1>2, <1>6 DEF Same, dialVars
<1>17. Travels(<<d, "record">>)'
  BY <1>3, <1>4 DEF Travels, Moving, t
<1>18. Travels(<<d, "handshake">>) => Travels(<<d, "handshake">>)'
  BY <1>8, TravelsElsewhere DEF t
<1>19. Stage(d)'
  BY <1>1, <1>2, <1>3, <1>5, <1>6, <1>17, <1>18, ModeAssumption DEF Stage, dialVars
<1>20. Running' /\ UNCHANGED <<attempt, port, next>>
  BY <1>1, <1>2 DEF Running, dialVars, engineVars
<1> QED
  BY <1>4, <1>8, <1>11, <1>12, <1>14, <1>15, <1>16, <1>19, <1>20, PacketStep DEF t

LEMMA InjectCalm ==
    ASSUME Calm, CalmInv, IInv', PInv', NEW f \in Flows, Inject(f)
    PROVE  CalmInv'
<1>1. PICK d \in Dials, j \in 1 .. MaxAttempts : f = <<d, j>>
  BY DEF Flows
<1>2. Stage(d) /\ Flow1(d) \in FlowStates
  BY Facts
<1>3. CASE j = 1 /\ InjectAbort(f)
  <2> DEFINE fl == [Flow1(d) EXCEPT !.inj = "ended"]
  <2>1. /\ flow' = [flow EXCEPT ![<<d, 1>>] = fl] /\ Flow1(d).inj = "delay"
        /\ Flow1(d).done # "open"
        /\ UNCHANGED <<dialVars, engineVars, netVars>>
    BY <1>1, <1>3 DEF InjectAbort, Flow1
  <2>2. Flow1(d).done = "ok"
    BY <1>2, <2>1 DEF Stage, FlowStates
  <2>3. GoesOn(Flow1(d), fl) /\ fl.inj = "ended" /\ fl.done = "ok"
    BY <1>2, <2>1, <2>2 DEF GoesOn, FlowStates
  <2> HIDE DEF fl
  <2> QED BY <2>1, <2>3, FlowStepCalm
<1>4. CASE j = 1 /\ InjectArm(f)
  <2> DEFINE fl == [Flow1(d) EXCEPT !.inj = "armed",
                                    !.fake = <<Flow1(d).syn, Flow1(d).synack>>]
  <2>1. /\ flow' = [flow EXCEPT ![<<d, 1>>] = fl] /\ Flow1(d).inj = "delay"
        /\ UNCHANGED <<dialVars, engineVars, netVars>>
    BY <1>1, <1>4 DEF InjectArm, Flow1
  <2>2. /\ GoesOn(Flow1(d), fl) /\ fl.inj = "armed" /\ fl.done = Flow1(d).done
        /\ fl.fake = <<Flow1(d).syn, Flow1(d).synack>>
    BY <1>2, <2>1 DEF GoesOn, FlowStates
  <2> HIDE DEF fl
  <2>3. fl.fake # <<>> /\ fl.done # "err"
    BY <1>2, <2>2 DEF Stage
  <2> QED BY <2>1, <2>2, <2>3, FlowStepCalm
<1>5. CASE j = 1 /\ InjectSend(f)
  BY <1>1, <1>5, SendCalm
<1>6. CASE j # 1 /\ ~InjectFails(f)
  <2>1. \A e \in Dials : f # <<e, 1>>
    BY <1>1, <1>6
  <2>2. f # Current(f[1])
    BY <1>1, <1>6, Facts DEF Current
  <2>3. UNCHANGED <<dialVars, engineVars, netVars>>
        /\ \A g \in Flows : g # f => flow'[g] = flow[g]
    BY <1>6, <2>2, Facts DEF Inject, InjectAbort, InjectArm, InjectSend, netVars, TypeOK
  <2> QED BY <2>1, <2>3, OneFlow, OtherFlowCalm DEF Flow1
<1> QED
  BY <1>3, <1>4, <1>5, <1>6, NothingFails DEF Inject

LEMMA StartCalm ==
    ASSUME CalmInv, IInv', PInv', Start \/ UNCHANGED vars
    PROVE  CalmInv'
<1>1. PICK d \in Dials : TRUE
  BY DialsAssumption
<1>2. UNCHANGED <<dialVars, flow, netVars>>
  BY DEF Start, vars
<1>3. Running' /\ PortsApart'
  BY <1>2, Facts, PortsStay DEF Running, dialVars, Start, vars, engineVars
<1>4. \A e \in Dials : Same(e)
  BY <1>2 DEF Same, dialVars, netVars, Flow1
<1>5. GoesOn(Flow1(d), Flow1(d)')
  BY <1>2 DEF GoesOn, Flow1
<1>6. Stage(d)'
  BY <1>2, <1>4, StageKept, TravelsStay, Facts
<1> QED BY <1>2, <1>3, <1>4, <1>5, <1>6, QuietStep DEF netVars

-----------------------------------------------------------------------------
(* The packets.                                                            *)

LEMMA MovingFits ==
    ASSUME CalmInv, NEW m \in Packets, Moving(m)
    PROVE  /\ m.conn \in Dials /\ Fits(m) /\ Placed(m) /\ OnePlace(m) /\ m # None
           /\ \A n \in Packets : Thread(n) = Thread(m) /\ Moving(n) => n = m
BY Facts, PacketsAssumption DEF Packets, Placed, Moving, Queued, Held, Wired, OneEach

LEMMA ThreadOf ==
    ASSUME NEW d \in Dials, NEW kind \in {"SYN", "SYNACK", "ACK", "RECORD", "ANSWER"}
    PROVE  /\ Packet(kind, d) \in Packets
           /\ Packet(kind, d).kind = kind /\ Packet(kind, d).conn = d
           /\ Thread(Packet(kind, d)) = <<d, IF kind \in {"RECORD", "ANSWER"}
                                             THEN "record" ELSE "handshake">>
BY DEF Packet, Packets, Outbound, Inbound, PureACK, Thread, OfRecord

LEMMA ThreadKinds ==
    ASSUME NEW m
    PROVE  /\ OfRecord(m) => Thread(m) = <<m.conn, "record">>
           /\ ~OfRecord(m) => Thread(m) = <<m.conn, "handshake">>
BY DEF Thread

LEMMA KernelSYNCalm ==
    ASSUME Calm, CalmInv, IInv', PInv', NEW d \in Dials, KernelSYN(d)
    PROVE  CalmInv'
<1> DEFINE t == <<d, "handshake">>
           k == Packet("SYN", d)
<1>1. /\ Stage(d) /\ TypeOK /\ Running /\ OneEach
  BY Facts
<1>2. /\ pc[d] = "connect" /\ kernel[d] = "none" /\ Emit(k)
      /\ kernel' = [kernel EXCEPT ![d] = "synsent"]
      /\ UNCHANGED <<dialVars, table, flow, active, engineVars, hand, peer>>
  BY DEF KernelSYN, Calm
<1>3. Captured("SYN") /\ k.kind = "SYN" /\ k.conn = d /\ k \in Packets /\ Thread(k) = t
      /\ ~OfRecord(k)
  BY <1>1, <1>2, ThreadOf DEF Captured, Running, OfRecord
<1> HIDE DEF t, k
<1>4. \A n \in Packets : Thread(n) = t => ~Moving(n)
  <2> SUFFICES ASSUME NEW n \in Packets, Thread(n) = t, Moving(n) PROVE FALSE
    OBVIOUS
  <2>1. n.conn = d /\ ~OfRecord(n) /\ Fits(n)
    BY MovingFits DEF Thread, t
  <2> QED BY <1>2, <2>1 DEF Fits, OfRecord
<1>5. queue' = Append(queue, k) /\ wire' = wire
  <2>1. Len(queue) < MaxQueue
    BY <1>1, <1>3, <1>4, RoomInQueue DEF TypeOK, Moving
  <2> QED BY <1>2, <1>3, <2>1 DEF Emit, Divert
<1>6. Distinct' /\ \A n \in Packets : InQueue(n)' <=> InQueue(n) \/ n = k
  BY <1>1, <1>3, <1>4, <1>5, QueueAppended DEF TypeOK, OneEach, Moving
<1>7. Elsewhere(t)
  BY <1>2, <1>3, <1>5, <1>6 DEF Elsewhere
<1>8. Alone(t, k) /\ hand' # k /\ k \notin wire'
  BY <1>2, <1>3, <1>4, <1>5, <1>6 DEF Alone, OnePlace, Moving
<1>9. /\ kernel'[d] = "synsent" /\ \A e \in Dials : e # d => kernel'[e] = kernel[e]
      /\ peer'[d] = "none" /\ \A e \in Dials : Flow1(e)' = Flow1(e)
      /\ Flow1(d) = NoFlow
  BY <1>1, <1>2 DEF TypeOK, Stage, Flow1
<1>10. \A m \in Packets : m.conn = d /\ Thread(m) # t => Kept(m)
  BY <1>9, ThreadKinds, RecordFactsKept DEF t
<1>11. Placed(k)'
  BY <1>3, <1>8, <1>9 DEF Placed, Queued, Fits, Unseen, NoFlow
<1>12. \A e \in Dials : e # d => Same(e)
  BY <1>2, <1>9 DEF Same, dialVars
<1>13. Travels(t)'
  BY <1>3, <1>6 DEF Travels, Moving
<1>14. Stage(d)'
  BY <1>1, <1>2, <1>9, <1>13 DEF Stage, dialVars, NoFlow, t
<1>15. Running' /\ UNCHANGED <<attempt, port, next>>
  BY <1>1, <1>2 DEF Running, dialVars, engineVars
<1> QED
  BY <1>3, <1>6, <1>7, <1>8, <1>10, <1>11, <1>12, <1>14, <1>15, PacketStep DEF t

\* The driver takes a packet that reaches the host.
LEMMA DivertCalm ==
    ASSUME Calm, CalmInv, IInv', PInv', NEW m \in Packets, m \in wire,
           m.kind \in {"SYNACK", "ANSWER"}, Divert(m), wire' = wire \ {m},
           UNCHANGED <<dialVars, flow, engineVars, hand, kernel, peer>>
    PROVE  CalmInv'
<1> DEFINE d == m.conn
           t == Thread(m)
<1>1. /\ TypeOK /\ Running /\ OneEach /\ d \in Dials /\ Fits(m) /\ Wired(m) /\ m # None
      /\ ~InQueue(m) /\ hand # m /\ Stage(d)
      /\ \A n \in Packets : Thread(n) = t /\ Moving(n) => n = m
  BY Facts, MovingFits DEF Moving, Placed, OnePlace
<1>2. t = <<d, "record">> \/ t = <<d, "handshake">>
  BY ThreadKinds
<1>3. queue' = Append(queue, m)
  <2>1. \A n \in Packets : InQueue(n) => Thread(n) # Thread(m)
    BY <1>1 DEF Moving
  <2>2. Len(queue) < MaxQueue
    BY <1>1, <2>1, RoomInQueue DEF TypeOK
  <2> QED BY <2>2 DEF Divert
<1>4. Distinct' /\ \A n \in Packets : InQueue(n)' <=> InQueue(n) \/ n = m
  BY <1>1, <1>3, QueueAppended DEF TypeOK, OneEach
<1>5. Elsewhere(t)
  BY <1>4 DEF Elsewhere
<1>6. Alone(t, m) /\ hand' # m /\ m \notin wire'
  BY <1>1, <1>4 DEF Alone, OnePlace, Moving
<1>7. \A e \in Dials : Same(e)
  BY DEF Same, dialVars, Flow1
<1>8. \A n \in Packets : n.conn = d => Kept(n)
  BY <1>1, <1>7, FactsKept DEF Same, GoesOn
<1>9. Queued(m)'
  <2>1. Queued(m)
    BY <1>1 DEF Wired, Queued
  <2> QED BY <1>8, <2>1 DEF Kept
<1>10. Travels(t)'
  BY <1>4 DEF Travels, Moving
<1>11. Stage(d)'
  <2>1. \A s : s # t /\ Travels(s) => Travels(s)'
    BY <1>5, TravelsElsewhere
  <2> QED BY <1>1, <1>7, <1>10, <2>1, StageKept
<1>12. Running' /\ UNCHANGED <<attempt, port, next>>
  BY <1>1 DEF Running, dialVars, engineVars
<1>13. Placed(m)'
  BY <1>6, <1>9 DEF Placed
<1> HIDE DEF t, d
<1>14. PICK kind \in {"handshake", "record"} : t = <<d, kind>>
  BY <1>2
<1> QED
  BY <1>1, <1>4, <1>5, <1>6, <1>7, <1>8, <1>11, <1>12, <1>13, <1>14, PacketStep DEF t

\* A packet is gone that nobody waits for any more.
LEMMA GoneCalm ==
    ASSUME CalmInv, IInv', PInv', NEW m \in Packets, Moving(m),
           UNCHANGED <<dialVars, flow, engineVars, queue, kernel>>,
           \/ m \in wire /\ wire' = wire \ {m} /\ hand' = hand
           \/ hand = m /\ hand' = None /\ wire' = wire,
           \A e \in Dials : e # m.conn => peer'[e] = peer[e],
           peer'[m.conn] # "gone", peer[m.conn] # "none" => peer'[m.conn] # "none",
           \/ m.kind = "ANSWER" /\ Flow1(m.conn).done # "open" /\ peer' = peer
           \/ m.kind = "ACK"
    PROVE  CalmInv'
<1> DEFINE d == m.conn
           t == Thread(m)
<1>1. /\ TypeOK /\ Running /\ OneEach /\ d \in Dials /\ Fits(m) /\ m # None /\ OnePlace(m)
      /\ Stage(d) /\ \A n \in Packets : Thread(n) = t /\ Moving(n) => n = m
  BY Facts, MovingFits
<1>2. /\ m.kind = "ANSWER" => t = <<d, "record">>
      /\ m.kind = "ACK" => t = <<d, "handshake">>
  BY ThreadKinds DEF OfRecord
<1>3. \A n : InQueue(n)' <=> InQueue(n)
  BY DEF InQueue
<1>4. Elsewhere(t)
  BY <1>3, PacketsAssumption DEF Elsewhere
<1>5. ~Moving(m)'
  BY <1>1, <1>3 DEF Moving, OnePlace
<1>6. Alone(t, m)
  <2>1. \A n \in Packets : Moving(n)' => Moving(n)
    BY <1>3, PacketsAssumption DEF Moving
  <2> QED BY <1>1, <1>5, <2>1 DEF Alone
<1>7. \A e \in Dials : e # d => Same(e)
  BY DEF Same, dialVars, Flow1
<1>8. \A n \in Packets : n.conn = d /\ Thread(n) # t => Kept(n)
  <2>1. CASE m.kind = "ANSWER" /\ peer' = peer
    BY <2>1, FactsKept DEF GoesOn, Flow1
  <2>2. CASE m.kind = "ACK"
    BY <1>2, <2>2, ThreadKinds, RecordFactsKept DEF Flow1
  <2> QED BY <2>1, <2>2
<1>9. Distinct' /\ Placed(m)'
  BY <1>1, <1>5 DEF OneEach, Distinct, Placed, Moving
<1>10. \A s : s # t /\ Travels(s) => Travels(s)'
  BY <1>4, TravelsElsewhere
<1>11. Stage(d)'
  <2>1. /\ pc'[d] = pc[d] /\ attempt'[d] = attempt[d] /\ kernel'[d] = kernel[d]
        /\ Flow1(d)' = Flow1(d)
    BY DEF dialVars, Flow1
  <2>2. CASE m.kind = "ANSWER"
    <3>1. Travels(<<d, "handshake">>) => Travels(<<d, "handshake">>)'
      BY <1>2, <1>10, <2>2
    <3>2. Flow1(d).done # "open" /\ peer' = peer
      BY <2>2
    <3> QED BY <1>1, <2>1, <3>1, <3>2 DEF Stage
  <2>3. CASE m.kind = "ACK"
    <3>1. Travels(<<d, "record">>) => Travels(<<d, "record">>)'
      BY <1>2, <1>10, <2>3
    <3>2. kernel[d] = "estab"
      BY <1>1, <2>3 DEF Fits
    <3> QED BY <1>1, <2>1, <3>1, <3>2 DEF Stage
  <2> QED BY <2>2, <2>3
<1>12. Running' /\ UNCHANGED <<attempt, port, next>>
  BY <1>1 DEF Running, dialVars, engineVars
<1> HIDE DEF t, d
<1>13. PICK kind \in {"handshake", "record"} : t = <<d, kind>>
  BY <1>2
<1> QED
  BY <1>1, <1>4, <1>6, <1>7, <1>8, <1>9, <1>11, <1>12, <1>13, PacketStep DEF t

LEMMA ArriveCalm ==
    ASSUME Calm, CalmInv, IInv', PInv', NEW m \in wire, Arrive(m)
    PROVE  CalmInv'
<1>1. /\ TypeOK /\ Running /\ m \in Packets /\ Moving(m) /\ Fits(m) /\ m.conn \in Dials
  BY Facts, MovingFits DEF TypeOK, Moving
<1>2. m.kind \in {"SYNACK", "ANSWER"}
  BY <1>1 DEF Arrive, Inbound, PureACK, Fits
<1>3. UNCHANGED <<dialVars, table, flow, active, engineVars, hand, peer>>
  BY DEF Arrive
<1>4. CASE Captured(m.kind)
  BY <1>1, <1>2, <1>3, <1>4, DivertCalm DEF Arrive
<1>5. CASE ~Captured(m.kind)
  <2>1. handle = "open"
    <3>1. pc[m.conn] \notin {"idle", "err"}
      BY <1>1, <1>2, Facts DEF Fits, Stage, OfRecord, NoFlow
    <3> QED BY <1>1, <3>1 DEF Running
  <2>2. m.kind = "ANSWER" /\ Mode = "fast"
    BY <1>2, <1>5, <2>1, ModeAssumption DEF Captured, SeesACKs, PureACK, Calm
  <2>3. Flow1(m.conn).done # "open"
    BY <1>1, <2>2, Facts DEF Fits, Stage, OfRecord
  <2>4. KernelReceive(m, wire \ {m}, queue)
    BY <1>5 DEF Arrive
  <2>5. UNCHANGED <<queue, kernel>> /\ wire' = wire \ {m}
    BY <1>1, <2>2, <2>4 DEF KernelReceive, TypeOK
  <2>6. peer[m.conn] # "gone"
    BY <1>1, Facts DEF Stage
  <2> QED BY <1>1, <1>3, <2>2, <2>3, <2>5, <2>6, GoneCalm
<1> QED BY <1>4, <1>5

\* The edge answers a packet with one of the same thread.
LEMMA AnswerCalm ==
    ASSUME CalmInv, IInv', PInv', NEW m \in Packets, m \in wire,
           NEW k \in Packets, Thread(k) = Thread(m), wire' = (wire \ {m}) \cup {k},
           UNCHANGED <<dialVars, flow, engineVars, hand, queue, kernel>>,
           \A e \in Dials : e # m.conn => peer'[e] = peer[e],
           peer'[m.conn] # "gone",
           \/ m.kind = "SYN" /\ k.kind = "SYNACK" /\ peer'[m.conn] = "synrcvd"
           \/ m.kind = "RECORD" /\ k.kind = "ANSWER" /\ peer' = peer
    PROVE  CalmInv'
<1> DEFINE d == m.conn
           t == Thread(m)
<1>1. /\ TypeOK /\ Running /\ OneEach /\ d \in Dials /\ Fits(m) /\ Wired(m) /\ m # None
      /\ ~InQueue(m) /\ hand # m /\ Stage(d)
      /\ \A n \in Packets : Thread(n) = t /\ Moving(n) => n = m
  BY Facts, MovingFits DEF Moving, Placed, OnePlace
<1>2. /\ m.kind = "RECORD" => t = <<d, "record">>
      /\ m.kind = "SYN" => t = <<d, "handshake">>
      /\ k.conn = d /\ k # None
  BY ThreadKinds, PacketsAssumption DEF OfRecord, Thread
<1>3. \A n : InQueue(n)' <=> InQueue(n)
  BY DEF InQueue
<1>4. Elsewhere(t)
  BY <1>3 DEF Elsewhere
<1>5. ~InQueue(k)' /\ hand' # k
  BY <1>1, <1>3 DEF Moving
<1>6. Alone(t, k)
  BY <1>1, <1>3, <1>5 DEF Alone, OnePlace, Moving
<1>7. \A e \in Dials : e # d => Same(e)
  BY DEF Same, dialVars, Flow1
<1>8. \A n \in Packets : n.conn = d /\ Thread(n) # t => Kept(n)
  <2>1. CASE peer' = peer
    BY <2>1, FactsKept DEF GoesOn, Flow1
  <2>2. CASE m.kind = "SYN"
    BY <1>2, <2>2, ThreadKinds, RecordFactsKept DEF Flow1
  <2> QED BY <2>1, <2>2
<1>9. Distinct'
  BY <1>1 DEF OneEach, Distinct
<1>10. /\ pc'[d] = pc[d] /\ attempt'[d] = attempt[d] /\ kernel'[d] = kernel[d]
       /\ Flow1(d)' = Flow1(d)
  BY DEF dialVars, Flow1
<1>11. Placed(k)'
  <2>1. Wired(k)'
    <3>1. CASE m.kind = "SYN" /\ k.kind = "SYNACK" /\ peer'[d] = "synrcvd"
      BY <1>1, <1>2, <1>10, <3>1 DEF Wired, Fits, Unseen, OfRecord
    <3>2. CASE m.kind = "RECORD" /\ k.kind = "ANSWER"
      BY <1>1, <1>2, <1>10, <3>2 DEF Wired, Fits, Unseen, OfRecord
    <3> QED BY <3>1, <3>2
  <2> QED BY <1>5, <2>1 DEF Placed
<1>12. Travels(t)'
  BY DEF Travels, Moving
<1>13. \A s : s # t /\ Travels(s) => Travels(s)'
  BY <1>4, TravelsElsewhere
<1>14. Stage(d)'
  <2>1. CASE m.kind = "SYN" /\ peer'[d] = "synrcvd"
    <3>1. Travels(<<d, "record">>) => Travels(<<d, "record">>)'
      BY <1>2, <1>13, <2>1
    <3>2. kernel[d] = "synsent" /\ Travels(<<d, "handshake">>)'
      BY <1>1, <1>2, <1>12, <2>1 DEF Fits
    <3> QED BY <1>1, <1>10, <2>1, <3>1, <3>2 DEF Stage
  <2>2. CASE peer' = peer
    BY <1>1, <1>10, <1>12, <1>13, <2>2, StageKept DEF Same
  <2> QED BY <2>1, <2>2
<1>15. Running' /\ UNCHANGED <<attempt, port, next>>
  BY <1>1 DEF Running, dialVars, engineVars
<1> HIDE DEF t, d
<1>16. PICK kind \in {"handshake", "record"} : t = <<d, kind>>
  BY <1>2
<1>17. Thread(k) = <<d, kind>>
  BY <1>16 DEF t
<1> QED
  BY <1>1, <1>4, <1>6, <1>7, <1>8, <1>9, <1>11, <1>14, <1>15, <1>16, <1>17, PacketStep

LEMMA EdgeCalm ==
    ASSUME CalmInv, IInv', PInv', NEW m \in wire, EdgeReceive(m)
    PROVE  CalmInv'
<1> DEFINE d == m.conn
<1>1. /\ TypeOK /\ m \in Packets /\ Moving(m) /\ Fits(m) /\ d \in Dials /\ Stage(d)
  BY Facts, MovingFits DEF TypeOK, Moving
<1>2. m.kind \in {"SYN", "ACK", "RECORD"}
  BY <1>1 DEF EdgeReceive, Outbound, Fits
<1>3. /\ UNCHANGED <<dialVars, table, flow, active, engineVars, hand, queue, kernel>>
      /\ wire' = (wire \ {m}) \cup {Packet(j, d) : j \in Reply(m)}
      /\ peer' = [peer EXCEPT ![d] = CASE peer[d] = "none" /\ m.kind = "SYN" -> "synrcvd"
                                       [] peer[d] = "synrcvd" /\ m.kind = "ACK" -> "estab"
                                       [] OTHER -> peer[d]]
  BY DEF EdgeReceive
<1>4. peer[d] # "gone" /\ \A e \in Dials : e # d => peer'[e] = peer[e]
  BY <1>1, <1>3 DEF Stage, TypeOK
<1>5. CASE m.kind = "SYN"
  <2>1. peer[d] = "none" /\ ~OfRecord(m)
    BY <1>1, <1>5 DEF Fits, OfRecord
  <2>2. Reply(m) = {"SYNACK"} /\ peer'[d] = "synrcvd"
    BY <1>1, <1>3, <1>5, <2>1 DEF Reply, TypeOK
  <2> DEFINE k == Packet("SYNACK", d)
  <2>3. wire' = (wire \ {m}) \cup {k}
    BY <1>3, <2>2
  <2>4. k \in Packets /\ k.kind = "SYNACK" /\ Thread(k) = Thread(m)
    BY <1>1, <2>1, ThreadOf, ThreadKinds
  <2> HIDE DEF k
  <2> QED BY <1>1, <1>3, <1>4, <1>5, <2>2, <2>3, <2>4, AnswerCalm
<1>6. CASE m.kind = "RECORD"
  <2>1. peer[d] # "none" /\ OfRecord(m)
    BY <1>1, <1>6 DEF Fits, OfRecord, Stage
  <2>2. Reply(m) = {"ANSWER"} /\ peer' = peer
    BY <1>1, <1>3, <1>4, <1>6, <2>1 DEF Reply, TypeOK
  <2> DEFINE k == Packet("ANSWER", d)
  <2>3. wire' = (wire \ {m}) \cup {k}
    BY <1>3, <2>2
  <2>4. k \in Packets /\ k.kind = "ANSWER" /\ Thread(k) = Thread(m)
    BY <1>1, <2>1, ThreadOf, ThreadKinds
  <2> HIDE DEF k
  <2> QED BY <1>1, <1>3, <1>4, <1>6, <2>2, <2>3, <2>4, AnswerCalm
<1>7. CASE m.kind = "ACK"
  <2>1. Reply(m) = {}
    BY <1>4, <1>7 DEF Reply
  <2>2. wire' = wire \ {m}
    BY <1>3, <2>1
  <2>3. peer'[d] # "gone" /\ (peer[d] # "none" => peer'[d] # "none")
    BY <1>1, <1>3, <1>4, <1>7 DEF TypeOK
  <2> QED BY <1>1, <1>3, <1>4, <1>7, <2>2, <2>3, GoneCalm
<1> QED BY <1>2, <1>5, <1>6, <1>7

\* What dispatch does to the flow of the dial that a captured packet is about.
LEMMA DispatchCalm ==
    ASSUME Calm, CalmInv, NEW m \in Packets, InQueue(m), Dispatch(m)
    PROVE  /\ \A e \in Dials : e # m.conn => Flow1(e)' = Flow1(e)
           /\ LET fl == Flow1(m.conn)
                  gl == Flow1(m.conn)'
              IN  /\ m.kind = "SYN" => gl = [fl EXCEPT !.syn = m.conn]
                  /\ m.kind = "SYNACK" => gl = [fl EXCEPT !.synack = m.conn, !.inj = "delay"]
                  /\ m.kind = "ACK" => gl = fl
                  /\ m.kind = "ANSWER" => gl = [fl EXCEPT !.done = "ok"]
<1> DEFINE d == m.conn
           Gone == {"uncount_ok", "finish_ok", "ok"}
           fl == Flow1(d)
<1>1. /\ TypeOK /\ PortOwnership /\ Running /\ d \in Dials /\ Fits(m) /\ Stage(d) /\ Queued(m)
      /\ fl \in FlowStates /\ attempt[d] \in {0, 1} /\ (attempt[d] = 1 => Current(d) = <<d, 1>>)
      /\ (attempt[d] = 0 <=> pc[d] \in {"idle", "ready", "err"})
  BY Facts, MovingFits DEF Moving, Placed
<1>2. kernel[d] # "none" /\ pc[d] \in {"connect", "wait"} \cup ReturningWell /\ attempt[d] = 1
  <2>1. kernel[d] # "none"
    BY <1>1 DEF Fits, Stage, OfRecord, NoFlow
  <2>2. pc[d] \notin {"idle", "ready", "register", "count", "err"}
    BY <1>1, <2>1 DEF Stage, Fits
  <2> QED BY <1>1, <2>1, <2>2 DEF Stage
<1>3. pc[d] \notin Gone => table[port[d]] = <<d, 1>>
  BY <1>1, <1>2 DEF PortOwnership, InFlight, Running, ReturningWell
<1>4. pc[d] \in Gone => table[port[d]] = None
  <2> SUFFICES ASSUME pc[d] \in Gone, table[port[d]] # None PROVE FALSE
    OBVIOUS
  <2>1. port[d] \in Ports
    BY <1>1 DEF TypeOK
  <2>2. PICK e \in Dials : InFlight(e) /\ port[e] = port[d]
    BY <1>1, <2>1 DEF PortOwnership
  <2>3. d \in Begun /\ e \in Begun
    BY <1>1, <1>2, <2>2, Facts DEF Begun, InFlight, ReturningWell
  <2>4. d = e
    BY <2>2, <2>3 DEF CalmInv, PortsApart
  <2> QED BY <2>2, <2>4 DEF InFlight
<1>5. CASE pc[d] \notin Gone
  <2>1. <<d, 1>> # None
    BY <1>1, DialsAssumption, NumbersAssumption
  <2>2. flow' = [flow EXCEPT ![<<d, 1>>] = Observe(m, fl)]
    BY <1>3, <1>5, <2>1 DEF Dispatch, Flow1
  <2>3. Flow1(d)' = Observe(m, fl) /\ \A e \in Dials : e # d => Flow1(e)' = Flow1(e)
    BY <1>1, <2>2, OneFlow DEF TypeOK, Flow1
  <2>4. m.kind = "SYN" => Observe(m, fl) = [fl EXCEPT !.syn = d]
    BY DEF Observe, PureACK
  <2>5. m.kind = "SYNACK" => Observe(m, fl) = [fl EXCEPT !.synack = d, !.inj = "delay"]
    <3>1. m.kind = "SYNACK" => Ready(fl)
      BY <1>1, DialsAssumption DEF Queued, Fits, Unseen, Ready
    <3> QED BY <3>1 DEF Observe, PureACK
  <2>6. m.kind = "ACK" => Observe(m, fl) = fl
    BY DEF Observe, PureACK
  <2>7. ASSUME m.kind = "ANSWER" PROVE Observe(m, fl) = [fl EXCEPT !.done = "ok"]
    <3>1. fl.inj = "ended"
      BY <1>1, <2>7 DEF Fits, OfRecord
    <3>2. /\ fl.syn = d /\ fl.synack = d /\ fl.done # "err"
          /\ fl.done = "ok" \/ (Mode = "safe" /\ fl.fake # <<>>)
      BY <1>1, <3>1 DEF Stage, FlowStates
    <3>3. fl.done = "ok" => Finish(fl, "ok") = fl /\ fl = [fl EXCEPT !.done = "ok"]
      BY <1>1 DEF Finish, FlowStates
    <3>4. fl.done = "open" => Finish(fl, "ok") = [fl EXCEPT !.done = "ok"]
      BY DEF Finish
    <3>5. Observe(m, fl) \in {fl, Finish(fl, "ok")}
          /\ (fl.done = "open" => Observe(m, fl) = Finish(fl, "ok"))
      BY <2>7, <3>2 DEF Observe, PureACK, Acknowledges
    <3> QED BY <1>1, <3>2, <3>3, <3>4, <3>5 DEF FlowStates
  <2> QED BY <2>3, <2>4, <2>5, <2>6, <2>7
<1>6. CASE pc[d] \in Gone
  <2>1. flow' = flow
    BY <1>4, <1>6 DEF Dispatch
  <2>2. m.kind \in {"ACK", "ANSWER"}
    BY <1>1, <1>6 DEF Fits, Stage, Queued, ReturningWell
  <2>3. fl.done = "ok"
    BY <1>1, <1>2, <1>6 DEF CalmInv, IInv, Returned, ReturningWell, Flow1
  <2>4. fl = [fl EXCEPT !.done = "ok"]
    BY <1>1, <2>3 DEF FlowStates
  <2> QED BY <2>1, <2>2, <2>4 DEF Flow1
<1> QED BY <1>5, <1>6

LEMMA RecvCalm ==
    ASSUME Calm, CalmInv, IInv', PInv', CaptureRecv
    PROVE  CalmInv'
<1>1. PICK m : m = Head(queue)
  OBVIOUS
<1> DEFINE d == m.conn
           t == Thread(m)
           fl == Flow1(d)
           gl == Flow1(d)'
<1>2. /\ hand = None /\ queue # <<>> /\ hand' = m /\ queue' = Tail(queue) /\ Dispatch(m)
      /\ UNCHANGED <<dialVars, table, active, engineVars, wire, kernel, peer>>
  BY <1>1 DEF CaptureRecv
<1>3. /\ m \in Packets /\ InQueue(m) /\ Distinct' /\ ~InQueue(m)'
      /\ \A n \in Packets : n # m => (InQueue(n)' <=> InQueue(n))
  BY <1>1, <1>2, Facts, QueueTaken DEF TypeOK, OneEach
<1>4. /\ Running /\ d \in Dials /\ Fits(m) /\ Queued(m) /\ m # None /\ Stage(d)
      /\ m \notin wire /\ fl \in FlowStates
      /\ \A n \in Packets : Thread(n) = t /\ Moving(n) => n = m
  BY <1>3, Facts, MovingFits DEF Moving, Placed, OnePlace
<1>5. /\ \A e \in Dials : e # d => Flow1(e)' = Flow1(e)
      /\ m.kind = "SYN" => gl = [fl EXCEPT !.syn = d]
      /\ m.kind = "SYNACK" => gl = [fl EXCEPT !.synack = d, !.inj = "delay"]
      /\ m.kind = "ACK" => gl = fl
      /\ m.kind = "ANSWER" => gl = [fl EXCEPT !.done = "ok"]
  BY <1>2, <1>3, DispatchCalm
<1>6. m.kind \in {"SYN", "SYNACK", "ACK", "ANSWER"}
  BY <1>4 DEF Queued, Fits
<1>7. /\ pc'[d] = pc[d] /\ attempt'[d] = attempt[d] /\ kernel'[d] = kernel[d]
      /\ peer'[d] = peer[d]
  BY <1>2 DEF dialVars
<1>8. Elsewhere(t)
  <2>1. \A n \in Packets : Thread(n) # t => n # m /\ n # None
    BY PacketsAssumption
  <2> QED BY <1>2, <1>3, <2>1 DEF Elsewhere
<1>9. Alone(t, m)
  <2>1. \A n \in Packets : Moving(n)' => Moving(n)
    BY <1>2, <1>3 DEF Moving
  <2>2. OnePlace(m)'
    BY <1>2, <1>3, <1>4 DEF OnePlace
  <2> QED BY <1>4, <2>1, <2>2 DEF Alone
<1>10. /\ m.kind \in {"SYN", "SYNACK", "ACK"} => t = <<d, "handshake">> /\ ~OfRecord(m)
       /\ m.kind = "ANSWER" => t = <<d, "record">> /\ OfRecord(m)
  BY ThreadKinds DEF OfRecord
<1>11. Travels(t)'
  BY <1>2, <1>3 DEF Travels, Moving
<1>12. \A s : s # t /\ Travels(s) => Travels(s)'
  BY <1>8, TravelsElsewhere
<1>13. \A e \in Dials : e # d => Same(e)
  BY <1>2, <1>5 DEF Same, dialVars
<1>14. Running' /\ UNCHANGED <<attempt, port, next>>
  BY <1>2, <1>4 DEF Running, dialVars, engineVars
<1>15. /\ Travels(<<d, "handshake">>) => Travels(<<d, "handshake">>)'
       /\ Travels(<<d, "record">>) => Travels(<<d, "record">>)'
  BY <1>11, <1>12
<1>16. Held(m)' /\ Stage(d)' /\ \A n \in Packets : n.conn = d /\ Thread(n) # t => Kept(n)
  <2>1. CASE m.kind = "SYN"
    <3>1. /\ fl.inj = "none" /\ gl.syn = d /\ gl.synack = None /\ gl.inj = "none"
          /\ gl.done = fl.done /\ gl.fake = fl.fake
          /\ kernel[d] = "synsent" /\ peer[d] = "none"
      BY <1>4, <1>5, <2>1 DEF Fits, FlowStates
    <3>2. Held(m)'
      BY <1>7, <2>1, <3>1 DEF Held, Fits, OfRecord
    <3>3. Stage(d)'
      BY <1>4, <1>7, <1>15, <3>1 DEF Stage
    <3>4. \A n \in Packets : n.conn = d /\ Thread(n) # t => Kept(n)
      BY <1>10, <2>1, <3>1, ThreadKinds, RecordFactsKept
    <3> QED BY <3>2, <3>3, <3>4
  <2>2. CASE m.kind = "SYNACK"
    <3>1. /\ fl.inj = "none" /\ fl.syn = d /\ gl.syn = d /\ gl.synack = d /\ gl.inj = "delay"
          /\ gl.done = fl.done /\ gl.fake = fl.fake
          /\ kernel[d] = "synsent" /\ peer[d] # "none"
      BY <1>4, <1>5, <2>2 DEF Queued, Fits, Unseen, FlowStates
    <3>2. Held(m)'
      BY <1>7, <2>2, <3>1 DEF Held, Fits, OfRecord
    <3>3. Stage(d)'
      BY <1>4, <1>7, <1>15, <3>1 DEF Stage
    <3>4. \A n \in Packets : n.conn = d /\ Thread(n) # t => Kept(n)
      BY <1>10, <2>2, <3>1, ThreadKinds, RecordFactsKept
    <3> QED BY <3>2, <3>3, <3>4
  <2>3. CASE m.kind = "ACK"
    <3>1. gl = fl /\ kernel[d] = "estab"
      BY <1>4, <1>5, <2>3 DEF Fits
    <3>2. Held(m)'
      BY <1>7, <2>3, <3>1 DEF Held, Fits, OfRecord
    <3>3. Stage(d)'
      BY <1>4, <1>7, <1>15, <3>1, StageKept DEF Same
    <3>4. \A n \in Packets : n.conn = d /\ Thread(n) # t => Kept(n)
      BY <1>10, <2>3, <3>1, ThreadKinds, RecordFactsKept
    <3> QED BY <3>2, <3>3, <3>4
  <2>4. CASE m.kind = "ANSWER"
    <3>1. /\ fl.inj = "ended" /\ gl.syn = fl.syn /\ gl.synack = fl.synack /\ gl.inj = fl.inj
          /\ gl.done = "ok" /\ gl.fake = fl.fake
      BY <1>4, <1>5, <1>10, <2>4 DEF Fits, FlowStates
    <3>2. Held(m)'
      BY <1>7, <2>4, <3>1 DEF Held, Fits, OfRecord
    <3>3. Stage(d)'
      <4>1. kernel[d] # "none"
        BY <1>4, <3>1 DEF Stage, NoFlow
      <4> QED BY <1>4, <1>7, <1>15, <3>1, <4>1 DEF Stage
    <3>4. GoesOn(fl, gl)
      BY <3>1 DEF GoesOn
    <3>5. \A n \in Packets : n.conn = d => Kept(n)
      BY <1>7, <3>4, FactsKept
    <3> QED BY <3>2, <3>3, <3>5
  <2> QED BY <1>6, <2>1, <2>2, <2>3, <2>4
<1>17. Placed(m)'
  BY <1>2, <1>3, <1>4, <1>16 DEF Placed
<1> HIDE DEF t, d
<1>18. PICK kind \in {"handshake", "record"} : t = <<d, kind>>
  BY <1>6, <1>10
<1> QED
  BY <1>3, <1>4, <1>8, <1>9, <1>13, <1>14, <1>16, <1>17, <1>18, PacketStep DEF t

\* A packet goes on to the wire as it came.
LEMMA ResendCalm ==
    ASSUME CalmInv, IInv', PInv', hand # None, hand.kind \in Outbound, hand' = None,
           wire' = wire \cup {hand},
           UNCHANGED <<dialVars, flow, engineVars, queue, kernel, peer>>
    PROVE  CalmInv'
<1>1. PICK m \in Packets : m = hand
  BY Facts DEF TypeOK
<1> DEFINE d == m.conn
           t == Thread(m)
<1>2. /\ Running /\ OneEach /\ d \in Dials /\ Fits(m) /\ Held(m) /\ m # None
      /\ ~InQueue(m) /\ Stage(d) /\ m.kind \in {"SYN", "ACK"}
      /\ \A n \in Packets : Thread(n) = t /\ Moving(n) => n = m
  BY <1>1, Facts, MovingFits DEF Moving, Placed, OnePlace, Outbound, Held
<1>3. t = <<d, "record">> \/ t = <<d, "handshake">>
  BY ThreadKinds
<1>4. \A n : InQueue(n)' <=> InQueue(n)
  BY DEF InQueue
<1>5. Elsewhere(t)
  <2>1. \A n \in Packets : Thread(n) # t => n # m /\ n # None
    BY PacketsAssumption
  <2> QED BY <1>1, <1>4, <2>1 DEF Elsewhere
<1>6. Alone(t, m) /\ ~InQueue(m)' /\ hand' # m
  <2>1. \A n \in Packets : Moving(n)' => Moving(n)
    BY <1>1, <1>4, PacketsAssumption DEF Moving
  <2> QED BY <1>2, <1>4, <2>1 DEF Alone, OnePlace
<1>7. \A e \in Dials : Same(e)
  BY DEF Same, dialVars, Flow1
<1>8. \A n \in Packets : n.conn = d => Kept(n)
  BY <1>2, <1>7, FactsKept DEF Same, GoesOn
<1>9. Wired(m)'
  <2>1. Wired(m)
    BY <1>2 DEF Wired, Held, Unseen
  <2> QED BY <1>8, <2>1 DEF Kept
<1>10. Travels(t)'
  BY <1>1 DEF Travels, Moving
<1>11. Stage(d)'
  <2>1. \A s : s # t /\ Travels(s) => Travels(s)'
    BY <1>5, TravelsElsewhere
  <2> QED BY <1>2, <1>7, <1>10, <2>1, StageKept
<1>12. Running' /\ UNCHANGED <<attempt, port, next>> /\ Distinct'
  BY <1>2 DEF Running, dialVars, engineVars, OneEach, Distinct
<1>13. Placed(m)'
  BY <1>6, <1>9 DEF Placed
<1> HIDE DEF t, d
<1>14. PICK kind \in {"handshake", "record"} : t = <<d, kind>>
  BY <1>3
<1> QED
  BY <1>2, <1>5, <1>6, <1>7, <1>8, <1>11, <1>12, <1>13, <1>14, PacketStep DEF t

\* The SYN-ACK establishes the socket, which acknowledges it.
LEMMA EstablishCalm ==
    ASSUME CalmInv, IInv', PInv', hand # None, hand.kind = "SYNACK", hand' = None,
           KernelReceive(hand, wire, queue),
           UNCHANGED <<dialVars, flow, engineVars, peer>>
    PROVE  CalmInv'
<1>1. PICK m \in Packets : m = hand
  BY Facts DEF TypeOK
<1> DEFINE d == m.conn
           t == Thread(m)
           k == Packet("ACK", d)
<1>2. /\ TypeOK /\ Running /\ OneEach /\ d \in Dials /\ Fits(m) /\ Held(m) /\ m # None
      /\ ~InQueue(m) /\ m \notin wire /\ Stage(d)
      /\ \A n \in Packets : Thread(n) = t /\ Moving(n) => n = m
  BY <1>1, Facts, MovingFits DEF Moving, Placed, OnePlace
<1>3. /\ t = <<d, "handshake">> /\ Thread(k) = t /\ k \in Packets /\ k.kind = "ACK"
      /\ k.conn = d /\ k # m /\ ~OfRecord(k) /\ k # None
  <2>1. m.kind = "SYNACK" /\ ~OfRecord(m)
    BY <1>1 DEF OfRecord
  <2>2. k.kind = "ACK" /\ ~OfRecord(k) /\ k \in Packets /\ k.conn = d
        /\ Thread(k) = <<d, "handshake">>
    BY <1>2, ThreadOf DEF OfRecord
  <2> QED BY <2>1, <2>2, ThreadKinds, PacketsAssumption
<1>4. kernel[d] = "synsent" /\ Flow1(d).inj # "none" /\ Flow1(d).syn = d
  BY <1>1, <1>2 DEF Held, Fits
<1>5. /\ kernel' = [kernel EXCEPT ![d] = "estab"]
      /\ queue' = queue \/ (queue' = Append(queue, k) /\ wire' = wire)
      /\ wire' = wire \/ (wire' = wire \cup {k} /\ queue' = queue)
  BY <1>1, <1>4 DEF KernelReceive
<1>6. kernel'[d] = "estab" /\ \A e \in Dials : e # d => kernel'[e] = kernel[e]
  BY <1>2, <1>5 DEF TypeOK
<1> HIDE DEF k
<1>7. ~Moving(k)
  BY <1>2, <1>3
<1>8. /\ Distinct'
      /\ \A n \in Packets : InQueue(n)' => InQueue(n) \/ (n = k /\ wire' = wire)
      /\ \A n \in Packets : InQueue(n) => InQueue(n)'
  <2>1. CASE queue' = queue
    BY <1>2, <2>1 DEF OneEach, Distinct, InQueue
  <2>2. CASE queue' = Append(queue, k) /\ wire' = wire
    BY <1>2, <1>3, <1>7, <2>2, QueueAppended DEF OneEach, TypeOK, Moving
  <2> QED BY <1>5, <2>1, <2>2
<1>9. Elsewhere(t)
  <2>1. \A n \in Packets : Thread(n) # t => n # m /\ n # None /\ n # k
    BY <1>3, PacketsAssumption
  <2> QED BY <1>1, <1>5, <1>8, <2>1 DEF Elsewhere
<1>10. Alone(t, k) /\ hand' # k
  <2>1. ASSUME NEW n \in Packets, Thread(n) = t, Moving(n)' PROVE n = k
    <3>1. n # None /\ (n = m => ~InQueue(n) /\ n \notin wire)
      BY <1>2, PacketsAssumption
    <3>2. n # k => Moving(n) /\ n # m
      BY <1>1, <1>3, <1>5, <1>8, <2>1, <3>1 DEF Moving
    <3> QED BY <1>2, <2>1, <3>2
  <2>2. OnePlace(k)' /\ hand' # k
    BY <1>3, <1>5, <1>7, <1>8 DEF OnePlace, Moving
  <2> QED BY <2>1, <2>2 DEF Alone
<1>11. \A e \in Dials : e # d => Same(e)
  BY <1>6 DEF Same, dialVars, Flow1
<1>12. \A n \in Packets : n.conn = d /\ Thread(n) # t => Kept(n)
  BY <1>3, ThreadKinds, RecordFactsKept DEF Flow1
<1>13. Placed(k)'
  BY <1>3, <1>6, <1>10 DEF Placed, Queued, Wired, Fits, Unseen
<1>14. Travels(<<d, "record">>) => Travels(<<d, "record">>)'
  BY <1>3, <1>9, TravelsElsewhere
<1>15. Stage(d)'
  <2>1. pc'[d] = pc[d] /\ attempt'[d] = attempt[d] /\ peer'[d] = peer[d]
        /\ Flow1(d)' = Flow1(d)
    BY DEF dialVars, Flow1
  <2> QED BY <1>2, <1>4, <1>6, <1>14, <2>1 DEF Stage
<1>16. Running' /\ UNCHANGED <<attempt, port, next>>
  BY <1>2 DEF Running, dialVars, engineVars
<1> HIDE DEF t, d
<1> QED
  BY <1>2, <1>3, <1>8, <1>9, <1>10, <1>11, <1>12, <1>13, <1>15, <1>16, PacketStep

LEMMA CaptureCalm ==
    ASSUME Calm, CalmInv, IInv', PInv', Capture
    PROVE  CalmInv'
<1>1. CASE CaptureRecv
  BY <1>1, RecvCalm
<1>2. CASE CaptureResend
  <2>1. /\ hand # None /\ hand' = None
        /\ UNCHANGED <<dialVars, table, flow, active, engineVars, peer>>
    BY <1>2 DEF CaptureResend
  <2>2. /\ TypeOK /\ hand \in Packets /\ Moving(hand) /\ Held(hand) /\ hand.conn \in Dials
    BY <2>1, Facts, MovingFits DEF TypeOK, Moving, Placed
  <2>3. hand.kind \in {"SYN", "SYNACK", "ACK", "ANSWER"}
    BY <2>2 DEF Held, Fits
  <2>4. CASE hand.kind \in Outbound
    BY <1>2, <2>1, <2>4, ResendCalm DEF CaptureResend
  <2>5. CASE hand.kind = "SYNACK"
    <3>1. KernelReceive(hand, wire, queue)
      BY <1>2, <2>5 DEF CaptureResend, Outbound
    <3> QED BY <2>1, <2>5, <3>1, EstablishCalm
  <2>6. CASE hand.kind = "ANSWER"
    <3>1. KernelReceive(hand, wire, queue)
      BY <1>2, <2>6 DEF CaptureResend, Outbound
    <3>2. UNCHANGED <<queue, wire, kernel>>
      BY <2>2, <2>6, <3>1 DEF KernelReceive, TypeOK
    <3>3. Flow1(hand.conn).done # "open" /\ peer[hand.conn] # "gone"
      BY <2>2, <2>6, Facts DEF Held, Stage
    <3> QED BY <2>1, <2>2, <2>6, <3>2, <3>3, GoneCalm
  <2> QED BY <2>3, <2>4, <2>5, <2>6 DEF Outbound
<1> QED BY <1>1, <1>2, NothingFails DEF Capture

LEMMA CalmStep == Calm /\ CalmInv /\ RemovedOwn /\ [Next]_vars => CalmInv'
<1> SUFFICES ASSUME Calm, CalmInv, RemovedOwn, [Next]_vars PROVE CalmInv'
  OBVIOUS
<1>1. IInv' /\ PInv'
  BY IInvStep, PInvStep DEF CalmInv
<1>2. CASE Start \/ CloseBegin \/ CloseEnd \/ UNCHANGED vars
  BY <1>1, <1>2, StartCalm, NothingFails
<1>3. ASSUME NEW d \in Dials, Dial(d) PROVE CalmInv'
  BY <1>1, <1>3, DialCalm
<1>4. CASE Capture
  BY <1>1, <1>4, CaptureCalm
<1>5. ASSUME NEW f \in Flows, Inject(f) PROVE CalmInv'
  BY <1>1, <1>5, InjectCalm
<1>6. CASE Environment
  BY <1>1, <1>6, KernelSYNCalm, ArriveCalm, EdgeCalm, NothingFails DEF Environment
<1> QED BY <1>2, <1>3, <1>4, <1>5, <1>6 DEF Next

LEMMA CalmInit == Init => CalmInv /\ RemovedOwn
<1> SUFFICES ASSUME Init PROVE CalmInv
  BY DEF Init, RemovedOwn
<1>1. IInv /\ PInv
  BY IInvInit, PInvInit
<1>2. Running /\ PortsApart
  BY DEF Init, Running, PortsApart, Begun
<1>3. \A m \in Packets : ~Moving(m)
  BY PacketsAssumption DEF Init, Moving, InQueue
<1>4. OneEach /\ \A m \in Packets : Placed(m)
  BY <1>3 DEF Init, OneEach, OnePlace, Distinct, Placed, Moving
<1>5. \A d \in Dials : Stage(d)
  BY OneFlow DEF Init, Stage, Flow1, NoFlow, ReturningWell
<1> QED BY <1>1, <1>2, <1>4, <1>5 DEF CalmInv

(***************************************************************************)
(* Any number of dials of a started engine succeed together on a network   *)
(* that loses nothing, whatever order the stack, the driver, the capture   *)
(* loop, the injections and the edges take their steps in.                 *)
(***************************************************************************)
THEOREM NoDialFailsCorrect == ASSUME Calm PROVE Spec => []NoDialFails
<1>1. CalmInv => NoDialFails
  BY Facts DEF NoDialFails
<1>2. CalmInv /\ RemovedOwn /\ [Next]_vars => (CalmInv /\ RemovedOwn)'
  BY CalmStep, RemovedOwnStep
<1> QED BY <1>1, <1>2, CalmInit, PTL DEF Spec
=============================================================================
