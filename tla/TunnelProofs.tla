---------------------------- MODULE TunnelProofs ----------------------------
(***************************************************************************)
(* What holds of Tunnel for any number of handlers, edges, slots, names of *)
(* connections and places in the pool, whatever the peers do.              *)
(*                                                                         *)
(* IInv is inductive: Coupled ties the position of every goroutine to the  *)
(* one it called, Phased to the progress of Stop, and Apart and Owned say  *)
(* that every open connection is in exactly one place.                     *)
(***************************************************************************)
EXTENDS Tunnel, TLAPS

\* The entries in the channel; none of them is there twice.
Idle == {idle[i] : i \in DOMAIN idle}
IdleOnce == \A i, j \in DOMAIN idle : idle[i] = idle[j] => i = j

\* Caller and callee agree on where the call is.
Coupled ==
    /\ \A k \in Clients :
         /\ handler[k] = "get" <=> getting[k] # "none"
         /\ dial[k].at # "none" <=> getting[k] = "dial"
         /\ got[k] # None <=> handler[k] = "relay" \/ getting[k] \in {"probe", "ok"}
    /\ \A d \in Dialers : dial[d].conn # None <=> dial[d].at = "ok"
    /\ dial[Filler].at # "none" <=> filler \in {"dial", "offer"}
    /\ filler = "offer" => dial[Filler].at = "ok"
    /\ reaping # None <=> reaper = "probe"
    /\ reaper = "probe" => sweep > 0

\* What is left of the tunnel when Stop has come so far.
Phased ==
    /\ engine = "closed" <=> phase = "off"
    /\ phase = "off" => filler = "off" /\ reaper = "off" /\ idle = <<>>
    /\ phase \in {"off", "closing"} => \A k \in Clients : handler[k] = "none"

\* No connection is in two places.
Apart ==
    /\ IdleOnce
    /\ reaping \notin Idle
    /\ \A d \in Dialers : dial[d].conn # None =>
         /\ dial[d].conn \notin Idle /\ dial[d].conn # reaping
         /\ \A e \in Dialers : dial[e].conn = dial[d].conn => e = d
         /\ \A k \in Clients : got[k] # dial[d].conn
    /\ \A k \in Clients : got[k] # None =>
         /\ got[k] \notin Idle /\ got[k] # reaping
         /\ \A j \in Clients : got[j] = got[k] => j = k

Held(c) == \/ c \in Idle
           \/ reaping = c
           \/ \E d \in Dialers : dial[d].conn = c
           \/ \E k \in Clients : got[k] = c

\* A connection is open as long as it is in some place.
Owned == \A c \in Conns : conn[c] # "closed" <=> Held(c)

IInv == TypeOK /\ Coupled /\ Phased /\ Apart /\ Owned

-----------------------------------------------------------------------------
(* Types.                                                                  *)

LEMMA Names ==
    /\ None \notin Conns /\ Filler \notin Clients
    /\ Filler \in Dialers /\ Clients \subseteq Dialers
    /\ 0 \in Edges /\ \A e \in Edges : (e + 1) % NumEdges \in Edges
<1>1. 0 \in Edges /\ \A e \in Edges : (e + 1) % NumEdges \in Edges
  BY RouterAssumption DEF Edges
<1> QED
  BY <1>1, UpstreamAssumption DEF Dialers

LEMMA InitTypes == Init => TypeOK
<1> SUFFICES ASSUME Init PROVE TypeOK
  OBVIOUS
<1>1. RouterTypeOK
  BY Names DEF Init, UpstreamInit, RouterInit, RouterTypeOK
<1>2. NoDial \in DialStates
  BY Names DEF NoDial, DialStates
<1>3. UpstreamTypeOK
  BY <1>1, <1>2 DEF Init, UpstreamInit, UpstreamTypeOK
<1>4. PoolTypeOK
  <2>1. <<>> \in Seq(Conns) /\ Len(<<>>) = 0 /\ 0 <= Size /\ 0 \in 0 .. Size
    BY PoolAssumption
  <2>2. /\ got \in [Clients -> Conns \cup {None}]
        /\ getting \in [Clients -> GetStates]
    BY DEF Init, PoolInit, GetStates
  <2> QED
    BY <2>1, <2>2 DEF Init, PoolInit, PoolTypeOK, FillStates, ReapStates
<1>5. RelayTypeOK
  BY DEF Init, RelayInit, RelayTypeOK
<1> QED
  BY <1>3, <1>4, <1>5 DEF Init, TypeOK

LEMMA RouterTypes ==
    ASSUME RouterTypeOK, NEW e \in Edges,
           Success \/ Failure(e) \/ Settle \/ RouterReset \/ UNCHANGED routerVars
    PROVE  RouterTypeOK'
<1>1. CASE Success
  BY <1>1 DEF Success, RouterTypeOK
<1>2. CASE Failure(e)
  <2>1. /\ Append(streak, e) \in Seq(Edges) /\ <<>> \in Seq(Edges)
        /\ (edge + 1) % NumEdges \in Edges
    BY Names DEF RouterTypeOK
  <2>2. CASE Ignored
    BY <1>2, <2>2 DEF Failure, RouterTypeOK, routerVars
  <2>3. CASE ~Ignored /\ Len(streak) + 1 < FailuresBeforeSwitch
    BY <1>2, <2>1, <2>3 DEF Failure, RouterTypeOK
  <2>4. CASE ~Ignored /\ ~(Len(streak) + 1 < FailuresBeforeSwitch)
    BY <1>2, <2>1, <2>4 DEF Failure, RouterTypeOK
  <2> QED
    BY <2>2, <2>3, <2>4
<1>3. CASE Settle
  BY <1>3 DEF Settle, RouterTypeOK
<1>4. CASE RouterReset
  BY <1>4, Names DEF RouterReset, RouterTypeOK
<1>5. CASE UNCHANGED routerVars
  BY <1>5 DEF RouterTypeOK, routerVars
<1> QED
  BY <1>1, <1>2, <1>3, <1>4, <1>5

\* The call, the steps and the return of the dial function.
LEMMA DialMoves ==
    ASSUME UpstreamTypeOK, NEW d \in Dialers, NEW s \in DialStates,
           dial' = [dial EXCEPT ![d] = s]
    PROVE  /\ dial' \in [Dialers -> DialStates] /\ dial'[d] = s
           /\ \A e \in Dialers : e # d => dial'[e] = dial[e]
BY DEF UpstreamTypeOK

LEMMA CallMoves ==
    ASSUME UpstreamTypeOK, NEW d \in Dialers, Call(d)
    PROVE  /\ dial' \in [Dialers -> DialStates]
           /\ dial'[d].at = "gate" /\ dial'[d].conn = None
           /\ \A e \in Dialers : e # d => dial'[e] = dial[e]
<1> DEFINE s == [NoDial EXCEPT !.at = "gate"]
<1>1. s \in DialStates /\ s.at = "gate" /\ s.conn = None
  BY Names DEF NoDial, DialStates
<1>2. dial' = [dial EXCEPT ![d] = s]
  BY DEF Call
<1> HIDE DEF s
<1> QED
  BY <1>1, <1>2, DialMoves

LEMMA ReturnMoves ==
    ASSUME UpstreamTypeOK, NEW d \in Dialers, Return(d)
    PROVE  /\ dial' \in [Dialers -> DialStates]
           /\ dial'[d].at = "none" /\ dial'[d].conn = None
           /\ \A e \in Dialers : e # d => dial'[e] = dial[e]
<1>1. NoDial \in DialStates /\ NoDial.at = "none" /\ NoDial.conn = None
  BY Names DEF NoDial, DialStates
<1> QED
  BY <1>1, DialMoves DEF Return

LEMMA ShutMoves ==
    ASSUME UpstreamTypeOK, NEW c \in Conns, Shut(c)
    PROVE  /\ conn' \in [Conns -> {"closed", "good", "bad"}] /\ conn'[c] = "closed"
           /\ \A b \in Conns : b # c => conn'[b] = conn[b]
BY DEF UpstreamTypeOK, Shut

\* The channel of entries: one is taken from it, or put into it.
LEMMA TakeMoves ==
    ASSUME PoolTypeOK, IdleOnce, idle # <<>>, idle' = Tail(idle)
    PROVE  /\ idle' \in Seq(Conns) /\ Len(idle') <= Size /\ IdleOnce'
           /\ Head(idle) \in Conns /\ Head(idle) \in Idle
           /\ Idle' = Idle \ {Head(idle)}
<1>1. /\ idle \in Seq(Conns) /\ Len(idle) \in Nat /\ Len(idle) > 0 /\ Len(idle) <= Size
      /\ DOMAIN idle = 1 .. Len(idle)
  BY DEF PoolTypeOK
<1>2. /\ idle' \in Seq(Conns) /\ Len(idle') = Len(idle) - 1
      /\ DOMAIN idle' = 1 .. Len(idle) - 1
      /\ \A i \in 1 .. Len(idle) - 1 : idle'[i] = idle[i + 1]
  BY <1>1
<1>3. Head(idle) = idle[1] /\ idle[1] \in Conns /\ 1 \in DOMAIN idle
  BY <1>1
<1>4. IdleOnce'
  BY <1>1, <1>2 DEF IdleOnce
<1>5. Idle' \subseteq Idle \ {idle[1]}
  <2> SUFFICES ASSUME NEW i \in DOMAIN idle' PROVE idle'[i] \in Idle /\ idle'[i] # idle[1]
    BY DEF Idle
  <2>1. i + 1 \in DOMAIN idle /\ idle'[i] = idle[i + 1] /\ i + 1 # 1
    BY <1>1, <1>2
  <2> QED
    BY <2>1, <1>3 DEF Idle, IdleOnce
<1>6. Idle \ {idle[1]} \subseteq Idle'
  <2> SUFFICES ASSUME NEW i \in DOMAIN idle, idle[i] # idle[1] PROVE idle[i] \in Idle'
    BY DEF Idle
  <2>1. i - 1 \in DOMAIN idle' /\ idle'[i - 1] = idle[i]
    BY <1>1, <1>2
  <2> QED
    BY <2>1 DEF Idle
<1>7. idle[1] \in Idle
  BY <1>3 DEF Idle
<1>8. Len(idle') <= Size
  BY <1>1, <1>2, PoolAssumption
<1> QED
  BY <1>2, <1>3, <1>4, <1>5, <1>6, <1>7, <1>8

LEMMA PutMoves ==
    ASSUME PoolTypeOK, IdleOnce, HasRoom, NEW c \in Conns, c \notin Idle,
           idle' = Append(idle, c)
    PROVE  /\ idle' \in Seq(Conns) /\ Len(idle') <= Size /\ IdleOnce'
           /\ Idle' = Idle \cup {c}
<1>1. /\ idle \in Seq(Conns) /\ Len(idle) \in Nat /\ Len(idle) < Size
      /\ DOMAIN idle = 1 .. Len(idle)
  BY DEF PoolTypeOK, HasRoom
<1>2. /\ idle' \in Seq(Conns) /\ Len(idle') = Len(idle) + 1
      /\ DOMAIN idle' = 1 .. Len(idle) + 1
      /\ idle'[Len(idle) + 1] = c
      /\ \A i \in DOMAIN idle : idle'[i] = idle[i]
  BY <1>1
<1>3. \A i \in DOMAIN idle' : i \in DOMAIN idle \/ i = Len(idle) + 1
  BY <1>1, <1>2
<1>4. \A i \in DOMAIN idle : idle[i] # c
  BY DEF Idle
<1>5. IdleOnce'
  BY <1>1, <1>2, <1>3, <1>4 DEF IdleOnce
<1>6. Idle' = Idle \cup {c}
  <2>1. \A i \in DOMAIN idle' : idle'[i] \in Idle \cup {c}
    BY <1>2, <1>3 DEF Idle
  <2>2. \A i \in DOMAIN idle : i \in DOMAIN idle' /\ idle[i] = idle'[i]
    BY <1>1, <1>2
  <2>3. c \in Idle' /\ \A i \in DOMAIN idle : idle[i] \in Idle'
    BY <1>1, <1>2, <2>2 DEF Idle
  <2> QED
    BY <2>1, <2>3 DEF Idle
<1> QED
  BY <1>1, <1>2, <1>5, <1>6, PoolAssumption

-----------------------------------------------------------------------------
(* One lemma per action.  First the steps that move no connection.         *)

\* What is in every place, and what is open, is as before.
Unmoved ==
    /\ Idle' = Idle /\ (IdleOnce => IdleOnce')
    /\ reaping' = reaping /\ got' = got
    /\ \A d \in Dialers : dial'[d].conn = dial[d].conn
    /\ \A c \in Conns : conn'[c] = "closed" <=> conn[c] = "closed"

LEMMA UnmovedKeeps ==
    ASSUME Apart, Owned, Unmoved
    PROVE  Apart' /\ Owned'
<1>1. Apart'
  BY DEF Unmoved, Apart
<1>2. \A c \in Conns : Held(c)' <=> Held(c)
  BY DEF Unmoved, Held
<1> QED
  BY <1>1, <1>2 DEF Unmoved, Owned

LEMMA IdleUnmoved == UNCHANGED idle => Idle' = Idle /\ (IdleOnce => IdleOnce')
BY DEF Idle, IdleOnce

LEMMA StartStep == ASSUME IInv, Start PROVE IInv'
<1>1. /\ phase = "off" /\ phase' = "running" /\ engine' = "open"
      /\ idle' = <<>> /\ idle = <<>> /\ filler = "off" /\ reaper = "off"
      /\ filler' \in {"check", "off"} /\ reaper' \in {"wait", "off"}
      /\ fill' = FALSE /\ closing' = "no"
      /\ UNCHANGED <<sweep, reaping, got, getting, dial, conn, relayVars, handler>>
  BY DEF IInv, Phased, Start, New, getVars
<1>2. TypeOK'
  <2>1. RouterTypeOK'
    BY RouterTypes, Names DEF IInv, TypeOK, UpstreamTypeOK, Start
  <2>2. UpstreamTypeOK'
    BY <1>1, <2>1 DEF IInv, TypeOK, UpstreamTypeOK
  <2>3. PoolTypeOK'
    BY <1>1 DEF IInv, TypeOK, PoolTypeOK, FillStates, ReapStates
  <2>4. RelayTypeOK'
    BY <1>1 DEF IInv, TypeOK, RelayTypeOK, relayVars
  <2> QED
    BY <1>1, <2>2, <2>3, <2>4 DEF IInv, TypeOK
<1>3. Coupled'
  BY <1>1 DEF IInv, Coupled
<1>4. Phased'
  BY <1>1 DEF IInv, Phased
<1>5. Apart' /\ Owned'
  BY <1>1, IdleUnmoved, UnmovedKeeps DEF IInv, Unmoved
<1> QED
  BY <1>2, <1>3, <1>4, <1>5 DEF IInv

LEMMA AcceptStep == ASSUME IInv, NEW k \in Clients, Accept(k) PROVE IInv'
<1>1. /\ phase = "running" /\ handler[k] = "none"
      /\ handler' = [handler EXCEPT ![k] = "get"]
      /\ getting' = [getting EXCEPT ![k] = "take"]
      /\ UNCHANGED <<routerVars, dial, conn, idle, fill, filler, reaper, sweep,
                     reaping, got, closing, relayVars, phase, engine>>
  BY DEF Accept, upstreamVars, reapVars
<1>2. TypeOK'
  BY <1>1 DEF IInv, TypeOK, UpstreamTypeOK, RouterTypeOK, routerVars, PoolTypeOK,
              GetStates, RelayTypeOK, relayVars
<1>3. Coupled'
  BY <1>1 DEF IInv, Coupled, TypeOK, PoolTypeOK
<1>4. Phased'
  BY <1>1 DEF IInv, Phased
<1>5. Apart' /\ Owned'
  BY <1>1, IdleUnmoved, UnmovedKeeps DEF IInv, Unmoved
<1> QED
  BY <1>2, <1>3, <1>4, <1>5 DEF IInv

LEMMA GetMissStep ==
    ASSUME IInv, NEW k \in Clients, GetMiss(k), UNCHANGED <<relayVars, tunnelVars>>
    PROVE  IInv'
<1>1. /\ getting[k] = "take" /\ getting' = [getting EXCEPT ![k] = "dial"]
      /\ fill' \in BOOLEAN /\ Call(k)
      /\ UNCHANGED <<routerVars, conn, idle, filler, reaper, sweep, reaping, got,
                     closing, relayVars, phase, handler, engine>>
  BY DEF GetMiss, RequestFill, reapVars, tunnelVars
<1>2. /\ dial' \in [Dialers -> DialStates]
      /\ dial'[k].at = "gate" /\ dial'[k].conn = None
      /\ \A e \in Dialers : e # k => dial'[e] = dial[e]
  BY <1>1, CallMoves, Names DEF IInv, TypeOK
<1>3. TypeOK'
  BY <1>1, <1>2 DEF IInv, TypeOK, UpstreamTypeOK, RouterTypeOK, routerVars, PoolTypeOK,
                    GetStates, RelayTypeOK, relayVars
<1>4. dial[k].at = "none" /\ dial[k].conn = None
  BY <1>1, Names DEF IInv, Coupled
<1>5. Coupled'
  BY <1>1, <1>2, Names DEF IInv, Coupled, TypeOK, PoolTypeOK
<1>6. Phased'
  BY <1>1 DEF IInv, Phased
<1>7. Apart' /\ Owned'
  BY <1>1, <1>2, <1>4, IdleUnmoved, UnmovedKeeps DEF IInv, Unmoved
<1> QED
  BY <1>3, <1>5, <1>6, <1>7 DEF IInv

\* Steps of the pool and of the dial function that move no connection either.
LEMMA ControlKeeps ==
    ASSUME IInv, UNCHANGED <<conn, idle, reaping, got, phase, handler, engine>>,
           \A d \in Dialers : dial'[d].conn = dial[d].conn,
           phase = "off" => UNCHANGED <<filler, reaper>>
    PROVE  Phased' /\ Apart' /\ Owned'
<1>1. Phased'
  BY DEF IInv, Phased
<1>2. Apart' /\ Owned'
  BY IdleUnmoved, UnmovedKeeps DEF IInv, Unmoved
<1> QED
  BY <1>1, <1>2

LEMMA FillCheckStep ==
    ASSUME IInv, FillCheck, UNCHANGED <<relayVars, tunnelVars>>
    PROVE  IInv'
<1>1. /\ filler = "check" /\ UNCHANGED <<routerVars, conn, idle, fill, reaper, sweep,
                             reaping, got, getting, closing, relayVars, phase, handler, engine>>
      /\ \/ filler' = "dial" /\ Call(Filler)
         \/ filler' = "full" /\ UNCHANGED dial
  BY DEF FillCheck, reapVars, getVars, tunnelVars
<1>2. dial[Filler].at = "none" /\ dial[Filler].conn = None
  BY <1>1, Names DEF IInv, Coupled
<1>3. /\ dial' \in [Dialers -> DialStates] /\ dial'[Filler].conn = None
      /\ dial'[Filler].at = IF filler' = "dial" THEN "gate" ELSE "none"
      /\ \A e \in Dialers : e # Filler => dial'[e] = dial[e]
  BY <1>1, <1>2, CallMoves, Names DEF IInv, TypeOK, UpstreamTypeOK
<1>4. TypeOK'
  BY <1>1, <1>3 DEF IInv, TypeOK, UpstreamTypeOK, RouterTypeOK, routerVars, PoolTypeOK,
                    FillStates, RelayTypeOK, relayVars
<1>5. Coupled'
  BY <1>1, <1>3, Names DEF IInv, Coupled
<1>6. Phased' /\ Apart' /\ Owned'
  BY <1>1, <1>2, <1>3, ControlKeeps DEF IInv, Phased
<1> QED
  BY <1>4, <1>5, <1>6 DEF IInv

LEMMA FillWakeStep ==
    ASSUME IInv, FillWake \/ FillRetry, UNCHANGED <<relayVars, tunnelVars>>
    PROVE  IInv'
<1>1. /\ filler \in {"full", "backoff"} /\ filler' = "check" /\ fill' \in {fill, FALSE}
      /\ UNCHANGED <<routerVars, dial, conn, idle, reaper, sweep, reaping, got,
                     getting, closing, relayVars, phase, handler, engine>>
  BY DEF FillWake, FillRetry, upstreamVars, reapVars, getVars, tunnelVars
<1>2. TypeOK'
  BY <1>1 DEF IInv, TypeOK, UpstreamTypeOK, RouterTypeOK, routerVars, PoolTypeOK,
              FillStates, RelayTypeOK, relayVars
<1>3. Coupled'
  BY <1>1 DEF IInv, Coupled
<1>4. Phased' /\ Apart' /\ Owned'
  BY <1>1, ControlKeeps DEF IInv, Phased
<1> QED
  BY <1>2, <1>3, <1>4 DEF IInv

LEMMA FillDialledStep ==
    ASSUME IInv, FillDialled, UNCHANGED <<relayVars, tunnelVars>>
    PROVE  IInv'
<1>1. /\ filler = "dial"
      /\ UNCHANGED <<routerVars, conn, idle, fill, reaper, sweep, reaping, got,
                     getting, closing, relayVars, phase, handler, engine>>
      /\ \/ dial[Filler].at = "ok" /\ filler' = "offer" /\ UNCHANGED dial
         \/ dial[Filler].at = "err" /\ filler' = "backoff" /\ Return(Filler)
  BY DEF FillDialled, reapVars, getVars, tunnelVars
<1>2. /\ dial' \in [Dialers -> DialStates]
      /\ dial'[Filler].conn = dial[Filler].conn
      /\ dial'[Filler].at = IF filler' = "offer" THEN "ok" ELSE "none"
      /\ \A e \in Dialers : e # Filler => dial'[e] = dial[e]
  <2>1. CASE dial[Filler].at = "ok"
    BY <1>1, <2>1, Names DEF IInv, TypeOK, UpstreamTypeOK
  <2>2. CASE dial[Filler].at = "err" /\ filler' = "backoff" /\ Return(Filler)
    <3>1. dial[Filler].conn = None
      BY <2>2, Names DEF IInv, Coupled
    <3> QED
      BY <2>2, <3>1, ReturnMoves, Names DEF IInv, TypeOK
  <2> QED
    BY <1>1, <2>1, <2>2
<1>3. filler' \in {"offer", "backoff"}
  BY <1>1
<1>4. TypeOK'
  BY <1>1, <1>2, <1>3 DEF IInv, TypeOK, UpstreamTypeOK, RouterTypeOK, routerVars,
                          PoolTypeOK, FillStates, RelayTypeOK, relayVars
<1>5. Coupled'
  BY <1>1, <1>2, <1>3, Names DEF IInv, Coupled
<1>6. Phased' /\ Apart' /\ Owned'
  BY <1>1, <1>2, ControlKeeps DEF IInv, Phased
<1> QED
  BY <1>4, <1>5, <1>6 DEF IInv

LEMMA ReapIdleStep ==
    ASSUME IInv, ReapTick \/ ReapEnd \/ ReapExit, UNCHANGED <<relayVars, tunnelVars>>
    PROVE  IInv'
<1>1. /\ reaper \in {"wait", "sweep"} /\ reaper' \in {"sweep", "wait", "off"}
      /\ sweep' \in {sweep, Len(idle), 0}
      /\ UNCHANGED <<routerVars, dial, conn, idle, fill, filler, reaping, got,
                     getting, closing, relayVars, phase, handler, engine>>
  BY DEF ReapTick, ReapEnd, ReapExit, upstreamVars, getVars, tunnelVars
<1>2. sweep' \in 0 .. Size
  BY <1>1, PoolAssumption DEF IInv, TypeOK, PoolTypeOK
<1>3. TypeOK'
  BY <1>1, <1>2 DEF IInv, TypeOK, UpstreamTypeOK, RouterTypeOK, routerVars, PoolTypeOK,
                    ReapStates, RelayTypeOK, relayVars
<1>4. Coupled'
  BY <1>1 DEF IInv, Coupled
<1>5. Phased' /\ Apart' /\ Owned'
  BY <1>1, ControlKeeps DEF IInv, Phased
<1> QED
  BY <1>3, <1>4, <1>5 DEF IInv

\* A handler turns away its client, or starts the relay.
LEMMA HandlerServesStep ==
    ASSUME IInv, NEW k \in Clients, HandlerFails(k) \/ HandlerRelays(k)
    PROVE  IInv'
<1>1. /\ handler[k] = "get" /\ getting' = [getting EXCEPT ![k] = "none"]
      /\ UNCHANGED <<routerVars, dial, conn, idle, fill, filler, reaper, sweep,
                     reaping, got, closing, phase, engine>>
      /\ \/ /\ getting[k] = "err" /\ handler' = [handler EXCEPT ![k] = "none"]
            /\ UNCHANGED relayVars
         \/ /\ getting[k] = "ok" /\ handler' = [handler EXCEPT ![k] = "relay"]
            /\ Pipe(k)
  BY DEF HandlerFails, HandlerRelays, upstreamVars, reapVars
<1>2. RelayTypeOK'
  <2>1. CASE UNCHANGED relayVars
    BY <2>1 DEF IInv, TypeOK, RelayTypeOK, relayVars
  <2>2. CASE Pipe(k)
    <3>1. [s \in Sides |-> "open"] \in [Sides -> {"open", "eof", "reset"}]
      OBVIOUS
    <3> QED
      BY <2>2, <3>1 DEF IInv, TypeOK, RelayTypeOK, Pipe
  <2> QED
    BY <1>1, <2>1, <2>2
<1>3. /\ handler' \in [Clients -> {"none", "get", "relay"}]
      /\ getting' \in [Clients -> GetStates]
  BY <1>1 DEF IInv, TypeOK, PoolTypeOK, GetStates
<1>4. TypeOK'
  BY <1>1, <1>2, <1>3 DEF IInv, TypeOK, UpstreamTypeOK, RouterTypeOK, routerVars, PoolTypeOK
<1>5. Coupled'
  BY <1>1 DEF IInv, Coupled, TypeOK, PoolTypeOK
<1>6. Phased'
  BY <1>1 DEF IInv, Phased
<1>7. Apart' /\ Owned'
  BY <1>1, IdleUnmoved, UnmovedKeeps DEF IInv, Unmoved
<1> QED
  BY <1>4, <1>5, <1>6, <1>7 DEF IInv

LEMMA RelayStep ==
    ASSUME IInv, NEW k \in Clients, HandlerCopies(k) \/ PeerSteps(k)
    PROVE  IInv'
<1>1. UNCHANGED <<upstreamVars, poolVars, tunnelVars>>
  BY DEF HandlerCopies, PeerSteps
<1>2. RelayTypeOK'
  <2>1. PICK s \in Sides : \/ Copy(k, s) \/ CopyEnds(k, s) \/ PeerWrites(k, s)
                           \/ PeerFinishes(k, s) \/ PeerResets(k, s)
    BY DEF HandlerCopies, PeerSteps
  <2>2. CASE Copy(k, s)
    BY <2>2 DEF Copy, IInv, TypeOK, RelayTypeOK
  <2>3. CASE CopyEnds(k, s)
    BY <2>3 DEF CopyEnds, IInv, TypeOK, RelayTypeOK
  <2>4. CASE PeerWrites(k, s)
    BY <2>4 DEF PeerWrites, IInv, TypeOK, RelayTypeOK
  <2>5. CASE PeerFinishes(k, s)
    BY <2>5 DEF PeerFinishes, IInv, TypeOK, RelayTypeOK
  <2>6. CASE PeerResets(k, s)
    BY <2>6 DEF PeerResets, IInv, TypeOK, RelayTypeOK
  <2> QED
    BY <2>1, <2>2, <2>3, <2>4, <2>5, <2>6
<1>3. /\ TypeOK' /\ Coupled' /\ Phased' /\ Apart' /\ Owned'
  BY <1>1, <1>2, IdleUnmoved, UnmovedKeeps
  DEF IInv, TypeOK, UpstreamTypeOK, RouterTypeOK, PoolTypeOK, upstreamVars, routerVars,
      poolVars, tunnelVars, Coupled, Phased, Unmoved
<1> QED
  BY <1>3 DEF IInv

LEMMA StopStep == ASSUME IInv, Stop \/ StopPool PROVE IInv'
<1>1. /\ UNCHANGED <<upstreamVars, idle, fill, filler, reapVars, getVars, relayVars,
                     handler, engine>>
      /\ phase \in {"running", "draining"} /\ closing' \in {closing, "cancelled"}
      /\ \/ phase' = "draining"
         \/ phase' = "closing" /\ \A k \in Clients : handler[k] = "none"
  BY DEF Stop, StopPool, CloseCancel, poolVars, reapVars, getVars
<1>2. TypeOK'
  BY <1>1 DEF IInv, TypeOK, UpstreamTypeOK, RouterTypeOK, routerVars, upstreamVars,
              PoolTypeOK, reapVars, getVars, RelayTypeOK, relayVars
<1>3. Coupled'
  BY <1>1 DEF IInv, Coupled, upstreamVars, reapVars, getVars
<1>4. Phased'
  BY <1>1 DEF IInv, Phased
<1>5. Apart' /\ Owned'
  BY <1>1, IdleUnmoved, UnmovedKeeps DEF IInv, Unmoved, upstreamVars, reapVars, getVars
<1> QED
  BY <1>2, <1>3, <1>4, <1>5 DEF IInv

-----------------------------------------------------------------------------
(* The steps that open, move or close a connection.                        *)

LEMMA GetTakeStep ==
    ASSUME IInv, NEW k \in Clients, GetTake(k), UNCHANGED <<relayVars, tunnelVars>>
    PROVE  IInv'
<1>1. /\ getting[k] = "take" /\ getting' = [getting EXCEPT ![k] = "probe"]
      /\ idle # <<>> /\ idle' = Tail(idle) /\ got' = [got EXCEPT ![k] = Head(idle)]
      /\ fill' \in BOOLEAN
      /\ UNCHANGED <<routerVars, dial, conn, filler, reaper, sweep, reaping, closing,
                     relayVars, phase, handler, engine>>
  BY DEF GetTake, RequestFill, upstreamVars, reapVars, tunnelVars
<1> DEFINE c == Head(idle)
<1>2. /\ idle' \in Seq(Conns) /\ Len(idle') <= Size /\ IdleOnce'
      /\ c \in Conns /\ c \in Idle /\ Idle' = Idle \ {c}
  BY <1>1, TakeMoves DEF IInv, TypeOK, Apart
<1>3. got' = [got EXCEPT ![k] = c]
  BY <1>1
<1> HIDE DEF c
<1>4. got[k] = None /\ got'[k] = c /\ \A j \in Clients : j # k => got'[j] = got[j]
  BY <1>1, <1>3 DEF IInv, Coupled, TypeOK, PoolTypeOK
<1>5. TypeOK'
  BY <1>1, <1>2, <1>3 DEF IInv, TypeOK, UpstreamTypeOK, RouterTypeOK, routerVars,
                          PoolTypeOK, GetStates, RelayTypeOK, relayVars
<1>6. Coupled'
  BY <1>1, <1>2, <1>4, Names DEF IInv, Coupled, TypeOK, PoolTypeOK
<1>7. Phased'
  BY <1>1 DEF IInv, Phased
<1>8. Apart'
  BY <1>1, <1>2, <1>4, Names DEF IInv, Apart
<1>9. Owned'
  <2>1. \A b \in Conns : Held(b)' <=> Held(b)
    BY <1>1, <1>2, <1>4, Names DEF Held
  <2> QED
    BY <1>1, <2>1 DEF IInv, Owned
<1> QED
  BY <1>5, <1>6, <1>7, <1>8, <1>9 DEF IInv

LEMMA GetProbeStep ==
    ASSUME IInv, NEW k \in Clients, GetProbe(k), UNCHANGED <<relayVars, tunnelVars>>
    PROVE  IInv'
<1>1. /\ getting[k] = "probe"
      /\ UNCHANGED <<routerVars, dial, idle, fill, filler, reaper, sweep, reaping,
                     closing, relayVars, phase, handler, engine>>
      /\ \/ getting' = [getting EXCEPT ![k] = "ok"] /\ UNCHANGED <<conn, got>>
         \/ /\ getting' = [getting EXCEPT ![k] = "take"]
            /\ got' = [got EXCEPT ![k] = None] /\ Shut(got[k])
  BY DEF GetProbe, reapVars, tunnelVars
<1>2. got[k] \in Conns
  BY <1>1 DEF IInv, Coupled, TypeOK, PoolTypeOK
<1>3. CASE getting' = [getting EXCEPT ![k] = "ok"] /\ UNCHANGED <<conn, got>>
  <2>1. TypeOK'
    BY <1>1, <1>3 DEF IInv, TypeOK, UpstreamTypeOK, RouterTypeOK, routerVars,
                      PoolTypeOK, GetStates, RelayTypeOK, relayVars
  <2>2. Coupled'
    BY <1>1, <1>3 DEF IInv, Coupled, TypeOK, PoolTypeOK
  <2>3. Phased' /\ Apart' /\ Owned'
    BY <1>1, <1>3, ControlKeeps
  <2> QED
    BY <2>1, <2>2, <2>3 DEF IInv
<1>4. CASE /\ getting' = [getting EXCEPT ![k] = "take"]
           /\ got' = [got EXCEPT ![k] = None] /\ Shut(got[k])
  <2>1. /\ conn' \in [Conns -> {"closed", "good", "bad"}] /\ conn'[got[k]] = "closed"
        /\ \A b \in Conns : b # got[k] => conn'[b] = conn[b]
    BY <1>2, <1>4, ShutMoves DEF IInv, TypeOK
  <2>2. got'[k] = None /\ \A j \in Clients : j # k => got'[j] = got[j]
    BY <1>4 DEF IInv, TypeOK, PoolTypeOK
  <2>3. TypeOK'
    BY <1>1, <1>4, <2>1 DEF IInv, TypeOK, UpstreamTypeOK, RouterTypeOK, routerVars,
                            PoolTypeOK, GetStates, RelayTypeOK, relayVars
  <2>4. Coupled'
    BY <1>1, <1>4, <2>2 DEF IInv, Coupled, TypeOK, PoolTypeOK
  <2>5. Phased'
    BY <1>1 DEF IInv, Phased
  <2>6. Idle' = Idle /\ (IdleOnce => IdleOnce')
    BY <1>1, IdleUnmoved
  <2>7. Apart'
    BY <1>1, <2>2, <2>6 DEF IInv, Apart
  <2>8. Owned'
    <3>1. \A b \in Conns : Held(b)' <=> Held(b) /\ b # got[k]
      BY <1>1, <1>2, <2>2, <2>6, Names DEF IInv, Apart, Held
    <3> QED
      BY <2>1, <3>1 DEF IInv, Owned
  <2> QED
    BY <2>3, <2>4, <2>5, <2>7, <2>8 DEF IInv
<1> QED
  BY <1>1, <1>3, <1>4

LEMMA GetDialledStep ==
    ASSUME IInv, NEW k \in Clients, GetDialled(k), UNCHANGED <<relayVars, tunnelVars>>
    PROVE  IInv'
<1>1. /\ getting[k] = "dial" /\ dial[k].at \in {"ok", "err"}
      /\ getting' = [getting EXCEPT ![k] = dial[k].at]
      /\ got' = [got EXCEPT ![k] = dial[k].conn] /\ Return(k)
      /\ UNCHANGED <<routerVars, conn, idle, fill, filler, reaper, sweep, reaping,
                     closing, relayVars, phase, handler, engine>>
  BY DEF GetDialled, reapVars, tunnelVars
<1>2. /\ dial' \in [Dialers -> DialStates]
      /\ dial'[k].at = "none" /\ dial'[k].conn = None
      /\ \A e \in Dialers : e # k => dial'[e] = dial[e]
  BY <1>1, ReturnMoves, Names DEF IInv, TypeOK
<1>3. dial[k].conn \in Conns \cup {None}
  BY Names DEF IInv, TypeOK, UpstreamTypeOK, DialStates
<1>4. /\ got[k] = None /\ got'[k] = dial[k].conn
      /\ \A j \in Clients : j # k => got'[j] = got[j]
  BY <1>1 DEF IInv, Coupled, TypeOK, PoolTypeOK
<1>5. TypeOK'
  BY <1>1, <1>2, <1>3 DEF IInv, TypeOK, UpstreamTypeOK, RouterTypeOK, routerVars,
                          PoolTypeOK, GetStates, RelayTypeOK, relayVars
<1>6. Coupled'
  <2>1. getting'[k] \in {"ok", "err"} /\ (got'[k] # None <=> getting'[k] = "ok")
    BY <1>1, <1>4, Names DEF IInv, Coupled, TypeOK, PoolTypeOK
  <2>2. handler[k] = "get"
    BY <1>1 DEF IInv, Coupled
  <2>3. \A j \in Clients : j # k => getting'[j] = getting[j]
    BY <1>1 DEF IInv, TypeOK, PoolTypeOK
  <2> QED
    BY <1>1, <1>2, <1>4, <2>1, <2>2, <2>3, Names DEF IInv, Coupled
<1>7. Phased'
  BY <1>1 DEF IInv, Phased
<1>8. Idle' = Idle /\ (IdleOnce => IdleOnce')
  BY <1>1, IdleUnmoved
<1>9. Apart'
  BY <1>1, <1>2, <1>4, <1>8, Names DEF IInv, Apart
<1>10. Owned'
  <2>1. \A b \in Conns : Held(b)' <=> Held(b)
    BY <1>1, <1>2, <1>4, <1>8, Names DEF Held
  <2> QED
    BY <1>1, <2>1 DEF IInv, Owned
<1> QED
  BY <1>5, <1>6, <1>7, <1>9, <1>10 DEF IInv

LEMMA FillOfferStep ==
    ASSUME IInv, FillOffer, UNCHANGED <<relayVars, tunnelVars>>
    PROVE  IInv'
<1> DEFINE c == dial[Filler].conn
<1>1. /\ filler = "offer" /\ HasRoom /\ idle' = Append(idle, c)
      /\ filler' = "check" /\ Return(Filler)
      /\ UNCHANGED <<routerVars, conn, fill, reaper, sweep, reaping, got, getting,
                     closing, relayVars, phase, handler, engine>>
  BY DEF FillOffer, reapVars, getVars, tunnelVars
<1>2. /\ dial' \in [Dialers -> DialStates]
      /\ dial'[Filler].at = "none" /\ dial'[Filler].conn = None
      /\ \A e \in Dialers : e # Filler => dial'[e] = dial[e]
  BY <1>1, ReturnMoves, Names DEF IInv, TypeOK
<1>3. c \in Conns /\ c \notin Idle
  BY <1>1, Names DEF IInv, Coupled, Apart, TypeOK, UpstreamTypeOK, DialStates
<1>4. /\ idle' \in Seq(Conns) /\ Len(idle') <= Size /\ IdleOnce'
      /\ Idle' = Idle \cup {c}
  BY <1>1, <1>3, PutMoves DEF IInv, TypeOK, Apart
<1>5. TypeOK'
  BY <1>1, <1>2, <1>4 DEF IInv, TypeOK, UpstreamTypeOK, RouterTypeOK, routerVars,
                          PoolTypeOK, FillStates, RelayTypeOK, relayVars
<1>6. Coupled'
  BY <1>1, <1>2, Names DEF IInv, Coupled
<1>7. Phased'
  BY <1>1 DEF IInv, Phased
<1>8. Apart'
  BY <1>1, <1>2, <1>3, <1>4, Names DEF IInv, Apart
<1>9. Owned'
  <2>1. \A b \in Conns : Held(b)' <=> Held(b)
    BY <1>1, <1>2, <1>4, Names DEF Held
  <2> QED
    BY <1>1, <2>1 DEF IInv, Owned
<1> QED
  BY <1>5, <1>6, <1>7, <1>8, <1>9 DEF IInv

\* fillLoop closes what it has dialled, or stops with nothing in hand.
LEMMA FillShutStep ==
    ASSUME IInv, FillDrop \/ FillExit, UNCHANGED <<relayVars, tunnelVars>>
    PROVE  IInv'
<1> DEFINE c == dial[Filler].conn
<1>1. /\ filler \in {"full", "backoff", "offer"} /\ filler' \in {"check", "off"}
      /\ UNCHANGED <<routerVars, idle, fill, reaper, sweep, reaping, got, getting,
                     closing, relayVars, phase, handler, engine>>
      /\ \/ filler = "offer" /\ Shut(c) /\ Return(Filler)
         \/ filler # "offer" /\ UNCHANGED <<conn, dial>>
  BY DEF FillDrop, FillExit, reapVars, getVars, tunnelVars
<1>2. Phased'
  BY <1>1 DEF IInv, Phased
<1>3. CASE filler # "offer" /\ UNCHANGED <<conn, dial>>
  <2>1. TypeOK'
    BY <1>1, <1>3 DEF IInv, TypeOK, UpstreamTypeOK, RouterTypeOK, routerVars,
                      PoolTypeOK, FillStates, RelayTypeOK, relayVars
  <2>2. Coupled'
    BY <1>1, <1>3 DEF IInv, Coupled
  <2>3. Apart' /\ Owned'
    BY <1>1, <1>3, ControlKeeps DEF IInv, Phased
  <2> QED
    BY <1>2, <2>1, <2>2, <2>3 DEF IInv
<1>4. CASE filler = "offer" /\ Shut(c) /\ Return(Filler)
  <2>1. /\ dial' \in [Dialers -> DialStates]
        /\ dial'[Filler].at = "none" /\ dial'[Filler].conn = None
        /\ \A e \in Dialers : e # Filler => dial'[e] = dial[e]
    BY <1>4, ReturnMoves, Names DEF IInv, TypeOK
  <2>2. c \in Conns
    BY <1>4, Names DEF IInv, Coupled, TypeOK, UpstreamTypeOK, DialStates
  <2>3. /\ conn' \in [Conns -> {"closed", "good", "bad"}] /\ conn'[c] = "closed"
        /\ \A b \in Conns : b # c => conn'[b] = conn[b]
    BY <1>4, <2>2, ShutMoves DEF IInv, TypeOK
  <2>4. TypeOK'
    BY <1>1, <2>1, <2>3 DEF IInv, TypeOK, UpstreamTypeOK, RouterTypeOK, routerVars,
                            PoolTypeOK, FillStates, RelayTypeOK, relayVars
  <2>5. Coupled'
    BY <1>1, <2>1, Names DEF IInv, Coupled
  <2>6. Idle' = Idle /\ (IdleOnce => IdleOnce')
    BY <1>1, IdleUnmoved
  <2>7. Apart'
    BY <1>1, <2>1, <2>6, Names DEF IInv, Apart
  <2>8. Owned'
    <3>1. \A b \in Conns : Held(b)' <=> Held(b) /\ b # c
      BY <1>1, <2>1, <2>2, <2>6, Names DEF IInv, Apart, Held
    <3> QED
      BY <2>3, <3>1 DEF IInv, Owned
  <2> QED
    BY <1>2, <2>4, <2>5, <2>7, <2>8 DEF IInv
<1> QED
  BY <1>1, <1>3, <1>4

LEMMA ReapTakeStep ==
    ASSUME IInv, ReapTake, UNCHANGED <<relayVars, tunnelVars>>
    PROVE  IInv'
<1> DEFINE c == Head(idle)
<1>1. /\ reaper = "sweep" /\ sweep > 0 /\ reaper' = "probe" /\ idle # <<>> /\ idle' = Tail(idle)
      /\ reaping' = c
      /\ UNCHANGED <<routerVars, dial, conn, fill, filler, sweep, got, getting, closing,
                     relayVars, phase, handler, engine>>
  BY DEF ReapTake, upstreamVars, getVars, tunnelVars
<1>2. /\ idle' \in Seq(Conns) /\ Len(idle') <= Size /\ IdleOnce'
      /\ c \in Conns /\ c \in Idle /\ Idle' = Idle \ {c}
  BY <1>1, TakeMoves DEF IInv, TypeOK, Apart
<1> HIDE DEF c
<1>3. reaping = None
  BY <1>1 DEF IInv, Coupled
<1>4. TypeOK'
  BY <1>1, <1>2 DEF IInv, TypeOK, UpstreamTypeOK, RouterTypeOK, routerVars,
                    PoolTypeOK, ReapStates, RelayTypeOK, relayVars
<1>5. Coupled'
  BY <1>1, <1>2, Names DEF IInv, Coupled
<1>6. Phased'
  BY <1>1 DEF IInv, Phased
<1>7. Apart'
  BY <1>1, <1>2, Names DEF IInv, Apart
<1>8. Owned'
  <2>1. \A b \in Conns : Held(b)' <=> Held(b)
    BY <1>1, <1>2, <1>3, Names DEF Held
  <2> QED
    BY <1>1, <2>1 DEF IInv, Owned
<1> QED
  BY <1>4, <1>5, <1>6, <1>7, <1>8 DEF IInv

LEMMA ReapProbeStep ==
    ASSUME IInv, ReapProbe, UNCHANGED <<relayVars, tunnelVars>>
    PROVE  IInv'
<1>1. /\ reaper = "probe" /\ reaper' = "sweep" /\ reaping' = None /\ fill' \in BOOLEAN
      /\ UNCHANGED <<routerVars, dial, filler, got, getting, closing,
                     relayVars, phase, handler, engine>>
      /\ \/ Shut(reaping) /\ UNCHANGED idle
         \/ HasRoom /\ idle' = Append(idle, reaping) /\ UNCHANGED conn
  <2>1. /\ reaper = "probe" /\ reaper' = "sweep" /\ reaping' = None
        /\ UNCHANGED <<routerVars, dial, filler, got, getting, closing,
                       relayVars, phase, handler, engine>>
    BY DEF ReapProbe, getVars, tunnelVars
  <2>2. /\ fill' \in BOOLEAN
        /\ \/ Shut(reaping) /\ UNCHANGED idle
           \/ HasRoom /\ idle' = Append(idle, reaping) /\ UNCHANGED conn
    <3>1. fill \in BOOLEAN
      BY DEF IInv, TypeOK, PoolTypeOK
    <3>2. RequestFill => fill' \in BOOLEAN
      BY DEF RequestFill
    <3> QED
      BY <3>1, <3>2 DEF ReapProbe
  <2> QED
    BY <2>1, <2>2
<1>2. reaping \in Conns /\ reaping \notin Idle
  BY <1>1 DEF IInv, Coupled, Apart, TypeOK, PoolTypeOK
<1>3. sweep' \in 0 .. Size
  <2>1. sweep' = sweep - 1 /\ sweep \in 0 .. Size
    BY DEF ReapProbe, IInv, TypeOK, PoolTypeOK
  <2>2. sweep > 0
    BY <1>1 DEF IInv, Coupled
  <2> QED
    BY <2>1, <2>2, PoolAssumption
<1>4. Phased'
  BY <1>1 DEF IInv, Phased
<1>5. Coupled'
  BY <1>1 DEF IInv, Coupled
<1>6. CASE Shut(reaping) /\ UNCHANGED idle
  <2>1. /\ conn' \in [Conns -> {"closed", "good", "bad"}] /\ conn'[reaping] = "closed"
        /\ \A b \in Conns : b # reaping => conn'[b] = conn[b]
    BY <1>2, <1>6, ShutMoves DEF IInv, TypeOK
  <2>2. TypeOK'
    BY <1>1, <1>3, <1>6, <2>1 DEF IInv, TypeOK, UpstreamTypeOK, RouterTypeOK, routerVars,
                                  PoolTypeOK, ReapStates, RelayTypeOK, relayVars
  <2>3. Idle' = Idle /\ (IdleOnce => IdleOnce')
    BY <1>6, IdleUnmoved
  <2>4. Idle \subseteq Conns
    BY DEF IInv, TypeOK, PoolTypeOK, Idle
  <2>5. Apart'
    BY <1>1, <2>3, <2>4, Names DEF IInv, Apart
  <2>6. Owned'
    <3>1. \A b \in Conns : Held(b)' <=> Held(b) /\ b # reaping
      BY <1>1, <1>2, <2>3, Names DEF IInv, Apart, Held
    <3> QED
      BY <2>1, <3>1 DEF IInv, Owned
  <2> QED
    BY <1>4, <1>5, <2>2, <2>5, <2>6 DEF IInv
<1>7. CASE HasRoom /\ idle' = Append(idle, reaping) /\ UNCHANGED conn
  <2>1. /\ idle' \in Seq(Conns) /\ Len(idle') <= Size /\ IdleOnce'
        /\ Idle' = Idle \cup {reaping}
    BY <1>2, <1>7, PutMoves DEF IInv, TypeOK, Apart
  <2>2. TypeOK'
    BY <1>1, <1>3, <1>7, <2>1 DEF IInv, TypeOK, UpstreamTypeOK, RouterTypeOK, routerVars,
                                  PoolTypeOK, ReapStates, RelayTypeOK, relayVars
  <2>3. Idle \subseteq Conns
    BY DEF IInv, TypeOK, PoolTypeOK, Idle
  <2>4. Apart'
    BY <1>1, <1>2, <2>1, <2>3, Names DEF IInv, Apart
  <2>5. Owned'
    <3>1. \A b \in Conns : Held(b)' <=> Held(b)
      BY <1>1, <2>1, Names DEF Held
    <3> QED
      BY <1>7, <3>1 DEF IInv, Owned
  <2> QED
    BY <1>4, <1>5, <2>2, <2>4, <2>5 DEF IInv
<1> QED
  BY <1>1, <1>6, <1>7

LEMMA HandlerEndsStep == ASSUME IInv, NEW k \in Clients, HandlerEnds(k) PROVE IInv'
<1>1. /\ handler[k] = "relay" /\ handler' = [handler EXCEPT ![k] = "none"]
      /\ PipeClose(k) /\ Shut(got[k]) /\ got' = [got EXCEPT ![k] = None]
      /\ UNCHANGED <<routerVars, dial, idle, fill, filler, reaper, sweep, reaping, getting,
                     closing, phase, engine>>
  BY DEF HandlerEnds, reapVars
<1>2. got[k] \in Conns /\ getting[k] = "none"
  BY <1>1 DEF IInv, Coupled, TypeOK, PoolTypeOK
<1>3. /\ conn' \in [Conns -> {"closed", "good", "bad"}] /\ conn'[got[k]] = "closed"
      /\ \A b \in Conns : b # got[k] => conn'[b] = conn[b]
  BY <1>1, <1>2, ShutMoves DEF IInv, TypeOK
<1>4. got'[k] = None /\ \A j \in Clients : j # k => got'[j] = got[j]
  BY <1>1 DEF IInv, TypeOK, PoolTypeOK
<1>5. RelayTypeOK'
  <2>1. [s \in Sides |-> "eof"] \in [Sides -> {"open", "eof", "reset"}]
    OBVIOUS
  <2> QED
    BY <1>1, <2>1 DEF IInv, TypeOK, RelayTypeOK, PipeClose
<1>6. TypeOK'
  BY <1>1, <1>3, <1>5 DEF IInv, TypeOK, UpstreamTypeOK, RouterTypeOK, routerVars, PoolTypeOK
<1>7. Coupled'
  BY <1>1, <1>2, <1>4 DEF IInv, Coupled, TypeOK
<1>8. Phased'
  BY <1>1 DEF IInv, Phased
<1>9. Idle' = Idle /\ (IdleOnce => IdleOnce')
  BY <1>1, IdleUnmoved
<1>10. Apart'
  BY <1>1, <1>4, <1>9 DEF IInv, Apart
<1>11. Owned'
  <2>1. \A b \in Conns : Held(b)' <=> Held(b) /\ b # got[k]
    BY <1>1, <1>2, <1>4, <1>9, Names DEF IInv, Apart, Held
  <2> QED
    BY <1>3, <2>1 DEF IInv, Owned
<1> QED
  BY <1>6, <1>7, <1>8, <1>10, <1>11 DEF IInv

LEMMA StopEngineStep == ASSUME IInv, StopEngine PROVE IInv'
<1>1. /\ phase = "closing" /\ phase' = "off" /\ engine' = "closed"
      /\ filler = "off" /\ reaper = "off" /\ idle' = <<>> /\ closing' = "done"
      /\ conn' = [c \in Conns |-> IF \E i \in DOMAIN idle : idle[i] = c
                                  THEN "closed" ELSE conn[c]]
      /\ UNCHANGED <<routerVars, dial, fill, filler, reaper, sweep, reaping, got, getting,
                     relayVars, handler>>
  BY DEF StopEngine, CloseDrain, reapVars, getVars
<1>2. conn' = [c \in Conns |-> IF c \in Idle THEN "closed" ELSE conn[c]]
  BY <1>1 DEF Idle
<1>3. /\ idle' \in Seq(Conns) /\ Len(idle') <= Size /\ Idle' = {} /\ IdleOnce'
  <2>1. <<>> \in Seq(Conns) /\ Len(<<>>) <= Size /\ DOMAIN <<>> = {}
    BY PoolAssumption
  <2> QED
    BY <1>1, <2>1 DEF Idle, IdleOnce
<1>4. TypeOK'
  BY <1>1, <1>2, <1>3 DEF IInv, TypeOK, UpstreamTypeOK, RouterTypeOK, routerVars,
                          PoolTypeOK, RelayTypeOK, relayVars
<1>5. Coupled'
  BY <1>1 DEF IInv, Coupled
<1>6. Phased'
  BY <1>1 DEF IInv, Phased
<1>7. Apart'
  BY <1>1, <1>3 DEF IInv, Apart
<1>8. Owned'
  <2>1. \A b \in Conns : Held(b)' <=> Held(b) /\ b \notin Idle
    BY <1>1, <1>3, Names DEF IInv, Apart, Held
  <2> QED
    BY <1>2, <2>1 DEF IInv, Owned
<1> QED
  BY <1>4, <1>5, <1>6, <1>7, <1>8 DEF IInv

LEMMA AgeingStep == ASSUME IInv, Ageing PROVE IInv'
<1>1. /\ UNCHANGED <<dial, idle, fill, filler, reaper, sweep, reaping, got, getting,
                     closing, relayVars, phase, handler, engine>>
      /\ \/ Settle /\ UNCHANGED conn
         \/ UNCHANGED routerVars /\ \E c \in Conns : conn[c] = "good"
                                       /\ conn' = [conn EXCEPT ![c] = "bad"]
  BY DEF Ageing, Spoil, poolVars, reapVars, getVars, tunnelVars
<1>2. RouterTypeOK'
  BY <1>1, RouterTypes, Names DEF IInv, TypeOK, UpstreamTypeOK
<1>3. /\ conn' \in [Conns -> {"closed", "good", "bad"}]
      /\ \A c \in Conns : conn'[c] = "closed" <=> conn[c] = "closed"
  BY <1>1 DEF IInv, TypeOK, UpstreamTypeOK
<1>4. TypeOK'
  BY <1>1, <1>2, <1>3 DEF IInv, TypeOK, UpstreamTypeOK, PoolTypeOK, RelayTypeOK, relayVars
<1>5. Coupled' /\ Phased'
  BY <1>1 DEF IInv, Coupled, Phased
<1>6. Apart' /\ Owned'
  BY <1>1, <1>3, IdleUnmoved, UnmovedKeeps DEF IInv, Unmoved
<1> QED
  BY <1>4, <1>5, <1>6 DEF IInv

\* The steps of a dial that end without a connection.
LEMMA DialStep ==
    ASSUME IInv, NEW d \in Dialers,
           GateEnter(d) \/ GateExpires(d, Cancelled(d)) \/ DialFails(d, Cancelled(d)),
           UNCHANGED <<poolVars, relayVars, tunnelVars>>
    PROVE  IInv'
<1>1. UNCHANGED <<conn, idle, fill, filler, reaper, sweep, reaping, got, getting,
                  closing, relayVars, phase, handler, engine>>
  BY DEF GateEnter, GateExpires, DialFails, poolVars, reapVars, getVars, tunnelVars
<1>2. dial[d] \in DialStates /\ dial[d].at \in {"gate", "dialling"} /\ edge \in Edges
  BY DEF GateEnter, GateExpires, DialFails, IInv, TypeOK, UpstreamTypeOK, RouterTypeOK
<1>3. dial[d].conn = None
  BY <1>2, Names DEF IInv, Coupled
<1>4. PICK s \in DialStates : /\ dial' = [dial EXCEPT ![d] = s]
                              /\ s.at \in {"dialling", "err"} /\ s.conn = None
  <2>1. CASE GateEnter(d)
    <3>1. dial' = [dial EXCEPT ![d] = [dial[d] EXCEPT !.at = "dialling", !.edge = edge]]
      BY <2>1 DEF GateEnter, IInv, TypeOK, UpstreamTypeOK
    <3>2. LET s == [dial[d] EXCEPT !.at = "dialling", !.edge = edge]
          IN  s \in DialStates /\ s.at = "dialling" /\ s.conn = None
      BY <1>2, <1>3 DEF DialStates
    <3> QED
      BY <3>1, <3>2
  <2>2. CASE GateExpires(d, Cancelled(d)) \/ DialFails(d, Cancelled(d))
    <3>1. dial' = [dial EXCEPT ![d] = [dial[d] EXCEPT !.at = "err"]]
      BY <2>2 DEF GateExpires, DialFails, IInv, TypeOK, UpstreamTypeOK
    <3>2. LET s == [dial[d] EXCEPT !.at = "err"]
          IN  s \in DialStates /\ s.at = "err" /\ s.conn = None
      BY <1>2, <1>3 DEF DialStates
    <3> QED
      BY <3>1, <3>2
  <2> QED
    BY <2>1, <2>2
<1>5. /\ dial' \in [Dialers -> DialStates] /\ dial'[d] = s
      /\ \A e \in Dialers : e # d => dial'[e] = dial[e]
  BY <1>4, DialMoves DEF IInv, TypeOK
<1>6. RouterTypeOK'
  <2>1. dial[d].edge \in Edges
    BY <1>2 DEF DialStates
  <2> QED
    BY <2>1, RouterTypes DEF GateEnter, GateExpires, DialFails, IInv, TypeOK, UpstreamTypeOK
<1>7. TypeOK'
  BY <1>1, <1>5, <1>6 DEF IInv, TypeOK, UpstreamTypeOK, PoolTypeOK, RelayTypeOK, relayVars
<1>8. Coupled'
  BY <1>1, <1>2, <1>4, <1>5, Names DEF IInv, Coupled
<1>9. Phased' /\ Apart' /\ Owned'
  BY <1>1, <1>3, <1>4, <1>5, ControlKeeps
<1> QED
  BY <1>7, <1>8, <1>9 DEF IInv

LEMMA DialSucceedsStep ==
    ASSUME IInv, NEW d \in Dialers, DialSucceeds(d),
           UNCHANGED <<poolVars, relayVars, tunnelVars>>
    PROVE  IInv'
<1>1. /\ UNCHANGED <<idle, fill, filler, reaper, sweep, reaping, got, getting,
                     closing, relayVars, phase, handler, engine>>
      /\ dial[d].at = "dialling" /\ dial[d] \in DialStates
      /\ Success
  BY DEF DialSucceeds, poolVars, reapVars, getVars, tunnelVars, IInv, TypeOK, UpstreamTypeOK
<1>2. PICK c \in Conns : /\ conn[c] = "closed" /\ conn' = [conn EXCEPT ![c] = "good"]
                         /\ dial' = [dial EXCEPT ![d].at = "ok", ![d].conn = c]
  BY DEF DialSucceeds
<1>3. /\ dial' \in [Dialers -> DialStates] /\ dial'[d].at = "ok" /\ dial'[d].conn = c
      /\ \A e \in Dialers : e # d => dial'[e] = dial[e]
  <2> DEFINE s == [dial[d] EXCEPT !.at = "ok", !.conn = c]
  <2>1. s \in DialStates /\ s.at = "ok" /\ s.conn = c
    BY <1>1 DEF DialStates
  <2>2. dial' = [dial EXCEPT ![d] = s]
    BY <1>2 DEF IInv, TypeOK, UpstreamTypeOK
  <2> HIDE DEF s
  <2> QED
    BY <2>1, <2>2, DialMoves DEF IInv, TypeOK
<1>4. ~Held(c) /\ dial[d].conn = None
  BY <1>1, <1>2 DEF IInv, Owned, Coupled
<1>5. RouterTypeOK'
  BY <1>1, RouterTypes, Names DEF IInv, TypeOK, UpstreamTypeOK
<1>6. TypeOK'
  BY <1>1, <1>2, <1>3, <1>5
  DEF IInv, TypeOK, UpstreamTypeOK, PoolTypeOK, RelayTypeOK, relayVars
<1>7. Coupled'
  BY <1>1, <1>3, Names DEF IInv, Coupled
<1>8. Phased'
  BY <1>1 DEF IInv, Phased
<1>9. Idle' = Idle /\ (IdleOnce => IdleOnce')
  BY <1>1, IdleUnmoved
<1>10. Apart'
  BY <1>1, <1>3, <1>4, <1>9, Names DEF IInv, Apart, Held
<1>11. Owned'
  <2>1. \A b \in Conns : Held(b)' <=> Held(b) \/ b = c
    BY <1>1, <1>3, <1>4, <1>9, Names DEF Held
  <2>2. conn'[c] = "good" /\ \A b \in Conns : b # c => conn'[b] = conn[b]
    BY <1>2 DEF IInv, TypeOK, UpstreamTypeOK
  <2> QED
    BY <2>1, <2>2 DEF IInv, Owned
<1> QED
  BY <1>6, <1>7, <1>8, <1>10, <1>11 DEF IInv

-----------------------------------------------------------------------------
(* The theorems.                                                           *)

LEMMA InitInv == Init => IInv
<1> SUFFICES ASSUME Init PROVE IInv
  OBVIOUS
<1>1. TypeOK
  BY InitTypes
<1>2. /\ idle = <<>> /\ reaping = None /\ filler = "off" /\ reaper = "off"
      /\ phase = "off" /\ engine = "closed"
      /\ \A k \in Clients : handler[k] = "none" /\ getting[k] = "none" /\ got[k] = None
      /\ \A d \in Dialers : dial[d].at = "none" /\ dial[d].conn = None
      /\ \A c \in Conns : conn[c] = "closed"
  BY DEF Init, UpstreamInit, PoolInit, NoDial
<1>3. Idle = {} /\ IdleOnce
  <2>1. DOMAIN <<>> = {}
    OBVIOUS
  <2> QED
    BY <1>2, <2>1 DEF Idle, IdleOnce
<1>4. Coupled /\ Phased
  BY <1>2, Names DEF Coupled, Phased
<1>5. Apart /\ Owned
  BY <1>2, <1>3, Names DEF Apart, Owned, Held
<1> QED
  BY <1>1, <1>4, <1>5 DEF IInv

LEMMA NextInv == IInv /\ [Next]_vars => IInv'
<1> SUFFICES ASSUME IInv, [Next]_vars PROVE IInv'
  OBVIOUS
<1>1. CASE Start
  BY <1>1, StartStep
<1>2. CASE Stop \/ StopPool
  BY <1>2, StopStep
<1>3. CASE StopEngine
  BY <1>3, StopEngineStep
<1>4. CASE \E k \in Clients : Accept(k)
  BY <1>4, AcceptStep
<1>5. CASE \E k \in Clients : HandlerGets(k)
  <2> PICK k \in Clients : Get(k) /\ UNCHANGED <<relayVars, tunnelVars>>
    BY <1>5 DEF HandlerGets
  <2> QED
    BY GetTakeStep, GetMissStep, GetProbeStep, GetDialledStep DEF Get
<1>6. CASE \E k \in Clients : HandlerFails(k) \/ HandlerRelays(k)
  BY <1>6, HandlerServesStep
<1>7. CASE \E k \in Clients : HandlerCopies(k) \/ PeerSteps(k)
  BY <1>7, RelayStep
<1>8. CASE \E k \in Clients : HandlerEnds(k)
  BY <1>8, HandlerEndsStep
<1>9. CASE \E d \in Dialers : DialSteps(d)
  BY <1>9, DialStep, DialSucceedsStep DEF DialSteps
<1>10. CASE PoolSteps
  BY <1>10, FillCheckStep, FillWakeStep, FillDialledStep, FillOfferStep, FillShutStep,
     ReapIdleStep, ReapTakeStep, ReapProbeStep DEF PoolSteps, FillLoop, ReapLoop
<1>11. CASE Ageing
  BY <1>11, AgeingStep
<1>12. CASE UNCHANGED vars
  <2>1. UNCHANGED <<upstreamVars, poolVars, relayVars, tunnelVars>>
    BY <1>12 DEF vars
  <2> QED
    BY <2>1, IdleUnmoved, UnmovedKeeps
    DEF IInv, TypeOK, UpstreamTypeOK, RouterTypeOK, PoolTypeOK, RelayTypeOK, upstreamVars,
        routerVars, poolVars, reapVars, getVars, relayVars, tunnelVars, Coupled, Phased, Unmoved
<1> QED
  BY <1>1, <1>2, <1>3, <1>4, <1>5, <1>6, <1>7, <1>8, <1>9, <1>10, <1>11, <1>12
  DEF Next, Handler

LEMMA AlwaysInv == Spec => []IInv
BY InitInv, NextInv, PTL DEF Spec

\* Every variable of the tunnel keeps its type, for any number of handlers,
\* edges, slots, connections and places.
THEOREM TypeCorrect == Spec => []TypeOK
<1>1. IInv => TypeOK
  BY DEF IInv
<1> QED
  BY <1>1, AlwaysInv, PTL

\* An open connection is in exactly one place: pool.go, tunnel.go and relay.go
\* neither leak one, nor give it to two clients, nor keep one they closed.
THEOREM OneHolderCorrect == Spec => []OneHolder
<1>1. ASSUME IInv, NEW c \in Conns
      PROVE  IF conn[c] = "closed" THEN Holders(c) = {}
             ELSE \E h \in Holders(c) : Holders(c) = {h}
  <2>1. /\ c # None /\ IdleOnce
        /\ conn[c] # "closed" <=> Held(c)
    BY <1>1, Names DEF IInv, Owned, Apart
  <2>2. ASSUME NEW x PROVE x \in Holders(c) <=>
          \/ \E i \in DOMAIN idle : idle[i] = c /\ x = <<"idle", i>>
          \/ \E d \in Dialers : dial[d].conn = c /\ x = <<"dialler", d>>
          \/ \E k \in Clients : got[k] = c /\ x = <<"handler", k>>
          \/ reaping = c /\ x = <<"reaper", c>>
    BY DEF Holders
  <2>3. ASSUME NEW h, Holders(c) = {h}, Held(c)
        PROVE  IF conn[c] = "closed" THEN Holders(c) = {}
               ELSE \E g \in Holders(c) : Holders(c) = {g}
    BY <2>1, <2>3
  <2>4. CASE \E i \in DOMAIN idle : idle[i] = c
    <3> PICK i \in DOMAIN idle : idle[i] = c
      BY <2>4
    <3>1. c \in Idle
      BY DEF Idle
    <3>2. \A x : x \in Holders(c) <=> x = <<"idle", i>>
      BY <2>1, <2>2, <3>1, <1>1 DEF IInv, Apart, IdleOnce
    <3>3. Holders(c) = {<<"idle", i>>}
      BY <3>2
    <3>4. Held(c)
      BY <3>1 DEF Held
    <3> QED
      BY <2>3, <3>3, <3>4
  <2>5. CASE \E d \in Dialers : dial[d].conn = c
    <3> PICK d \in Dialers : dial[d].conn = c
      BY <2>5
    <3>1. \A x : x \in Holders(c) <=> x = <<"dialler", d>>
      BY <2>1, <2>2, <1>1 DEF IInv, Apart, Idle
    <3>2. Holders(c) = {<<"dialler", d>>}
      BY <3>1
    <3>3. Held(c)
      BY DEF Held
    <3> QED
      BY <2>3, <3>2, <3>3
  <2>6. CASE \E k \in Clients : got[k] = c
    <3> PICK k \in Clients : got[k] = c
      BY <2>6
    <3>1. \A x : x \in Holders(c) <=> x = <<"handler", k>>
      BY <2>1, <2>2, <1>1 DEF IInv, Apart, Idle
    <3>2. Holders(c) = {<<"handler", k>>}
      BY <3>1
    <3>3. Held(c)
      BY DEF Held
    <3> QED
      BY <2>3, <3>2, <3>3
  <2>7. CASE reaping = c
    <3>1. \A x : x \in Holders(c) <=> x = <<"reaper", c>>
      BY <2>1, <2>2, <2>7, <1>1 DEF IInv, Apart, Idle
    <3>2. Holders(c) = {<<"reaper", c>>}
      BY <3>1
    <3>3. Held(c)
      BY <2>7 DEF Held
    <3> QED
      BY <2>3, <3>2, <3>3
  <2>8. CASE ~Held(c)
    BY <2>1, <2>2, <2>8 DEF Held, Idle
  <2> QED
    BY <2>4, <2>5, <2>6, <2>7, <2>8 DEF Held, Idle
<1>2. IInv => OneHolder
  BY <1>1 DEF OneHolder
<1> QED
  BY <1>2, AlwaysInv, PTL

\* Stop closes the engine last: by then no dial is under way and every
\* connection made through it has been closed (tunnel.go:213-222).
THEOREM EngineOutlivesDialsCorrect == Spec => []EngineOutlivesDials
<1>1. ASSUME IInv, engine = "closed"
      PROVE  /\ \A d \in Dialers : dial[d].at = "none"
             /\ \A c \in Conns : conn[c] = "closed"
  <2>1. /\ filler = "off" /\ reaper = "off" /\ idle = <<>>
        /\ \A k \in Clients : handler[k] = "none"
    BY <1>1 DEF IInv, Phased
  <2>2. reaping = None /\ \A k \in Clients : got[k] = None /\ getting[k] = "none"
    BY <1>1, <2>1 DEF IInv, Coupled
  <2>3. \A d \in Dialers : dial[d].at = "none" /\ dial[d].conn = None
    BY <1>1, <2>1, <2>2 DEF IInv, Coupled, Dialers
  <2>4. Idle = {}
    <3>1. DOMAIN <<>> = {}
      OBVIOUS
    <3> QED
      BY <2>1, <3>1 DEF Idle
  <2>5. \A c \in Conns : ~Held(c)
    BY <2>2, <2>3, <2>4, Names DEF Held
  <2> QED
    BY <1>1, <2>3, <2>5 DEF IInv, Owned
<1>2. IInv => EngineOutlivesDials
  BY <1>1 DEF EngineOutlivesDials
<1> QED
  BY <1>2, AlwaysInv, PTL

-----------------------------------------------------------------------------
(* The relays.                                                             *)

\* A direction that has ended has passed everything on, unless a connection
\* is broken.
Passed ==
    \A k \in Clients : piped[k] => \A s \in Sides \ copying[k] :
        \/ \E t \in Sides : peer[k][t] = "reset"
        \/ peer[k][s] = "eof" /\ s \notin unread[k]

LEMMA RelayCases ==
    ASSUME [Next]_vars
    PROVE  \/ UNCHANGED relayVars
           \/ \E k \in Clients : \/ Pipe(k) \/ PipeClose(k)
                                 \/ \E s \in Sides :
                                      \/ Copy(k, s) \/ CopyEnds(k, s) \/ PeerWrites(k, s)
                                      \/ PeerFinishes(k, s) \/ PeerResets(k, s)
<1>1. CASE Start \/ Stop \/ StopPool \/ StopEngine \/ PoolSteps \/ Ageing \/ UNCHANGED vars
  BY <1>1 DEF Start, Stop, StopPool, StopEngine, PoolSteps, Ageing, vars
<1>2. CASE \E d \in Dialers : DialSteps(d)
  BY <1>2 DEF DialSteps
<1>3. CASE \E k \in Clients : Accept(k) \/ Handler(k) \/ PeerSteps(k)
  BY <1>3 DEF Accept, Handler, HandlerGets, HandlerFails, HandlerRelays, HandlerCopies,
              HandlerEnds, PeerSteps
<1> QED
  BY <1>1, <1>2, <1>3 DEF Next

LEMMA NextPassed == TypeOK /\ Passed /\ [Next]_vars => Passed'
<1> SUFFICES ASSUME RelayTypeOK, Passed, [Next]_vars PROVE Passed'
  BY DEF TypeOK
<1>1. CASE UNCHANGED relayVars
  BY <1>1 DEF Passed, relayVars
<1>2. ASSUME NEW k \in Clients, Pipe(k) \/ PipeClose(k) PROVE Passed'
  <2>1. /\ \A j \in Clients : j # k => /\ piped'[j] = piped[j] /\ copying'[j] = copying[j]
                                       /\ peer'[j] = peer[j] /\ unread'[j] = unread[j]
        /\ piped'[k] => copying'[k] = Sides
    BY <1>2 DEF RelayTypeOK, Pipe, PipeClose
  <2> QED
    BY <2>1 DEF Passed
<1>3. ASSUME NEW k \in Clients, NEW s \in Sides, Copy(k, s) \/ CopyEnds(k, s)
      PROVE  Passed'
  <2>1. /\ \A j \in Clients : /\ piped'[j] = piped[j] /\ peer'[j] = peer[j]
                              /\ unread'[j] \subseteq unread[j]
        /\ \A j \in Clients : j # k => copying'[j] = copying[j]
    BY <1>3 DEF RelayTypeOK, Copy, CopyEnds
  <2>2. \/ copying'[k] = copying[k]
        \/ /\ copying'[k] = copying[k] \ {s} /\ unread'[k] = unread[k]
           /\ \/ peer[k][s] = "eof" /\ s \notin unread[k]
              \/ \E t \in Sides : peer[k][t] = "reset"
    BY <1>3 DEF RelayTypeOK, Copy, CopyEnds, Sides, Other
  <2> QED
    BY <2>1, <2>2 DEF Passed
<1>4. ASSUME NEW k \in Clients, NEW s \in Sides,
             PeerWrites(k, s) \/ PeerFinishes(k, s) \/ PeerResets(k, s)
      PROVE  Passed'
  <2>1. /\ UNCHANGED <<piped, copying>>
        /\ \A j \in Clients : j # k => peer'[j] = peer[j] /\ unread'[j] = unread[j]
        /\ \A t \in Sides : t # s => /\ peer'[k][t] = peer[k][t]
                                     /\ t \in unread'[k] <=> t \in unread[k]
    BY <1>4 DEF RelayTypeOK, PeerWrites, PeerFinishes, PeerResets
  <2>2. \/ peer[k][s] = "open" /\ peer'[k][s] # "reset"
        \/ peer'[k][s] = "reset"
    BY <1>4 DEF RelayTypeOK, PeerWrites, PeerFinishes, PeerResets
  <2> QED
    BY <2>1, <2>2 DEF Passed
<1> QED
  BY <1>1, <1>2, <1>3, <1>4, RelayCases

\* Pipe closes both connections only when everything either peer wrote has
\* been passed on and both have finished, or one of the two is broken.
THEOREM NothingTruncatedCorrect == Spec => NothingTruncated
<1> DEFINE Whole == \A k \in Clients : piped[k] /\ ~piped'[k] =>
                      \/ \E s \in Sides : peer[k][s] = "reset"
                      \/ unread[k] = {} /\ \A s \in Sides : peer[k][s] = "eof"
<1>1. Init => Passed
  BY DEF Init, RelayInit, Passed
<1>2. TypeOK /\ Passed /\ [Next]_vars => [Whole]_relayVars
  <2> SUFFICES ASSUME RelayTypeOK, Passed, [Next]_vars,
                      NEW k \in Clients, piped[k], ~piped'[k]
               PROVE  \/ \E s \in Sides : peer[k][s] = "reset"
                      \/ unread[k] = {} /\ \A s \in Sides : peer[k][s] = "eof"
    BY DEF TypeOK
  <2>1. copying[k] = {}
    <3>1. PICK j \in Clients : Pipe(j) \/ PipeClose(j)
      BY RelayCases DEF relayVars, Copy, CopyEnds, PeerWrites, PeerFinishes, PeerResets
    <3>2. PipeClose(k)
      BY <3>1 DEF Pipe, PipeClose, RelayTypeOK
    <3> QED
      BY <3>2 DEF PipeClose, PipeReturns
  <2> QED
    BY <2>1 DEF Passed, RelayTypeOK
<1>3. Spec => []Passed
  BY <1>1, NextPassed, TypeCorrect, PTL DEF Spec
<1>4. Spec => [][Whole]_relayVars
  BY <1>2, <1>3, TypeCorrect, PTL DEF Spec
<1> QED
  BY <1>4 DEF NothingTruncated
=============================================================================
