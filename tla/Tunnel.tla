------------------------------- MODULE Tunnel -------------------------------
(***************************************************************************)
(* One Tunnel (src/internal/tunnel/tunnel.go): Start, the accept loop, one *)
(* handler per local connection, Stop.  It composes the router and gate    *)
(* (Upstream), the warm pool (Pool) and the relays (Relay).                *)
(*                                                                         *)
(* A member of Clients is a place for one local connection at a time; when *)
(* its handler returns the place may be taken again.  A connection Accept  *)
(* returned just before Stop closed the listener is one accepted before    *)
(* Stop.  Start's error returns leave everything as it was (an engine that *)
(* was already open is closed again) and are left out; noteError only logs.*)
(***************************************************************************)
EXTENDS Pool, Relay

VARIABLES
    phase,     \* Stop's progress: "off", "running", "draining" (wg.Wait),
               \* "closing" (pool.Close)
    handler,   \* [Clients -> "none", "get", "relay"]: handle
    engine     \* the spoof engine: "closed", "open"

tunnelVars == <<phase, handler, engine>>
vars == <<upstreamVars, poolVars, relayVars, tunnelVars>>

Init ==
    /\ UpstreamInit /\ PoolInit /\ RelayInit
    /\ phase = "off"
    /\ handler = [k \in Clients |-> "none"]
    /\ engine = "closed"

-----------------------------------------------------------------------------

Start ==
    /\ phase = "off"
    /\ phase' = "running"
    /\ engine' = "open"
    /\ RouterReset
    /\ New
    /\ UNCHANGED <<dial, conn, relayVars, handler>>

\* acceptLoop
Accept(k) ==
    /\ phase = "running" /\ handler[k] = "none"
    /\ handler' = [handler EXCEPT ![k] = "get"]
    /\ getting' = [getting EXCEPT ![k] = "take"]
    /\ UNCHANGED <<upstreamVars, idle, fill, filler, reapVars, got, closing,
                   relayVars, phase, engine>>

\* pool.Get, called by the handler.
HandlerGets(k) == Get(k) /\ UNCHANGED <<relayVars, tunnelVars>>

\* pool.Get has failed: the local connection is closed.
HandlerFails(k) ==
    /\ handler[k] = "get" /\ getting[k] = "err"
    /\ handler' = [handler EXCEPT ![k] = "none"]
    /\ getting' = [getting EXCEPT ![k] = "none"]
    /\ UNCHANGED <<upstreamVars, idle, fill, filler, reapVars, got, closing,
                   relayVars, phase, engine>>

HandlerRelays(k) ==
    /\ handler[k] = "get" /\ getting[k] = "ok"
    /\ handler' = [handler EXCEPT ![k] = "relay"]
    /\ getting' = [getting EXCEPT ![k] = "none"]
    /\ Pipe(k)
    /\ UNCHANGED <<upstreamVars, idle, fill, filler, reapVars, got, closing,
                   phase, engine>>

HandlerCopies(k) ==
    /\ \E s \in Sides : Copy(k, s) \/ CopyEnds(k, s)
    /\ UNCHANGED <<upstreamVars, poolVars, tunnelVars>>

HandlerEnds(k) ==
    /\ handler[k] = "relay"
    /\ PipeClose(k)
    /\ Shut(got[k])
    /\ got' = [got EXCEPT ![k] = None]
    /\ handler' = [handler EXCEPT ![k] = "none"]
    /\ UNCHANGED <<routerVars, dial, idle, fill, filler, reapVars, getting,
                   closing, phase, engine>>

\* The dial function, called from GetMiss and FillCheck.  A handler's context
\* ends with t.cancel, the filler's with p.cancel; both are also timeouts.
Cancelled(d) == IF d = Filler THEN closing # "no" ELSE phase # "running"

DialSteps(d) ==
    /\ \/ GateEnter(d)
       \/ GateExpires(d, Cancelled(d))
       \/ DialSucceeds(d)
       \/ DialFails(d, Cancelled(d))
    /\ UNCHANGED <<poolVars, relayVars, tunnelVars>>

PoolSteps == (FillLoop \/ ReapLoop) /\ UNCHANGED <<relayVars, tunnelVars>>

StopClosesEngineFirst ==
    /\ phase = "running"
    /\ phase' = "draining"
    /\ engine' = "closed"
    /\ UNCHANGED <<upstreamVars, poolVars, relayVars, handler>>

\* Stop: running = false, t.cancel, ln.Close.
Stop ==
    /\ phase = "running"
    /\ phase' = "draining"
    /\ UNCHANGED <<upstreamVars, poolVars, relayVars, handler, engine>>

\* wg.Wait is over: every handler has returned; pool.Close begins.
StopPool ==
    /\ phase = "draining" /\ \A k \in Clients : handler[k] = "none"
    /\ phase' = "closing"
    /\ CloseCancel
    /\ UNCHANGED <<relayVars, handler, engine>>

\* pool.Close returns, the engine is closed.
StopEngine ==
    /\ phase = "closing"
    /\ CloseDrain
    /\ phase' = "off"
    /\ engine' = "closed"
    /\ UNCHANGED <<relayVars, handler>>

\* Time and the peers.  A connection in a relay is judged by its relay.
Relayed(c) == \E k \in Clients : handler[k] = "relay" /\ got[k] = c

Ageing ==
    /\ \/ Settle /\ UNCHANGED <<dial, conn, poolVars>>
       \/ \E c \in Conns : ~Relayed(c) /\ Spoil(c)
    /\ UNCHANGED <<relayVars, tunnelVars>>

PeerSteps(k) ==
    /\ \E s \in Sides : PeerWrites(k, s) \/ PeerFinishes(k, s) \/ PeerResets(k, s)
    /\ UNCHANGED <<upstreamVars, poolVars, tunnelVars>>

-----------------------------------------------------------------------------

Handler(k) == \/ HandlerGets(k) \/ HandlerFails(k) \/ HandlerRelays(k)
              \/ HandlerCopies(k) \/ HandlerEnds(k)

Next ==
    \/ Start \/ Stop \/ StopPool \/ StopEngine
    \/ \E k \in Clients : Accept(k) \/ Handler(k) \/ PeerSteps(k)
    \/ \E d \in Dialers : DialSteps(d)
    \/ PoolSteps
    \/ Ageing

Spec == Init /\ [][Next]_vars

\* Every runnable goroutine runs and every timer fires.  A loop whose select
\* finds ctx.Done ready again and again, beside other cases, picks it at last.
\* Whoever waits at the gate is not passed over for ever.
Fairness ==
    /\ \A k \in Clients : WF_vars(Handler(k))
    /\ \A d \in Dialers : WF_vars(DialSteps(d))
    /\ WF_vars(FillLoop /\ UNCHANGED <<relayVars, tunnelVars>>)
    /\ WF_vars(ReapLoop /\ UNCHANGED <<relayVars, tunnelVars>>)
    /\ SF_vars(FillExit /\ UNCHANGED <<relayVars, tunnelVars>>)
    /\ SF_vars(ReapExit /\ UNCHANGED <<relayVars, tunnelVars>>)
    /\ WF_vars(StopPool) /\ WF_vars(StopEngine)
    /\ WF_vars(Settle /\ UNCHANGED <<dial, conn, poolVars, relayVars, tunnelVars>>)

FairSpec == Spec /\ Fairness

\* The peers of every relay finish sooner or later.
PeersFairSpec ==
    /\ FairSpec
    /\ \A k \in Clients, s \in Sides :
         WF_vars(PeerFinishes(k, s) /\ UNCHANGED <<upstreamVars, poolVars, tunnelVars>>)

-----------------------------------------------------------------------------
(* Properties.                                                             *)

\* The type invariant.
TypeOK ==
    /\ UpstreamTypeOK /\ PoolTypeOK /\ RelayTypeOK
    /\ phase \in {"off", "running", "draining", "closing"}
    /\ handler \in [Clients -> {"none", "get", "relay"}]
    /\ engine \in {"closed", "open"}

\* Who is responsible for closing connection c.
Holders(c) ==
    {<<"idle", i>> : i \in {n \in DOMAIN idle : idle[n] = c}}
    \cup {<<"dialler", d>> : d \in {e \in Dialers : dial[e].conn = c}}
    \cup {<<"handler", k>> : k \in {j \in Clients : got[j] = c}}
    \cup {<<"reaper", r>> : r \in {reaping} \cap {c}}

\* Every open connection has exactly one holder, and no holder keeps a closed
\* one: fillLoop, reapLoop, Get, Pipe and Close neither leak a connection, nor
\* hand one to two clients, nor hand out one they closed.
OneHolder ==
    \A c \in Conns : IF conn[c] = "closed" THEN Holders(c) = {}
                     ELSE \E h \in Holders(c) : Holders(c) = {h}

\* The engine outlives every dial and every warm connection: Stop closes it
\* after the handlers and after the pool.
EngineOutlivesDials ==
    engine = "closed" =>
        /\ \A d \in Dialers : dial[d].at = "none"
        /\ \A c \in Conns : conn[c] = "closed"

\* What the two liveness claims below suppose of the warm entries.  They may
\* expire and be discarded, again and again; but when a Get is at its loop for
\* ever (it asks its context only when the channel is empty) they do not also go
\* bad one after the other for ever, each before it looks.
EntriesKeep ==
    \A k \in Clients :
        <>[](getting[k] \in {"take", "probe"})
            => <>[][\A c \in Conns : conn[c] = "good" => conn'[c] # "bad"]_vars

\* None outlives its TTL.
EntriesExpire == \A c \in Conns : []<>(conn[c] # "good" \/ Relayed(c))

\* Every accepted client is served or turned away, although its dial may queue
\* behind the filler's at the gate, entries expire in its hands, and fillLoop and
\* reapLoop take part in its pool.
EveryClientAnswered ==
    EntriesKeep => \A k \in Clients : handler[k] = "get" ~> handler[k] # "get"

\* Stop returns.
StopCompletes == EntriesKeep => (phase = "draining" ~> phase = "off")

Runs == <>[](phase = "running")

\* From some time on no dial to e succeeds.
Dead(e) ==
    <>[][\A d \in Dialers :
           dial[d].at = "dialling" /\ dial'[d].at = "ok" => dial[d].edge # e]_vars

\* A running tunnel does not stay on a route that is dead, whenever it died and
\* even if no client connects: reapLoop drops the entries that are left of it, the
\* filler's failures add up to a move, and neither the successes of dials still
\* under way to other routes nor the failures ignored after a move hold it back.
\* That it stays on one that works is not said: dials of the old route that fail
\* late may rotate it on (StreakOwnRoute).
DeadRouteLeft ==
    Runs /\ EntriesExpire => \A e \in Edges : Dead(e) => []<>(edge # e)

\* From some time on no dial to e fails.
Works(e) ==
    <>[][\A d \in Dialers :
           dial[d].at = "dialling" /\ dial'[d].at = "err" => dial[d].edge # e]_vars

\* Once one route works and the others are dead, whatever they were before, the
\* pool is full again and again, whatever is taken or expires.
PoolRefills ==
    Runs /\ EntriesExpire =>
        \A e \in Edges : Works(e) /\ (\A f \in Edges \ {e} : Dead(f)) => []<>(~HasRoom)

\* A failed dial is only held against the route it was made to (router.go:94-95).
StreakOwnRoute == \A i \in DOMAIN streak : streak[i] = edge
=============================================================================
