----------------------------- MODULE AppProofs -----------------------------
(***************************************************************************)
(* What holds of App for any number of callers and sessions.               *)
(*                                                                         *)
(* IInv is inductive.  That Publish overwrites neither a.tun nor a.client  *)
(* rests on the ports (OnePerAddress, Settled): of two calls of Start that *)
(* overlap, only one gets its server started, unless a save has moved the  *)
(* ports meanwhile.  The properties of calls that do not overlap rest on   *)
(* InTurn and ProxyInOrder besides, which the step of a call preserves     *)
(* when no other one is under way.                                         *)
(***************************************************************************)
EXTENDS App, TLAPS, FiniteSetTheorems

\* Somebody will publish or close r.
Held(r) == tun = r \/ client = r \/ \E c \in Callers : call[c].run = r

Reachable == \A r \in Runs : Held(r) => sess[r] # Unused

\* Sessions that nobody will close.
Lost == {r \in Runs : sess[r] # Unused /\ ~Held(r)}

Apart ==
    /\ tun # None => tun # client
    /\ \A c \in Callers : call[c].run # None => call[c].run # tun /\ call[c].run # client
    /\ \A c, d \in Callers : c # d /\ call[c].run # None => call[c].run # call[d].run

EngineOpen == \A r \in Runs : sess[r] # Unused => sess[r].engine

\* What the position of a call says of the session that it has in hand.
Placed(c) ==
    /\ At(c, "install") => call[c].shape = "client"
    /\ call[c].at \in {"install", "serve", "publish"} => sess[call[c].run].shape = call[c].shape
    /\ At(c, "publish") => sess[call[c].run].serving
    /\ call[c].at \in {"unlisten", "drain"} => sess[call[c].run].shape = "tunnel"
    /\ call[c].at \in {"install", "abort", "close engine"} => slot # call[c].run

Shaped ==
    /\ tun # None => sess[tun].shape = "tunnel" /\ sess[tun].serving
    /\ client # None => sess[client].shape = "client" /\ sess[client].serving
    /\ slot # None => sess[slot].shape = "client"
    /\ \A c \in Callers : Placed(c)

\* Two sessions of one shape do not have the same ports at once.
OnePerAddress ==
    \A r, s \in Runs :
        r # s /\ sess[r].serving /\ sess[s].serving
            => sess[r].shape # sess[s].shape \/ sess[r].address # sess[s].address

IInv == AppTypeOK /\ Reachable /\ Apart /\ EngineOpen /\ Shaped /\ OnePerAddress

\* What a call of Start will meet at the listener, or has in hand itself.
InPlay(r) == tun = r \/ client = r \/ \E c \in Callers : Starting(c) /\ call[c].run = r

\* While a call of Start is under way, all of that has the ports of the settings.
Settled ==
    (\E c \in Callers : Starting(c)) => \A r \in Runs : InPlay(r) => sess[r].address = address

Unmoved == ~moved => Lost = {} /\ Settled

\* What a step does to both: it loses nothing, and what is in play was so before,
\* or is built from the settings as they are.
Kept == Lost' \subseteq Lost

Frame ==
    \A r \in Runs :
        InPlay(r)' => \/ sess'[r].address = address
                      \/ InPlay(r) /\ sess'[r].address = sess[r].address

\* A call of Start that publishes replaces another session.
Overwrites(c) ==
    At(c, "publish") /\ IF call[c].shape = "client" THEN client # None ELSE tun # None

CfgTypeOK == shape \in Shapes /\ address \in Addresses /\ moved \in BOOLEAN

InHand == {"install", "serve", "publish", "abort", "close core",
           "close slot", "close engine", "unlisten", "drain"}

CallTypeOK ==
    /\ call \in [Callers -> CallStates]
    /\ \A c \in Callers : call[c].run # None <=> call[c].at \in InHand

\* One call has moved; the others have not.
Moved(c) == \A d \in Callers : d # c => call'[d] = call[d]

LEMMA CallTypes == AppTypeOK => CallTypeOK
BY DEF AppTypeOK, CallTypeOK, InHand

LEMMA CallTypePreserved ==
    ASSUME CallTypeOK, NEW c \in Callers, Moved(c),
           call' \in [Callers -> CallStates],
           call'[c].run # None <=> call'[c].at \in InHand
    PROVE  CallTypeOK'
BY DEF CallTypeOK, Moved

LEMMA GoMoves ==
    ASSUME CallTypeOK, NEW c \in Callers, NEW p \in Positions, Go(c, p)
    PROVE  /\ call' \in [Callers -> CallStates] /\ Moved(c)
           /\ call'[c].at = p /\ call'[c].run = call[c].run /\ call'[c].shape = call[c].shape
           /\ call'[c].previous = call[c].previous
BY DEF CallTypeOK, CallStates, Go, Moved

LEMMA ReturnMoves ==
    ASSUME CallTypeOK, NEW c \in Callers, Return(c)
    PROVE  /\ call' \in [Callers -> CallStates] /\ Moved(c)
           /\ call'[c].at = "idle" /\ call'[c].run = None
<1>1. Returned \in CallStates
  BY DEF Returned, CallStates, Positions, Shapes, Settings
<1>2. call'[c] = Returned /\ Moved(c) /\ call' \in [Callers -> CallStates]
  BY <1>1 DEF Return, CallTypeOK, Moved
<1> QED
  BY <1>2 DEF Returned

LEMMA ShapeMoves ==
    ASSUME CallTypeOK, NEW c \in Callers, NEW p \in Positions, NEW s \in Shapes,
           call' = [call EXCEPT ![c].at = p, ![c].shape = s]
    PROVE  /\ call' \in [Callers -> CallStates] /\ Moved(c)
           /\ call'[c].at = p /\ call'[c].run = call[c].run
BY DEF CallTypeOK, CallStates, Moved

LEMMA PreviousMoves ==
    ASSUME CallTypeOK, NEW c \in Callers, NEW p \in Positions, NEW s \in Settings,
           call' = [call EXCEPT ![c].at = p, ![c].previous = s]
    PROVE  /\ call' \in [Callers -> CallStates] /\ Moved(c)
           /\ call'[c].at = p /\ call'[c].run = call[c].run /\ call'[c].previous = s
BY DEF CallTypeOK, CallStates, Moved

LEMMA ThenMoves ==
    ASSUME CallTypeOK, NEW c \in Callers, NEW p \in Positions, NEW s \in Settings,
           NEW t \in {"idle", "stop client"},
           call' = [call EXCEPT ![c].then = t, ![c].previous = s, ![c].at = p]
    PROVE  /\ call' \in [Callers -> CallStates] /\ Moved(c)
           /\ call'[c].at = p /\ call'[c].run = call[c].run /\ call'[c].previous = s
BY DEF CallTypeOK, CallStates, Moved

LEMMA ClearMoves ==
    ASSUME CallTypeOK, ProxyTypeOK, NEW c \in Callers, NEW then \in {"idle", "stop client"},
           ClearProxy(c, then)
    PROVE  /\ call' \in [Callers -> CallStates] /\ Moved(c)
           /\ call'[c].at = (IF proxySet THEN "restore" ELSE then)
           /\ call'[c].run = call[c].run /\ call'[c].previous = proxyPrev
<1> DEFINE p == IF proxySet THEN "restore" ELSE then
<1>1. p \in Positions /\ proxyPrev \in Settings
  BY DEF Positions, ProxyTypeOK
<1>2. call' = [call EXCEPT ![c].then = then, ![c].previous = proxyPrev, ![c].at = p]
  BY DEF ClearProxy
<1> HIDE DEF p
<1>3. /\ call' \in [Callers -> CallStates] /\ Moved(c)
      /\ call'[c].at = p /\ call'[c].run = call[c].run
      /\ call'[c].previous = proxyPrev
  BY <1>1, <1>2, ThenMoves
<1> QED
  BY <1>3 DEF p

LEMMA RunMoves ==
    ASSUME CallTypeOK, NEW c \in Callers, NEW p \in Positions, NEW r \in Runs \cup {None},
           call' = [call EXCEPT ![c].at = p, ![c].run = r]
    PROVE  /\ call' \in [Callers -> CallStates] /\ Moved(c)
           /\ call'[c].at = p /\ call'[c].run = r /\ call'[c].shape = call[c].shape
BY DEF CallTypeOK, CallStates, Moved

LEMMA PlacedKept ==
    ASSUME NEW d \in Callers, Placed(d), call'[d] = call[d],
           sess'[call[d].run] = sess[call[d].run],
           slot' = call[d].run => slot = call[d].run
    PROVE  Placed(d)'
BY DEF Placed, At

LEMMA PortsKept ==
    ASSUME OnePerAddress, NEW r \in Runs, NEW b \in BOOLEAN,
           sess'[r].serving = b, \A s \in Runs : s # r => sess'[s] = sess[s],
           \A s \in Runs : /\ sess'[s].shape = sess[s].shape
                           /\ sess'[s].address = sess[s].address,
           b => \A s \in Runs : sess[s].serving => \/ sess[s].shape # sess[r].shape
                                                  \/ sess[s].address # sess[r].address
    PROVE  OnePerAddress'
<1>1. CASE b
  BY <1>1 DEF OnePerAddress
<1>2. CASE ~b
  BY <1>2 DEF OnePerAddress
<1> QED
  BY <1>1, <1>2

\* A step that leaves every session with its owner.
LEMMA OwnersKept ==
    ASSUME IInv, NEW c \in Callers, Moved(c),
           call' \in [Callers -> CallStates],
           call'[c].run = call[c].run, tun' = tun, client' = client,
           call'[c].run # None /\ Starting(c)' => Starting(c),
           \A r \in Runs : /\ sess'[r].shape = sess[r].shape
                           /\ sess'[r].address = sess[r].address
                           /\ sess[r] = Unused <=> sess'[r] = Unused
                           /\ sess'[r].engine = sess[r].engine
                           /\ r # call[c].run => sess'[r] = sess[r],
           slot' \in {slot, None}, slot' \in Runs \cup {None},
           Placed(c)'
    PROVE  Reachable' /\ Apart' /\ EngineOpen' /\ Shaped' /\ Kept /\ Frame
<1> USE DEF IInv, Moved
<1>1. \A d \in Callers : call'[d].run = call[d].run
  OBVIOUS
<1>2. Reachable' /\ Kept
  BY <1>1 DEF Reachable, Held, Kept, Lost
<1>7. Frame
  <2> SUFFICES ASSUME NEW r \in Runs, InPlay(r)' PROVE InPlay(r)
    BY DEF Frame
  <2>1. \A d \in Callers : Starting(d)' /\ call'[d].run = r => Starting(d)
    BY SessionsAssumption DEF Starting
  <2> QED
    BY <1>1, <2>1 DEF InPlay
<1>3. Apart'
  BY <1>1 DEF Apart
<1>4. EngineOpen'
  BY DEF EngineOpen
<1>5. ASSUME NEW d \in Callers, d # c PROVE Placed(d)'
  <2>1. Placed(d) /\ call'[d] = call[d]
    BY <1>5 DEF Shaped
  <2>2. call[d].run # None <=> call[d].at \in InHand
    BY CallTypes DEF CallTypeOK
  <2>3. call[d].run \in Runs \cup {None}
    BY CallTypes DEF CallTypeOK, CallStates
  <2> QED
    <3>1. call[d].run # None => call[d].run # call[c].run
      BY <1>5 DEF Apart
    <3>2. CASE call[d].run = None
      BY <2>1, <2>2, <3>2 DEF Placed, At, InHand
    <3>3. CASE call[d].run # None
      <4>1. call[d].run \in Runs /\ sess'[call[d].run] = sess[call[d].run]
        BY <2>3, <3>1, <3>3
      <4>2. slot' = call[d].run => slot = call[d].run
        BY <3>3
      <4> QED
        BY <2>1, <4>1, <4>2, PlacedKept
    <3> QED
      BY <3>2, <3>3
<1>6. Shaped'
  <2>0. /\ tun # None => tun \in Runs /\ tun # call[c].run
        /\ client # None => client \in Runs /\ client # call[c].run
    BY DEF AppTypeOK, Apart
  <2>1. /\ tun' # None => sess'[tun'].shape = "tunnel" /\ sess'[tun'].serving
        /\ client' # None => sess'[client'].shape = "client" /\ sess'[client'].serving
    BY <2>0 DEF Shaped
  <2>2. slot' # None => sess'[slot'].shape = "client"
    BY DEF Shaped, AppTypeOK
  <2> QED
    BY <2>1, <2>2, <1>5 DEF Shaped
<1> QED
  BY <1>2, <1>3, <1>4, <1>6, <1>7

\* A session's ports open or close; sess changes in nothing else.
ServingSet(r, b) == sess' = [sess EXCEPT ![r].serving = b]

LEMMA ServingKeeps ==
    ASSUME SessionsTypeOK, EngineOpen, NEW r \in Runs, sess[r] # Unused,
           NEW b \in BOOLEAN, ServingSet(r, b)
    PROVE  /\ sess' \in [Runs -> SessionStates]
           /\ \A s \in Runs : /\ sess'[s].shape = sess[s].shape
                              /\ sess'[s].address = sess[s].address
                              /\ sess[s] = Unused <=> sess'[s] = Unused
                              /\ sess'[s].engine = sess[s].engine
                              /\ s # r => sess'[s] = sess[s]
           /\ sess'[r].serving = b
<1>1. /\ sess' \in [Runs -> SessionStates]
      /\ sess'[r].shape = sess[r].shape /\ sess'[r].address = sess[r].address
      /\ sess'[r].engine = sess[r].engine /\ sess'[r].serving = b
      /\ \A s \in Runs : s # r => sess'[s] = sess[s]
  BY DEF SessionsTypeOK, SessionStates, ServingSet
<1>2. sess'[r].engine
  BY <1>1 DEF EngineOpen
<1>3. sess'[r] # Unused
  BY <1>2 DEF Unused
<1> QED
  BY <1>1, <1>3

\* The session in hand is closed.
LEMMA Released ==
    ASSUME IInv, NEW c \in Callers, Moved(c), call[c].run # None,
           call' \in [Callers -> CallStates],
           call'[c].run = None, tun' = tun, client' = client, slot' = slot,
           slot # call[c].run, CloseEngine(call[c].run), Placed(c)'
    PROVE  /\ sess' \in [Runs -> SessionStates]
           /\ Reachable' /\ Apart' /\ EngineOpen' /\ Shaped' /\ OnePerAddress' /\ Kept /\ Frame
<1> DEFINE r == call[c].run
<1>1. r \in Runs /\ call \in [Callers -> CallStates]
  BY CallTypes DEF CallTypeOK, CallStates, IInv
<1>2. Unused \in SessionStates
  BY DEF Unused, SessionStates
<1>3. /\ sess' \in [Runs -> SessionStates] /\ sess'[r] = Unused
      /\ \A s \in Runs : s # r => sess'[s] = sess[s]
  BY <1>1, <1>2 DEF CloseEngine, IInv, AppTypeOK, SessionsTypeOK
<1>4. /\ r # tun /\ r # client
      /\ \A d \in Callers : d # c => call[d].run # r
  BY <1>1, SessionsAssumption DEF IInv, Apart
<1>5. \A d \in Callers : call'[d].run = IF d = c THEN None ELSE call[d].run
  BY DEF Moved
<1>6. Reachable' /\ Kept
  <2> SUFFICES ASSUME NEW s \in Runs
               PROVE  /\ Held(s)' => sess'[s] # Unused
                      /\ sess'[s] # Unused /\ ~Held(s)' => sess[s] # Unused /\ ~Held(s)
    BY DEF Reachable, Kept, Lost
  <2>1. CASE s = r
    BY <1>3, <1>4, <1>5, <2>1, SessionsAssumption DEF Held
  <2>2. CASE s # r
    <3>1. Held(s) => sess[s] # Unused
      BY DEF IInv, Reachable
    <3>2. Held(s)' <=> Held(s)
      BY <1>5, <2>2, SessionsAssumption DEF Held
    <3> QED
      BY <1>3, <2>2, <3>1, <3>2
  <2> QED
    BY <2>1, <2>2
<1>12. Frame
  <2> SUFFICES ASSUME NEW s \in Runs, InPlay(s)'
               PROVE  InPlay(s) /\ sess'[s].address = sess[s].address
    BY DEF Frame
  <2>1. s # r
    BY <1>4, <1>5, SessionsAssumption DEF InPlay
  <2>2. \A d \in Callers : Starting(d)' /\ call'[d].run = s => Starting(d) /\ call[d].run = s
    BY <1>5, SessionsAssumption DEF Starting, Moved
  <2> HIDE DEF r
  <2> QED
    BY <1>3, <2>1, <2>2 DEF InPlay
<1>7. Apart'
  BY <1>5 DEF IInv, Apart
<1>8. EngineOpen'
  BY <1>3 DEF IInv, EngineOpen
<1>9. ASSUME NEW d \in Callers, d # c PROVE Placed(d)'
  <2>1. Placed(d) /\ call'[d] = call[d]
    BY <1>9 DEF IInv, Shaped, Moved
  <2>2. call[d].run # None <=> call[d].at \in InHand
    BY CallTypes DEF IInv, CallTypeOK
  <2>3. call[d].run \in Runs \cup {None} /\ call[d].run # r
    BY <1>1, <1>4, <1>9 DEF CallStates
  <2> HIDE DEF r
  <2> QED
    BY <1>3, <2>1, <2>2, <2>3 DEF Placed, At, InHand
<1>10. Shaped'
  <2>1. /\ tun' # None => sess'[tun'].shape = "tunnel" /\ sess'[tun'].serving
        /\ client' # None => sess'[client'].shape = "client" /\ sess'[client'].serving
    BY <1>3, <1>4 DEF IInv, AppTypeOK, Shaped
  <2>2. slot' # None => sess'[slot'].shape = "client"
    BY <1>3 DEF IInv, AppTypeOK, SessionsTypeOK, Shaped
  <2> QED
    BY <2>1, <2>2, <1>9 DEF Shaped
<1>11. OnePerAddress'
  BY <1>3 DEF IInv, OnePerAddress, Unused
<1> QED
  BY <1>3, <1>6, <1>7, <1>8, <1>10, <1>11, <1>12

\* IInv' from its parts.
LEMMA Assembled ==
    ASSUME IInv, NEW c \in Callers, Moved(c), call' \in [Callers -> CallStates],
           call'[c].run # None <=> call'[c].at \in InHand,
           sess' \in [Runs -> SessionStates], slot' \in Runs \cup {None},
           tun' \in Runs \cup {None}, client' \in Runs \cup {None},
           ProxyTypeOK', CfgTypeOK',
           Reachable', Apart', EngineOpen', Shaped', OnePerAddress'
    PROVE  IInv'
<1>1. CallTypeOK'
  BY CallTypes, CallTypePreserved DEF IInv
<1>2. SessionsTypeOK'
  BY DEF SessionsTypeOK
<1>3. AppTypeOK'
  BY <1>1, <1>2 DEF AppTypeOK, CallTypeOK, InHand, CfgTypeOK
<1> QED
  BY <1>3 DEF IInv

\* A step of a call that leaves the sessions alone.
LEMMA CallOnly ==
    ASSUME IInv, NEW c \in Callers, Moved(c), call' \in [Callers -> CallStates],
           call'[c].run = call[c].run, call'[c].run # None <=> call'[c].at \in InHand,
           call'[c].run # None /\ Starting(c)' => Starting(c),
           UNCHANGED <<sess, slot, tun, client>>, ProxyTypeOK', CfgTypeOK',
           Placed(c)'
    PROVE  IInv' /\ Kept /\ Frame
<1>1. slot' \in Runs \cup {None} /\ tun' \in Runs \cup {None} /\ client' \in Runs \cup {None}
  BY DEF IInv, AppTypeOK, SessionsTypeOK
<1>2. sess' \in [Runs -> SessionStates]
  BY DEF IInv, AppTypeOK, SessionsTypeOK
<1>3. Reachable' /\ Apart' /\ EngineOpen' /\ Shaped' /\ Kept /\ Frame
  BY <1>1, OwnersKept
<1>4. OnePerAddress'
  BY DEF IInv, OnePerAddress
<1> QED
  BY <1>1, <1>2, <1>3, <1>4, Assembled

\* A call that has no session in hand goes to a position that needs none.
LEMMA EmptyHanded ==
    ASSUME IInv, NEW c \in Callers, Moved(c), call' \in [Callers -> CallStates],
           call[c].at \notin InHand, call'[c].run = call[c].run,
           call'[c].at \notin InHand,
           UNCHANGED <<sess, slot, tun, client>>, ProxyTypeOK', CfgTypeOK'
    PROVE  IInv' /\ Kept /\ Frame
<1>1. Placed(c)'
  BY DEF Placed, At, InHand
<1>2. call'[c].run = None
  BY CallTypes DEF IInv, CallTypeOK
<1> QED
  BY <1>1, <1>2, CallOnly

LEMMA Shorthand ==
    IInv => /\ CallTypeOK /\ ProxyTypeOK /\ CfgTypeOK /\ shape \in Shapes
            /\ sess \in [Runs -> SessionStates] /\ slot \in Runs \cup {None}
            /\ tun \in Runs \cup {None} /\ client \in Runs \cup {None}
            /\ EngineOpen /\ SessionsTypeOK
BY CallTypes DEF IInv, AppTypeOK, SessionsTypeOK, CfgTypeOK

\* The actions that only move a call from one position without a session to
\* another.
LEMMA IdleMoves ==
    ASSUME IInv, NEW c \in Callers,
           \/ Start(c) \/ AutoRoute(c) \/ AutoRouteEnds(c) \/ BuildFails(c)
           \/ ProxyOn(c) \/ ProxyGet(c) \/ ProxySet(c) \/ ProxyRecord(c)
           \/ ProxyOff(c) \/ StopProxy(c) \/ ProxyRestore(c) \/ Scan(c) \/ ScanEnds(c)
           \/ Save(c)
    PROVE  IInv' /\ Kept /\ Frame
<1> USE DEF InHand, cfgVars, CfgTypeOK
<1>0. CallTypeOK /\ ProxyTypeOK /\ CfgTypeOK /\ windows \in Settings /\ proxyPrev \in Settings
  BY Shorthand DEF ProxyTypeOK
<1>00. call[c].at \notin InHand => call[c].run = None
  BY <1>0 DEF CallTypeOK
<1> USE <1>0, <1>00
<1>1. CASE Start(c)
  <2> PICK a \in {"auto", "build"} : call' = [call EXCEPT ![c].at = a, ![c].shape = shape]
    BY <1>1 DEF Start
  <2>1. /\ call' \in [Callers -> CallStates] /\ Moved(c)
        /\ call'[c].at = a /\ call'[c].run = call[c].run
    <3>1. a \in Positions
      BY DEF Positions
    <3> QED
      BY <3>1, ShapeMoves
  <2> QED
    BY <1>1, <2>1, EmptyHanded DEF Start, At, sessionVars, proxyVars, ProxyTypeOK
<1>2. CASE AutoRoute(c) \/ AutoRouteEnds(c)
  <2> PICK p \in {"auto scan", "build"} : Go(c, p)
    BY <1>2 DEF AutoRoute, AutoRouteEnds
  <2>1. p \in Positions
    BY DEF Positions
  <2> QED
    BY <1>2, <2>1, GoMoves, EmptyHanded
    DEF AutoRoute, AutoRouteEnds, At, sessionVars, proxyVars, ProxyTypeOK
<1>3. CASE BuildFails(c)
  BY <1>3, ReturnMoves, EmptyHanded DEF BuildFails, At, sessionVars, proxyVars, ProxyTypeOK
<1>4. CASE ProxyOn(c)
  BY <1>4, GoMoves, EmptyHanded DEF ProxyOn, At, sessionVars, proxyVars, ProxyTypeOK, Positions
<1>5. CASE ProxyGet(c)
  <2>1. CASE call' = [call EXCEPT ![c].at = "set", ![c].previous = windows]
    <3>1. /\ call' \in [Callers -> CallStates] /\ Moved(c)
          /\ call'[c].at = "set" /\ call'[c].run = call[c].run
      <4>1. "set" \in Positions
        BY DEF Positions
      <4> QED
        BY <2>1, <4>1, PreviousMoves
    <3> QED
      BY <1>5, <3>1, EmptyHanded DEF ProxyGet, At, sessionVars, proxyVars, ProxyTypeOK
  <2>2. CASE Return(c)
    BY <1>5, <2>2, ReturnMoves, EmptyHanded DEF ProxyGet, At, sessionVars, proxyVars, ProxyTypeOK
  <2> QED
    BY <1>5, <2>1, <2>2 DEF ProxyGet
<1>6. CASE ProxySet(c)
  <2>1. ProxyTypeOK'
    BY <1>6 DEF ProxySet, Set, proxyVars, ProxyTypeOK, Settings
  <2>2. CASE Go(c, "record")
    BY <1>6, <2>1, <2>2, GoMoves, EmptyHanded DEF ProxySet, At, sessionVars, Positions
  <2>3. CASE Return(c)
    BY <1>6, <2>1, <2>3, ReturnMoves, EmptyHanded DEF ProxySet, At, sessionVars
  <2> QED
    BY <1>6, <2>2, <2>3 DEF ProxySet
<1>7. CASE ProxyRecord(c)
  <2>1. call[c].previous \in Settings
    BY DEF CallTypeOK, CallStates
  <2>2. ProxyTypeOK'
    BY <1>7, <2>1 DEF ProxyRecord, Record, ProxyTypeOK
  <2> QED
    BY <1>7, <2>2, ReturnMoves, EmptyHanded DEF ProxyRecord, At, sessionVars
<1>8. ASSUME NEW then \in {"idle", "stop client"}, At(c, "idle"), ClearProxy(c, then)
      PROVE  IInv' /\ Kept /\ Frame
  <2>1. ProxyTypeOK'
    BY <1>8 DEF ClearProxy, TakeFlag, ProxyTypeOK
  <2>2. /\ call' \in [Callers -> CallStates] /\ Moved(c)
        /\ call'[c].at \in {"idle", "stop client", "restore"} /\ call'[c].run = call[c].run
    BY <1>8, ClearMoves
  <2> QED
    BY <1>8, <2>1, <2>2, EmptyHanded DEF ClearProxy, At, sessionVars
<1>9. CASE ProxyOff(c) \/ StopProxy(c)
  BY <1>8, <1>9 DEF ProxyOff, StopProxy
<1>10. CASE ProxyRestore(c)
  <2>1. call[c].previous \in Settings /\ call[c].then \in {"idle", "stop client"}
    BY DEF CallTypeOK, CallStates
  <2>2. ProxyTypeOK'
    BY <1>10, <2>1 DEF ProxyRestore, Set, ProxyTypeOK, proxyVars
  <2>3. CASE Return(c)
    BY <1>10, <2>2, <2>3, ReturnMoves, EmptyHanded DEF ProxyRestore, At, sessionVars
  <2>4. CASE Go(c, "stop client")
    BY <1>10, <2>2, <2>4, GoMoves, EmptyHanded DEF ProxyRestore, At, sessionVars, Positions
  <2> QED
    BY <1>10, <2>1, <2>3, <2>4 DEF ProxyRestore
<1>11. CASE Scan(c)
  <2> PICK p \in {"scanning", "probing"} : Go(c, p)
    BY <1>11 DEF Scan
  <2>1. p \in Positions
    BY DEF Positions
  <2> QED
    BY <1>11, <2>1, GoMoves, EmptyHanded DEF Scan, At, sessionVars, proxyVars, ProxyTypeOK
<1>12. CASE ScanEnds(c)
  BY <1>12, ReturnMoves, EmptyHanded DEF ScanEnds, At, sessionVars, proxyVars, ProxyTypeOK
<1>13. CASE Save(c)
  BY <1>13, EmptyHanded DEF Save, At, sessionVars, proxyVars, ProxyTypeOK, Moved, CallTypeOK
<1> QED
  BY <1>1, <1>2, <1>3, <1>4, <1>5, <1>6, <1>7, <1>9, <1>10, <1>11, <1>12, <1>13

\* What a call that has a session in hand knows of it.
LEMMA InHandFacts ==
    ASSUME IInv, NEW c \in Callers, call[c].at \in InHand
    PROVE  /\ call[c].run \in Runs /\ call[c].run # None
           /\ sess[call[c].run] # Unused
           /\ Placed(c)
<1>1. call[c].run \in Runs /\ call[c].run # None
  BY Shorthand, SessionsAssumption DEF CallTypeOK, CallStates
<1>2. sess[call[c].run] # Unused
  BY <1>1 DEF IInv, Reachable, Held
<1> QED
  BY <1>1, <1>2 DEF IInv, Shaped

\* The steps of a call that keeps the session that it has in hand.
LEMMA KeepingMoves ==
    ASSUME IInv, NEW c \in Callers,
           \/ InstallDialer(c) \/ ServerStarts(c) \/ ServerFails(c)
           \/ CloseCore(c) \/ CloseSlot(c) \/ Unlisten(c)
    PROVE  IInv' /\ Kept /\ Frame
<1> DEFINE r == call[c].run
<1>0. call[c].at \in InHand
  BY DEF InstallDialer, ServerStarts, ServerFails, CloseCore, CloseSlot, Unlisten, At, InHand
<1>1. /\ r \in Runs /\ r # None /\ sess[r] # Unused /\ Placed(c)
      /\ CallTypeOK /\ sess \in [Runs -> SessionStates] /\ EngineOpen /\ SessionsTypeOK
      /\ slot \in Runs \cup {None}
  BY <1>0, InHandFacts, Shorthand
<1>2. \E p \in {"serve", "publish", "abort", "close slot", "close engine", "drain"} : Go(c, p)
  BY DEF InstallDialer, ServerStarts, ServerFails, CloseCore, CloseSlot, Unlisten
<1> PICK p \in {"serve", "publish", "abort", "close slot", "close engine", "drain"} : Go(c, p)
  BY <1>2
<1>3. p \in Positions /\ p \in InHand
  BY DEF Positions, InHand
<1>4. /\ call' \in [Callers -> CallStates] /\ Moved(c)
      /\ call'[c].at = p /\ call'[c].run = r /\ call'[c].shape = call[c].shape
  BY <1>1, <1>3, GoMoves
<1>5. /\ tun' = tun /\ client' = client /\ cfgVars' = cfgVars /\ proxyVars' = proxyVars
  BY DEF InstallDialer, ServerStarts, ServerFails, CloseCore, CloseSlot, Unlisten
<1>6. ProxyTypeOK' /\ CfgTypeOK'
  BY <1>5, Shorthand DEF proxyVars, ProxyTypeOK, cfgVars, CfgTypeOK
<1>starts. Starting(c)' => Starting(c)
  <2>1. p \in {"serve", "publish", "abort"} => At(c, "install") \/ At(c, "serve")
    BY <1>1, GoMoves
    DEF InstallDialer, ServerStarts, ServerFails, CloseCore, CloseSlot, Unlisten, Positions
  <2> QED
    BY <1>4, <2>1 DEF Starting, At
<1>7. ASSUME slot' \in {slot, None}, Placed(c)', sess' \in [Runs -> SessionStates], OnePerAddress',
             \A s \in Runs : /\ sess'[s].shape = sess[s].shape
                             /\ sess'[s].address = sess[s].address
                             /\ sess[s] = Unused <=> sess'[s] = Unused
                             /\ sess'[s].engine = sess[s].engine
                             /\ s # r => sess'[s] = sess[s]
      PROVE  IInv' /\ Kept /\ Frame
  <2>1. slot' \in Runs \cup {None}
    BY <1>1, <1>7
  <2>5. Starting(c)' => Starting(c)
    BY <1>4, <1>starts
  <2>2. Reachable' /\ Apart' /\ EngineOpen' /\ Shaped' /\ Kept /\ Frame
    BY <1>4, <1>5, <1>7, <2>1, <2>5, OwnersKept
  <2>3. call'[c].run # None <=> call'[c].at \in InHand
    BY <1>1, <1>3, <1>4
  <2>4. tun' \in Runs \cup {None} /\ client' \in Runs \cup {None} /\ CfgTypeOK'
    BY <1>5, <1>6, Shorthand
  <2> QED
    BY <1>4, <1>6, <1>7, <2>1, <2>2, <2>3, <2>4, Assembled
<1>8. ASSUME slot' \in {slot, None}, Placed(c)', sess' = sess PROVE IInv' /\ Kept /\ Frame
  BY <1>1, <1>7, <1>8 DEF IInv, OnePerAddress
<1>9. ASSUME slot' \in {slot, None}, Placed(c)', NEW b \in BOOLEAN, ServingSet(r, b),
             b => PortsFree(r)
      PROVE  IInv' /\ Kept /\ Frame
  <2>1. OnePerAddress'
    <3>1. /\ sess'[r].serving = b /\ \A s \in Runs : s # r => sess'[s] = sess[s]
          /\ \A s \in Runs : sess'[s].shape = sess[s].shape /\ sess'[s].address = sess[s].address
      BY <1>1, <1>9, ServingKeeps
    <3>2. b => \A s \in Runs : sess[s].serving => \/ sess[s].shape # sess[r].shape
                                                \/ sess[s].address # sess[r].address
      BY <1>9 DEF PortsFree
    <3> QED
      BY <1>1, <3>1, <3>2, PortsKept DEF IInv
  <2> QED
    BY <1>1, <1>7, <1>9, <2>1, ServingKeeps
<1>goes. ASSUME NEW q \in Positions, Go(c, q) PROVE q = p
  BY <1>1, <1>4, <1>goes, GoMoves
<1> HIDE DEF r
<1>10. CASE InstallDialer(c)
  <2>1. At(c, "install") /\ sess[r].shape = call[c].shape /\ call[c].shape = "client" /\ slot # r
    BY <1>1, <1>10 DEF InstallDialer, Placed, At, r
  <2>2. CASE Install(r) /\ Go(c, "serve")
    <3>1. slot' = r /\ sess' = sess /\ p = "serve"
      BY <2>2, <1>goes DEF Install, Positions
    <3>2. \A d \in Callers : d # c => call[d].run # r
      BY <1>1 DEF IInv, Apart, r
    <3>3. \A d \in Callers : Placed(d)'
      <4> SUFFICES ASSUME NEW d \in Callers PROVE Placed(d)'
        OBVIOUS
      <4>1. CASE d = c
        BY <1>4, <2>1, <3>1, <4>1 DEF Placed, At
      <4>2. CASE d # c
        BY <1>4, <3>1, <3>2, <4>2 DEF IInv, Shaped, Placed, At, Moved
      <4> QED
        BY <4>1, <4>2
    <3>4. Shaped'
      BY <1>5, <2>1, <3>1, <3>3 DEF IInv, Shaped
    <3>5. \A d \in Callers : call'[d].run = call[d].run
      BY <1>4 DEF Moved, r
    <3>6. Reachable' /\ Apart' /\ EngineOpen' /\ OnePerAddress' /\ Kept
      BY <1>5, <3>1, <3>5
      DEF IInv, Reachable, Held, Apart, EngineOpen, OnePerAddress, Kept, Lost
    <3>10. \A d \in Callers : Starting(d)' => Starting(d)
      BY <1>4, <1>starts DEF Moved, Starting
    <3>11. Frame
      BY <1>5, <3>1, <3>5, <3>10 DEF Frame, InPlay
    <3>7. call'[c].run # None <=> call'[c].at \in InHand
      BY <1>1, <1>3, <1>4
    <3>8. tun' \in Runs \cup {None} /\ client' \in Runs \cup {None} /\ CfgTypeOK'
      BY <1>5, <1>6, Shorthand
    <3>9. sess' \in [Runs -> SessionStates] /\ slot' \in Runs \cup {None}
      BY <1>1, <3>1
    <3> QED
      BY <1>4, <1>6, <3>4, <3>6, <3>7, <3>8, <3>9, <3>11, Assembled
  <2>3. CASE Go(c, "abort") /\ UNCHANGED sessionVars
    <3>1. p = "abort"
      BY <2>3, <1>goes DEF Positions
    <3> QED
      BY <1>4, <1>8, <2>1, <2>3, <3>1 DEF sessionVars, Placed, At
  <2> QED
    BY <1>10, <2>2, <2>3 DEF InstallDialer, r
<1>11. CASE ServerStarts(c)
  <2>1. p = "publish"
    BY <1>11, <1>goes DEF ServerStarts, Positions
  <2>2. ServingSet(r, TRUE) /\ slot' = slot /\ PortsFree(r)
    BY <1>11 DEF ServerStarts, Serve, ServingSet, r
  <2>3. /\ sess[r].shape = call[c].shape /\ sess'[r].shape = sess[r].shape
        /\ sess'[r].serving
    BY <1>1, <1>11, <2>2, ServingKeeps DEF ServerStarts, Placed, At, r
  <2> QED
    BY <1>4, <1>9, <2>1, <2>2, <2>3 DEF Placed, At
<1>12. CASE ServerFails(c)
  <2>1. p = "abort"
    BY <1>12, <1>goes DEF ServerFails, Positions
  <2>2. sess' = sess /\ slot' = IF call[c].shape = "client" THEN None ELSE slot
    BY <1>12 DEF ServerFails, Restore, sessionVars
  <2>3. sess[r].shape = call[c].shape
    BY <1>1, <1>12 DEF ServerFails, Placed, At, r
  <2>4. slot' # r
    BY <1>1, <2>2, <2>3 DEF IInv, Shaped
  <2> QED
    BY <1>4, <1>8, <2>1, <2>2, <2>4 DEF Placed, At
<1>13. CASE CloseCore(c)
  <2>1. p = "close slot"
    BY <1>13, <1>goes DEF CloseCore, Positions
  <2>2. ServingSet(r, FALSE) /\ slot' = slot
    BY <1>13 DEF CloseCore, Unserve, ServingSet, r
  <2> QED
    BY <1>4, <1>9, <2>1, <2>2 DEF Placed, At
<1>14. CASE CloseSlot(c)
  <2>1. p = "close engine"
    BY <1>14, <1>goes DEF CloseSlot, Positions
  <2>2. sess' = sess /\ slot' = None
    BY <1>14 DEF CloseSlot, Restore
  <2> QED
    BY <1>1, <1>4, <1>8, <2>1, <2>2 DEF Placed, At
<1>15. CASE Unlisten(c)
  <2>1. p = "drain"
    BY <1>15, <1>goes DEF Unlisten, Positions
  <2>2. ServingSet(r, FALSE) /\ slot' = slot
    BY <1>15 DEF Unlisten, Unserve, ServingSet, r
  <2>3. sess[r].shape = "tunnel" /\ sess'[r].shape = sess[r].shape
    BY <1>1, <1>15, <2>2, ServingKeeps DEF Unlisten, Placed, At, r
  <2> QED
    BY <1>4, <1>9, <2>1, <2>2, <2>3 DEF Placed, At
<1> QED
  BY <1>10, <1>11, <1>12, <1>13, <1>14, <1>15

\* Building an engine, giving it to a.tun or a.client, taking it back, closing it.
LEMMA BuildMoves == ASSUME IInv, NEW c \in Callers, Build(c) PROVE IInv' /\ Kept /\ Frame
<1>1. PICK r \in Runs :
        /\ OpenEngine(r, call[c].shape, address)
        /\ call' = [call EXCEPT
                      ![c].at = IF call[c].shape = "client" THEN "install" ELSE "serve",
                      ![c].run = r]
  BY DEF Build
<1> DEFINE p == IF call[c].shape = "client" THEN "install" ELSE "serve"
<1> DEFINE new == [shape |-> call[c].shape, address |-> address, engine |-> TRUE, serving |-> FALSE]
<1>2. /\ CallTypeOK /\ sess \in [Runs -> SessionStates] /\ ProxyTypeOK /\ CfgTypeOK
      /\ tun \in Runs \cup {None} /\ client \in Runs \cup {None} /\ slot \in Runs \cup {None}
  BY Shorthand
<1>3. call[c].shape \in Shapes /\ call[c].run = None /\ r # None
  BY <1>2, SessionsAssumption DEF CallTypeOK, CallStates, Build, At, InHand
<1>4. /\ new \in SessionStates /\ new.engine /\ new.shape = call[c].shape /\ ~new.serving
      /\ new.address = address /\ new # Unused
  BY <1>2, <1>3 DEF Unused, SessionStates, CfgTypeOK
<1>5. /\ sess[r] = Unused /\ sess' = [sess EXCEPT ![r] = new] /\ slot' = slot
      /\ UNCHANGED <<proxyVars, tun, client, cfgVars>>
  BY <1>1 DEF OpenEngine, Build
<1> HIDE DEF new
<1>6. /\ sess' \in [Runs -> SessionStates] /\ sess'[r] = new
      /\ \A s \in Runs : s # r => sess'[s] = sess[s]
  BY <1>2, <1>4, <1>5
<1>7. p \in Positions /\ p \in {"install", "serve"}
  BY DEF Positions
<1>8. /\ call' \in [Callers -> CallStates] /\ Moved(c)
      /\ call'[c].at = p /\ call'[c].run = r /\ call'[c].shape = call[c].shape
  <2>1. call' = [call EXCEPT ![c].at = p, ![c].run = r]
    BY <1>1
  <2> HIDE DEF p
  <2> QED
    BY <1>2, <1>7, <2>1, RunMoves
<1>9. ~Held(r)
  BY <1>5 DEF IInv, Reachable
<1>10. \A d \in Callers : call'[d].run = IF d = c THEN r ELSE call[d].run
  BY <1>8 DEF Moved
<1>11. Reachable' /\ Kept
  <2> SUFFICES ASSUME NEW s \in Runs
               PROVE  /\ Held(s)' => sess'[s] # Unused
                      /\ sess'[s] # Unused /\ ~Held(s)' => sess[s] # Unused /\ ~Held(s)
    BY DEF Reachable, Kept, Lost
  <2>1. CASE s = r
    BY <1>4, <1>6, <1>10, <2>1 DEF Held
  <2>2. CASE s # r
    <3>1. Held(s) => sess[s] # Unused
      BY DEF IInv, Reachable
    <3>2. Held(s)' <=> Held(s)
      BY <1>3, <1>5, <1>10, <2>2, SessionsAssumption DEF Held
    <3> QED
      BY <1>6, <2>2, <3>1, <3>2
  <2> QED
    BY <2>1, <2>2
<1>21. Frame
  <2> SUFFICES ASSUME NEW s \in Runs, InPlay(s)', s # r
               PROVE  InPlay(s) /\ sess'[s].address = sess[s].address
    BY <1>4, <1>6 DEF Frame
  <2>1. \A d \in Callers : Starting(d)' /\ call'[d].run = s => Starting(d) /\ call[d].run = s
    BY <1>8, <1>10 DEF Starting, Moved
  <2> QED
    BY <1>5, <1>6, <2>1 DEF InPlay
<1>12. Apart'
  BY <1>5, <1>9, <1>10 DEF IInv, Apart, Held
<1>13. EngineOpen'
  BY <1>4, <1>6 DEF IInv, EngineOpen
<1>14. slot # r
  BY <1>5, <1>3 DEF IInv, Shaped, Unused
<1>15. \A d \in Callers : Placed(d)'
  <2> SUFFICES ASSUME NEW d \in Callers PROVE Placed(d)'
    OBVIOUS
  <2>1. CASE d = c
    BY <1>4, <1>5, <1>6, <1>7, <1>8, <1>14, <2>1 DEF Placed, At
  <2>2. CASE d # c
    <3>1. Placed(d) /\ call'[d] = call[d]
      BY <1>8, <2>2 DEF IInv, Shaped, Moved
    <3>2. call[d].run # None <=> call[d].at \in InHand
      BY <1>2 DEF CallTypeOK
    <3>3. call[d].run \in Runs \cup {None} /\ call[d].run # r
      BY <1>2, <1>9 DEF CallTypeOK, CallStates, Held
    <3> QED
      BY <1>5, <1>6, <3>1, <3>2, <3>3 DEF Placed, At, InHand
  <2> QED
    BY <2>1, <2>2
<1>16. Shaped'
  <2>1. tun # r /\ slot # r
    BY <1>9, <1>14 DEF Held
  <2>2. /\ tun' # None => sess'[tun'].shape = "tunnel" /\ sess'[tun'].serving
        /\ client' # None => sess'[client'].shape = "client" /\ sess'[client'].serving
    BY <1>2, <1>5, <1>6, <1>9 DEF IInv, Shaped, Held
  <2>3. slot' # None => sess'[slot'].shape = "client"
    BY <1>2, <1>5, <1>6, <2>1 DEF IInv, Shaped
  <2> QED
    BY <1>15, <2>2, <2>3 DEF Shaped
<1>17. call'[c].run # None <=> call'[c].at \in InHand
  BY <1>3, <1>7, <1>8 DEF InHand
<1>18. ProxyTypeOK' /\ CfgTypeOK'
  BY <1>2, <1>5 DEF ProxyTypeOK, proxyVars, CfgTypeOK, cfgVars
<1>19. /\ slot' \in Runs \cup {None} /\ tun' \in Runs \cup {None}
       /\ client' \in Runs \cup {None}
  BY <1>2, <1>5
<1>20. OnePerAddress'
  BY <1>4, <1>6 DEF IInv, OnePerAddress
<1> HIDE DEF p
<1> QED
  BY <1>6, <1>8, <1>11, <1>12, <1>13, <1>16, <1>17, <1>18, <1>19, <1>20, <1>21, Assembled

LEMMA CloseMoves ==
    ASSUME IInv, NEW c \in Callers, Abort(c) \/ CloseLast(c) \/ Drain(c)
    PROVE  IInv' /\ Kept /\ Frame
<1>1. call[c].at \in InHand /\ call[c].at \in {"abort", "close engine", "drain"}
  BY DEF Abort, CloseLast, Drain, At, InHand
<1>2. /\ call[c].run \in Runs /\ call[c].run # None /\ Placed(c)
      /\ CallTypeOK /\ ProxyTypeOK /\ CfgTypeOK
      /\ tun \in Runs \cup {None} /\ client \in Runs \cup {None} /\ slot \in Runs \cup {None}
  BY <1>1, InHandFacts, Shorthand
<1>3. slot # call[c].run
  BY <1>1, <1>2 DEF Placed, At, IInv, Shaped
<1>4. /\ call' \in [Callers -> CallStates] /\ Moved(c)
      /\ call'[c].run = None /\ call'[c].at \in {"idle", "stop tunnel"}
  <2>1. CASE Return(c)
    BY <1>2, <2>1, ReturnMoves
  <2>2. CASE Drop(c, "stop tunnel")
    <3>1. "stop tunnel" \in Positions
      BY DEF Positions
    <3> QED
      BY <1>2, <2>2, <3>1, RunMoves DEF Drop
  <2> QED
    BY <2>1, <2>2 DEF Abort, CloseLast, Drain
<1>5. /\ CloseEngine(call[c].run) /\ slot' = slot
      /\ UNCHANGED <<proxyVars, tun, client, cfgVars>>
  BY DEF Abort, CloseLast, Drain, CloseEngine
<1>6. Placed(c)'
  BY <1>4 DEF Placed, At
<1>7. /\ sess' \in [Runs -> SessionStates]
      /\ Reachable' /\ Apart' /\ EngineOpen' /\ Shaped' /\ OnePerAddress' /\ Kept /\ Frame
  BY <1>2, <1>3, <1>4, <1>5, <1>6, Released
<1>8. call'[c].run # None <=> call'[c].at \in InHand
  BY <1>4 DEF InHand
<1>9. ProxyTypeOK' /\ CfgTypeOK'
  BY <1>2, <1>5 DEF ProxyTypeOK, proxyVars, CfgTypeOK, cfgVars
<1>10. /\ slot' \in Runs \cup {None} /\ tun' \in Runs \cup {None}
       /\ client' \in Runs \cup {None}
  BY <1>2, <1>5
<1> QED
  BY <1>4, <1>7, <1>8, <1>9, <1>10, Assembled

LEMMA PublishMoves ==
    ASSUME IInv, NEW c \in Callers, Publish(c)
    PROVE  IInv' /\ (~Overwrites(c) => Kept) /\ Frame
<1> DEFINE r == call[c].run
<1>1. call[c].at \in InHand /\ At(c, "publish")
  BY DEF Publish, At, InHand
<1>2. /\ r \in Runs /\ r # None /\ Placed(c)
      /\ CallTypeOK /\ sess \in [Runs -> SessionStates] /\ ProxyTypeOK /\ CfgTypeOK
      /\ tun \in Runs \cup {None} /\ client \in Runs \cup {None} /\ slot \in Runs \cup {None}
  BY <1>1, InHandFacts, Shorthand
<1>3. sess[r].shape = call[c].shape /\ sess[r].serving
  BY <1>1, <1>2 DEF Placed, At
<1>4. /\ call' \in [Callers -> CallStates] /\ Moved(c)
      /\ call'[c].at = "idle" /\ call'[c].run = None
  BY <1>2, ReturnMoves DEF Publish
<1>5. /\ sess' = sess /\ slot' = slot /\ cfgVars' = cfgVars /\ UNCHANGED proxyVars
      /\ \/ client' = r /\ tun' = tun /\ call[c].shape = "client"
         \/ tun' = r /\ client' = client /\ call[c].shape = "tunnel"
  BY <1>2 DEF Publish, sessionVars, CallTypeOK, CallStates, Shapes
<1>6. r # tun /\ r # client /\ \A d \in Callers : d # c => call[d].run # r
  BY <1>2 DEF IInv, Apart
<1>18. sess[r] # Unused
  BY <1>2 DEF IInv, Reachable, Held
<1> HIDE DEF r
<1>8. \A d \in Callers : call'[d].run = IF d = c THEN None ELSE call[d].run
  BY <1>4 DEF Moved
<1>9. Reachable'
  <2> SUFFICES ASSUME NEW s \in Runs, Held(s)' PROVE s = r \/ Held(s)
    BY <1>5, <1>18 DEF IInv, Reachable
  <2> QED
    BY <1>5, <1>8, SessionsAssumption DEF Held
<1>7. ASSUME ~Overwrites(c) PROVE Kept
  <2>1. /\ call[c].shape = "client" => client = None
        /\ call[c].shape = "tunnel" => tun = None
    BY <1>1, <1>7 DEF Overwrites
  <2> SUFFICES ASSUME NEW s \in Runs PROVE Held(s) => Held(s)'
    BY <1>5 DEF Kept, Lost
  <2> QED
    BY <1>5, <1>8, <2>1, SessionsAssumption DEF Held, r
<1>17. Frame
  <2> SUFFICES ASSUME NEW s \in Runs, InPlay(s)' PROVE InPlay(s)
    BY <1>5 DEF Frame
  <2>1. Starting(c) /\ call[c].run = r
    BY <1>1 DEF Starting, At, r
  <2>2. \A d \in Callers : Starting(d)' /\ call'[d].run = s => Starting(d) /\ call[d].run = s
    BY <1>4, <1>8, SessionsAssumption DEF Starting, Moved
  <2> QED
    BY <1>5, <2>1, <2>2 DEF InPlay
<1>10. Apart'
  BY <1>2, <1>5, <1>6, <1>8 DEF IInv, Apart
<1>11. EngineOpen' /\ OnePerAddress'
  BY <1>5 DEF IInv, EngineOpen, OnePerAddress
<1>12. \A d \in Callers : Placed(d)'
  <2>1. Placed(c)'
    BY <1>4 DEF Placed, At
  <2>2. ASSUME NEW d \in Callers, d # c PROVE Placed(d)'
    <3>1. Placed(d) /\ call'[d] = call[d]
      BY <1>4, <2>2 DEF IInv, Shaped, Moved
    <3> QED
      BY <1>5, <3>1 DEF Placed, At
  <2> QED
    BY <2>1, <2>2
<1>13. Shaped'
  BY <1>3, <1>5, <1>12 DEF IInv, Shaped
<1>14. call'[c].run # None <=> call'[c].at \in InHand
  BY <1>4 DEF InHand
<1>15. ProxyTypeOK' /\ CfgTypeOK'
  BY <1>2, <1>5 DEF ProxyTypeOK, proxyVars, CfgTypeOK, cfgVars
<1>16. /\ slot' \in Runs \cup {None} /\ tun' \in Runs \cup {None}
       /\ client' \in Runs \cup {None}
       /\ sess' \in [Runs -> SessionStates]
  BY <1>2, <1>5
<1> QED
  BY <1>4, <1>7, <1>9, <1>17, <1>10, <1>11, <1>13, <1>14, <1>15, <1>16, Assembled

\* Stop takes a.client or a.tun, or finds none.
LEMMA TakeMoves ==
    ASSUME IInv, NEW c \in Callers, StopClient(c) \/ StopTunnel(c)
    PROVE  IInv' /\ Kept /\ Frame
<1>1. /\ CallTypeOK /\ sess \in [Runs -> SessionStates] /\ ProxyTypeOK /\ CfgTypeOK
      /\ tun \in Runs \cup {None} /\ client \in Runs \cup {None} /\ slot \in Runs \cup {None}
  BY Shorthand
<1>2. call[c].at \notin InHand /\ call[c].run = None
  BY <1>1 DEF StopClient, StopTunnel, At, InHand, CallTypeOK
<1>3. /\ sess' = sess /\ slot' = slot /\ cfgVars' = cfgVars /\ UNCHANGED proxyVars
  BY DEF StopClient, StopTunnel, sessionVars
<1>4. ProxyTypeOK' /\ CfgTypeOK'
  BY <1>1, <1>3 DEF ProxyTypeOK, proxyVars, CfgTypeOK, cfgVars
<1>5. CASE StopClient(c) /\ client = None
  <2>1. Go(c, "stop tunnel") /\ tun' = tun /\ client' = client /\ "stop tunnel" \in Positions
    BY <1>5 DEF StopClient, Positions
  <2>2. /\ call' \in [Callers -> CallStates] /\ Moved(c)
        /\ call'[c].at \notin InHand /\ call'[c].run = call[c].run
    BY <1>1, <2>1, GoMoves DEF InHand
  <2> QED
    BY <1>1, <1>2, <1>3, <1>4, <2>1, <2>2, EmptyHanded
<1>6. CASE StopTunnel(c) /\ tun = None
  <2>1. Return(c) /\ tun' = tun /\ client' = client
    BY <1>6 DEF StopTunnel
  <2>2. /\ call' \in [Callers -> CallStates] /\ Moved(c)
        /\ call'[c].at \notin InHand /\ call'[c].run = call[c].run
    BY <1>1, <1>2, <2>1, ReturnMoves DEF InHand
  <2> QED
    BY <1>1, <1>2, <1>3, <1>4, <2>1, <2>2, EmptyHanded
<1>7. ASSUME NEW r \in Runs, NEW p \in {"close core", "unlisten"},
             call' = [call EXCEPT ![c].at = p, ![c].run = r],
             \/ r = client /\ client' = None /\ tun' = tun /\ p = "close core"
             \/ r = tun /\ tun' = None /\ client' = client /\ p = "unlisten"
      PROVE  IInv' /\ Kept /\ Frame
  <2>0. p \in Positions /\ p \in InHand /\ r # None
    BY SessionsAssumption DEF Positions, InHand
  <2>1. /\ call' \in [Callers -> CallStates] /\ Moved(c)
        /\ call'[c].at = p /\ call'[c].run = r /\ call'[c].shape = call[c].shape
    BY <1>1, <1>7, <2>0, RunMoves
  <2>2. \A d \in Callers : call'[d].run = IF d = c THEN r ELSE call[d].run
    BY <2>1 DEF Moved
  <2>3. Reachable' /\ Kept
    <3>1. ASSUME NEW s \in Runs PROVE Held(s)' <=> Held(s)
      BY <1>2, <1>7, <2>2, SessionsAssumption DEF Held
    <3> QED
      BY <1>3, <3>1 DEF IInv, Reachable, Kept, Lost
  <2>11. Frame
    <3>1. ~Starting(c)'
      BY <2>1 DEF Starting
    <3>2. ASSUME NEW s \in Runs, InPlay(s)' PROVE InPlay(s)
      BY <1>7, <2>1, <3>1, <3>2, SessionsAssumption DEF InPlay, Starting, Moved
    <3> QED
      BY <1>3, <3>2 DEF Frame
  <2>4. Apart'
    <3>1. Apart
      BY DEF IInv
    <3>2. tun' # r /\ client' # r /\ tun' \in {tun, None} /\ client' \in {client, None}
      <4>1. CASE r = client /\ client' = None /\ tun' = tun
        BY <2>0, <3>1, <4>1 DEF Apart
      <4>2. CASE r = tun /\ tun' = None /\ client' = client
        BY <2>0, <3>1, <4>2 DEF Apart
      <4> QED
        BY <1>7, <4>1, <4>2
    <3>3. \A d \in Callers : call[d].run # None => call[d].run # r
      BY <1>7, <3>1 DEF Apart
    <3>4. tun' # None => tun' # client'
      BY <3>1, <3>2 DEF Apart
    <3>5. \A d \in Callers : call'[d].run # None => call'[d].run # tun' /\ call'[d].run # client'
      BY <2>2, <3>1, <3>2 DEF Apart
    <3>6. \A d, e \in Callers : d # e /\ call'[d].run # None => call'[d].run # call'[e].run
      BY <1>2, <2>2, <3>1, <3>3 DEF Apart
    <3> QED
      BY <3>4, <3>5, <3>6 DEF Apart
  <2>5. EngineOpen' /\ OnePerAddress'
    BY <1>3 DEF IInv, EngineOpen, OnePerAddress
  <2>6. Placed(c)'
    <3>1. p = "unlisten" => sess[r].shape = "tunnel"
      BY <1>7, <2>0 DEF IInv, Shaped
    <3> QED
      BY <1>3, <2>1, <3>1 DEF Placed, At
  <2>7. ASSUME NEW d \in Callers, d # c PROVE Placed(d)'
    <3>1. Placed(d) /\ call'[d] = call[d]
      BY <2>1, <2>7 DEF IInv, Shaped, Moved
    <3> QED
      BY <1>3, <3>1 DEF Placed, At
  <2>8. Shaped'
    BY <1>3, <1>7, <2>6, <2>7 DEF IInv, Shaped
  <2>9. call'[c].run # None <=> call'[c].at \in InHand
    BY <2>0, <2>1
  <2>10. /\ slot' \in Runs \cup {None} /\ tun' \in Runs \cup {None}
         /\ client' \in Runs \cup {None}
         /\ sess' \in [Runs -> SessionStates]
    BY <1>1, <1>3, <1>7
  <2> QED
    BY <1>4, <2>1, <2>3, <2>4, <2>5, <2>8, <2>9, <2>10, <2>11, Assembled
<1>8. CASE StopClient(c) /\ client # None
  BY <1>1, <1>7, <1>8 DEF StopClient
<1>9. CASE StopTunnel(c) /\ tun # None
  BY <1>1, <1>7, <1>9 DEF StopTunnel
<1> QED
  BY <1>5, <1>6, <1>8, <1>9

LEMMA StepPreserves ==
    ASSUME IInv, NEW c \in Callers, Begins(c) \/ Continues(c)
    PROVE  IInv' /\ (~Overwrites(c) => Kept) /\ Frame
<1> USE DEF Begins, Continues
<1> QED
  BY IdleMoves, KeepingMoves, BuildMoves, CloseMoves, PublishMoves, TakeMoves

LEMMA StutterPreserves == IInv /\ UNCHANGED vars => IInv'
<1> SUFFICES ASSUME IInv, UNCHANGED vars PROVE IInv'
  OBVIOUS
<1> USE DEF vars, appVars, sessionVars, proxyVars, cfgVars, IInv
<1>1. AppTypeOK'
  BY DEF AppTypeOK, SessionsTypeOK, ProxyTypeOK, At
<1>2. Reachable' /\ Apart' /\ EngineOpen' /\ OnePerAddress'
  BY DEF Reachable, Held, Apart, EngineOpen, OnePerAddress
<1>3. Shaped'
  BY DEF Shaped, Placed, At
<1> QED
  BY <1>1, <1>2, <1>3

LEMMA InitEstablishes == Init => IInv
<1> SUFFICES ASSUME Init PROVE IInv
  OBVIOUS
<1> USE DEF Init, SessionsInit, ProxyInit
<1>1. Returned \in CallStates /\ Unused \in SessionStates
  BY DEF Returned, CallStates, Positions, Shapes, Settings, Unused, SessionStates
<1>2. \A c \in Callers : call[c].at = "idle" /\ call[c].run = None
  BY DEF Returned
<1>3. AppTypeOK
  BY <1>1, <1>2 DEF AppTypeOK, SessionsTypeOK, ProxyTypeOK, Settings
<1>4. Reachable /\ Apart /\ EngineOpen
  BY <1>2, SessionsAssumption DEF Reachable, Held, Apart, EngineOpen
<1>5. Shaped
  BY <1>2 DEF Shaped, Placed, At
<1>6. OnePerAddress
  BY DEF OnePerAddress, Unused
<1> QED
  BY <1>3, <1>4, <1>5, <1>6 DEF IInv

LEMMA AlwaysIInv == Spec => []IInv
<1>1. IInv /\ [Next]_vars => IInv'
  BY StepPreserves, StutterPreserves DEF Next
<1> QED
  BY <1>1, InitEstablishes, PTL DEF Spec

LEMMA IInvImplies == IInv => AppTypeOK /\ EngineOutlivesUse
BY SessionsAssumption DEF IInv, EngineOutlivesUse, EngineOpen, Shaped, Unused

\* As long as the ports have not moved under a call of Start, the second of two
\* finds them taken.
LEMMA NoOverwriting ==
    ASSUME IInv, Settled, NEW c \in Callers PROVE ~Overwrites(c)
<1> DEFINE r == call[c].run
           f == IF call[c].shape = "client" THEN client ELSE tun
<1> SUFFICES ASSUME Overwrites(c) PROVE FALSE
  OBVIOUS
<1>1. At(c, "publish") /\ call[c].at \in InHand /\ Starting(c) /\ f # None
  BY DEF Overwrites, At, InHand, Starting
<1>2. /\ r \in Runs /\ r # None /\ Placed(c) /\ call[c].shape \in Shapes
      /\ tun \in Runs \cup {None} /\ client \in Runs \cup {None}
  BY <1>1, InHandFacts, Shorthand DEF CallTypeOK, CallStates
<1>3. f \in Runs /\ f # r
  BY <1>1, <1>2 DEF IInv, Apart
<1>4. sess[f].serving /\ sess[r].serving /\ sess[f].shape = sess[r].shape
  BY <1>1, <1>2 DEF IInv, Shaped, Placed, At, Shapes
<1>5. sess[f].address = address /\ sess[r].address = address
  <2>1. InPlay(f) /\ InPlay(r)
    BY <1>1 DEF InPlay
  <2> HIDE DEF f, r
  <2> QED
    BY <1>1, <1>2, <1>3, <2>1 DEF Settled
<1> QED
  BY <1>2, <1>3, <1>4, <1>5 DEF IInv, OnePerAddress

LEMMA SaveOrNot ==
    ASSUME IInv, NEW c \in Callers, Begins(c) \/ Continues(c), ~Save(c)
    PROVE  UNCHANGED <<address, moved>>
BY DEF Begins, Continues, Start, ProxyOn, ProxyOff, StopProxy, ClearProxy, Scan,
       AutoRoute, AutoRouteEnds, Build, BuildFails, InstallDialer, ServerStarts,
       ServerFails, Abort, Publish, ProxyGet, ProxySet, ProxyRecord, ProxyRestore,
       StopClient, CloseCore, CloseSlot, CloseLast, StopTunnel, Unlisten, Drain, ScanEnds,
       cfgVars

\* Only Start enters Start.
LEMMA StartsBy ==
    ASSUME IInv, NEW c \in Callers, Begins(c) \/ Continues(c), Starting(c)'
    PROVE  Starting(c) \/ Start(c)
<1> DEFINE Elsewhere == Positions \ {"auto", "auto scan", "build", "install", "serve", "publish"}
<1>1. CallTypeOK /\ ProxyTypeOK /\ call[c].then \in {"idle", "stop client"}
  BY Shorthand DEF CallTypeOK, CallStates
<1>2. ASSUME NEW p \in Elsewhere, Go(c, p) PROVE FALSE
  BY <1>1, <1>2, GoMoves DEF Starting
<1>3. ASSUME Return(c) PROVE FALSE
  BY <1>1, <1>3, ReturnMoves DEF Starting
<1>4. {"idle", "get", "set", "record", "restore", "scanning", "probing", "stop client",
       "close core", "close slot", "close engine", "stop tunnel", "unlisten", "drain"}
         \subseteq Elsewhere
  BY DEF Positions
<1> HIDE DEF Elsewhere
<1>5. CASE ProxyOn(c)
  BY <1>2, <1>4, <1>5 DEF ProxyOn
<1>6. CASE Scan(c)
  BY <1>2, <1>4, <1>6 DEF Scan
<1>7. CASE CloseCore(c) \/ CloseSlot(c) \/ Unlisten(c)
  BY <1>2, <1>4, <1>7 DEF CloseCore, CloseSlot, Unlisten
<1>8. CASE Abort(c) \/ Publish(c) \/ BuildFails(c) \/ Drain(c) \/ ScanEnds(c)
  BY <1>3, <1>8 DEF Abort, Publish, BuildFails, Drain, ScanEnds
<1>9. CASE ProxyGet(c)
  <2>1. CASE call' = [call EXCEPT ![c].at = "set", ![c].previous = windows]
    <3>1. windows \in Settings /\ "set" \in Positions
      BY <1>1 DEF ProxyTypeOK, Positions
    <3>2. call'[c].at = "set"
      BY <1>1, <2>1, <3>1, PreviousMoves
    <3> QED
      BY <3>2 DEF Starting
  <2> QED
    BY <1>3, <1>9, <2>1 DEF ProxyGet
<1>10. CASE ProxySet(c) \/ ProxyRecord(c)
  BY <1>2, <1>3, <1>4, <1>10 DEF ProxySet, ProxyRecord
<1>11. CASE ProxyRestore(c)
  BY <1>1, <1>2, <1>3, <1>4, <1>11 DEF ProxyRestore
<1>12. CASE ProxyOff(c) \/ StopProxy(c)
  <2> PICK t \in {"idle", "stop client"} : ClearProxy(c, t)
    BY <1>12 DEF ProxyOff, StopProxy
  <2>1. call'[c].at \in {"restore", "idle", "stop client"}
    BY <1>1, ClearMoves
  <2> QED
    BY <2>1 DEF Starting
<1>13. CASE StopClient(c)
  <2>1. CASE client = None
    BY <1>2, <1>4, <1>13, <2>1 DEF StopClient
  <2>2. CASE client # None
    <3>1. client \in Runs /\ "close core" \in Positions
      BY <2>2, Shorthand DEF Positions
    <3> QED
      BY <1>1, <1>13, <2>2, <3>1, RunMoves DEF StopClient, Starting
  <2> QED
    BY <2>1, <2>2
<1>14. CASE CloseLast(c)
  <2>1. "stop tunnel" \in Positions
    BY DEF Positions
  <2>2. call' = [call EXCEPT ![c].at = "stop tunnel", ![c].run = None]
    BY <1>14 DEF CloseLast, Drop
  <2>3. call'[c].at = "stop tunnel"
    BY <1>1, <2>1, <2>2, RunMoves
  <2> QED
    BY <2>3 DEF Starting
<1>15. CASE StopTunnel(c)
  <2>1. CASE tun = None
    BY <1>3, <1>15, <2>1 DEF StopTunnel
  <2>2. CASE tun # None
    <3>1. tun \in Runs /\ "unlisten" \in Positions
      BY <2>2, Shorthand DEF Positions
    <3> QED
      BY <1>1, <1>15, <2>2, <3>1, RunMoves DEF StopTunnel, Starting
  <2> QED
    BY <2>1, <2>2
<1>16. CASE Save(c)
  BY <1>16 DEF Starting, Save
<1>17. CASE \/ AutoRoute(c) \/ AutoRouteEnds(c) \/ Build(c) \/ InstallDialer(c)
            \/ ServerStarts(c) \/ ServerFails(c)
  BY <1>17
  DEF Starting, At, AutoRoute, AutoRouteEnds, Build, InstallDialer, ServerStarts, ServerFails
<1> QED
  BY <1>5, <1>6, <1>7, <1>8, <1>9, <1>10, <1>11, <1>12, <1>13, <1>14, <1>15, <1>16, <1>17
  DEF Begins, Continues

LEMMA UnmovedPreserved == IInv /\ Unmoved /\ [Next]_vars => Unmoved'
<1> SUFFICES ASSUME IInv, Unmoved, [Next]_vars PROVE Unmoved'
  OBVIOUS
<1>1. CASE UNCHANGED vars
  BY <1>1
  DEF Unmoved, Lost, Held, Settled, InPlay, Starting, vars, appVars, sessionVars, cfgVars
<1>2. ASSUME NEW c \in Callers, Begins(c) \/ Continues(c) PROVE Unmoved'
  <2> SUFFICES ASSUME ~moved' PROVE Lost' = {} /\ Settled'
    BY DEF Unmoved
  <2>1. ~moved /\ Lost = {} /\ Settled
    BY <1>2, SaveOrNot DEF Save, Unmoved
  <2>2. Lost' = {} /\ Frame
    BY <1>2, <2>1, NoOverwriting, StepPreserves DEF Kept
  <2>3. Moved(c)
    <3>1. call \in [Callers -> CallStates]
      BY Shorthand DEF CallTypeOK
    <3> QED
      BY <1>2, <3>1
      DEF Moved, Begins, Continues, Start, ProxyOn, ProxyOff, StopProxy, ClearProxy, Scan, Save,
          AutoRoute, AutoRouteEnds, Build, BuildFails, InstallDialer, ServerStarts,
          ServerFails, Abort, Publish, ProxyGet, ProxySet, ProxyRecord, ProxyRestore,
          StopClient, CloseCore, CloseSlot, CloseLast, StopTunnel, Unlisten, Drain, ScanEnds,
          Go, Return, Drop
  <2>4. CASE address' # address
    <3>1. call' = call /\ \A d \in Callers : ~Starting(d)
      BY <1>2, <2>4, SaveOrNot DEF Save
    <3> QED
      BY <2>2, <3>1 DEF Settled, Starting
  <2>5. CASE Start(c) /\ address' = address
    <3> SUFFICES ASSUME NEW r \in Runs, InPlay(r)' PROVE sess'[r].address = address
      BY <2>2, <2>5 DEF Settled
    <3>1. CASE sess'[r].address = address
      BY <3>1
    <3>2. CASE InPlay(r) /\ sess'[r].address = sess[r].address
      <4>1. tun # r /\ client # r
        BY <2>5, SessionsAssumption DEF Start
      <4>2. \E d \in Callers : Starting(d)
        BY <3>2, <4>1 DEF InPlay
      <4> QED
        BY <2>1, <3>2, <4>2 DEF Settled
    <3> QED
      BY <2>2, <3>1, <3>2 DEF Frame
  <2>6. CASE ~Start(c) /\ address' = address
    <3> SUFFICES ASSUME NEW d \in Callers, Starting(d)', NEW r \in Runs, InPlay(r)'
                 PROVE  sess'[r].address = address
      BY <2>2, <2>6 DEF Settled
    <3>1. Starting(d)
      <4>1. CASE d = c
        BY <1>2, <2>6, <4>1, StartsBy
      <4>2. CASE d # c
        BY <2>3, <4>2 DEF Moved, Starting
      <4> QED
        BY <4>1, <4>2
    <3> QED
      BY <2>1, <2>2, <3>1 DEF Frame, Settled
  <2> QED
    BY <2>4, <2>5, <2>6
<1> QED
  BY <1>1, <1>2 DEF Next

LEMMA UnmovedInit == Init => Unmoved
<1> SUFFICES ASSUME Init PROVE Lost = {} /\ Settled
  BY DEF Unmoved
<1>1. Lost = {}
  BY DEF Init, SessionsInit, Lost
<1>2. \A c \in Callers : ~Starting(c)
  BY DEF Init, Starting, Returned
<1> QED
  BY <1>1, <1>2 DEF Settled

LEMMA OneOwnerFrom == IInv /\ Unmoved => OneOwner
<1> SUFFICES ASSUME IInv, Unmoved, ~moved, NEW r \in Runs PROVE Owned(r)
  BY DEF OneOwner
<1>1. r # None /\ Apart /\ (sess[r] # Unused <=> Held(r))
  BY SessionsAssumption DEF IInv, Reachable, Unmoved, Lost
<1>2. CASE sess[r] = Unused
  <2>1. References(r) = {}
    BY <1>1, <1>2 DEF References, Held
  <2> QED
    BY <1>2, <2>1, FS_EmptySet DEF Owned
<1>3. CASE sess[r] # Unused
  <2>1. \E x : References(r) = {x}
    <3>1. CASE tun = r
      <4>1. References(r) = {<<"tun", tun>>}
        BY <1>1, <3>1 DEF References, Apart
      <4> QED
        BY <4>1
    <3>2. CASE client = r
      <4>1. References(r) = {<<"client", client>>}
        BY <1>1, <3>2 DEF References, Apart
      <4> QED
        BY <4>1
    <3>3. CASE \E c \in Callers : call[c].run = r
      <4> PICK c \in Callers : call[c].run = r
        BY <3>3
      <4>1. References(r) = {c}
        BY <1>1 DEF References, Apart
      <4> QED
        BY <4>1
    <3> QED
      BY <1>1, <1>3, <3>1, <3>2, <3>3 DEF Held
  <2> QED
    BY <1>3, <2>1, FS_Singleton DEF Owned
<1> QED
  BY <1>2, <1>3

\* Types, and a session in hand exactly at the positions of the code that use one.
THEOREM TypeCorrect == Spec => []TypeOK
<1>1. Init => crossed \in BOOLEAN /\ tangled \in BOOLEAN
  BY DEF Init
<1>2. [Next]_vars => crossed' \in BOOLEAN \/ crossed' = crossed
  BY DEF Next, vars, overlapVars
<1>3. [Next]_vars => tangled' \in BOOLEAN \/ tangled' = tangled
  BY DEF Next, vars, overlapVars
<1>4. crossed \in BOOLEAN /\ tangled \in BOOLEAN /\ [Next]_vars
        => (crossed \in BOOLEAN /\ tangled \in BOOLEAN)'
  BY <1>2, <1>3
<1>5. IInv /\ crossed \in BOOLEAN /\ tangled \in BOOLEAN => TypeOK
  BY IInvImplies DEF TypeOK
<1> QED
  BY <1>1, <1>4, <1>5, AlwaysIInv, PTL DEF Spec

\* Every open engine belongs to exactly one of a.tun, a.client and a call that
\* will publish or close it, however the calls overlap, as long as no save moves
\* the ports while one of Start is under way.
THEOREM OneOwnerCorrect == Spec => []OneOwner
BY AlwaysIInv, UnmovedInit, UnmovedPreserved, OneOwnerFrom, PTL DEF Spec

\* Tunnel.Stop and client.close close the engine after what dials through it.
THEOREM EngineOutlivesUseCorrect == Spec => []EngineOutlivesUse
BY AlwaysIInv, IInvImplies, PTL

-----------------------------------------------------------------------------
(* Calls that do not overlap: the dialer slot and the engines.             *)

Busy == InHand \cup {"auto", "auto scan", "build"}

\* Of calls that do not overlap.
InTurn ==
    /\ \A c \in Callers :
         /\ call[c].at \in Busy => tun = None /\ client = None
         /\ At(c, "stop tunnel") => client = None
         /\ call[c].at \in {"serve", "publish"} /\ call[c].shape = "client" => slot = call[c].run
    /\ client # None => slot = client
    /\ tun = None \/ client = None
    /\ Lost = {}

LEMMA AtMostOne ==
    ASSUME NEW S, IsFiniteSet(S), Cardinality(S) <= 1, NEW c \in S, NEW d \in S
    PROVE  c = d
<1> SUFFICES ASSUME c # d PROVE FALSE
  OBVIOUS
<1>1. {c, d} \subseteq S
  OBVIOUS
<1>2. Cardinality({c}) = 1 /\ IsFiniteSet({c})
  BY FS_Singleton
<1>3. Cardinality({c} \cup {d}) = 2
  <2>1. d \notin {c}
    OBVIOUS
  <2>2. Cardinality({c} \cup {d}) = Cardinality({c}) + 1
    BY <1>2, <2>1, FS_AddElement, Zenon
  <2> QED
    BY <1>2, <2>2
<1>4. Cardinality({c} \cup {d}) <= Cardinality(S)
  BY <1>1, FS_Subset
<1>5. Cardinality(S) \in Nat
  BY FS_CardinalityType
<1>6. 2 <= Cardinality(S)
  BY <1>3, <1>4
<1> QED
  BY <1>5, <1>6

LEMMA OneBusyCall ==
    ASSUME NEW f, Cardinality({e \in Callers : f[e].at # "idle"}) <= 1,
           NEW c \in Callers, NEW d \in Callers, f[c].at # "idle", f[d].at # "idle"
    PROVE  c = d
<1> DEFINE S == {e \in Callers : f[e].at # "idle"}
<1>1. IsFiniteSet(S)
  BY CallersAssumption, FS_Subset
<1>2. c \in S /\ d \in S /\ Cardinality(S) <= 1
  OBVIOUS
<1> HIDE DEF S
<1> QED
  BY <1>1, <1>2, AtMostOne

\* What is left to show of InTurn': the call that moved, and the sessions.
LEMMA InTurnFrom ==
    ASSUME InTurn, NEW c \in Callers, Moved(c),
           \A d \in Callers : d # c => call[d].at = "idle",
           call'[c].at \in Busy => tun' = None /\ client' = None,
           call'[c].at = "stop tunnel" => client' = None,
           call'[c].at \in {"serve", "publish"} /\ call'[c].shape = "client"
               => slot' = call'[c].run,
           client' # None => slot' = client',
           tun' = None \/ client' = None, Lost' = {}
    PROVE  InTurn'
<1> SUFFICES ASSUME NEW d \in Callers
             PROVE  /\ call'[d].at \in Busy => tun' = None /\ client' = None
                    /\ call'[d].at = "stop tunnel" => client' = None
                    /\ call'[d].at \in {"serve", "publish"} /\ call'[d].shape = "client"
                           => slot' = call'[d].run
  BY DEF InTurn, At
<1>1. CASE d = c
  BY <1>1
<1>2. CASE d # c
  <2>1. call'[d].at = "idle"
    BY <1>2 DEF Moved
  <2> QED
    BY <2>1 DEF Busy, InHand
<1> QED
  BY <1>1, <1>2

LEMMA InTurnStep ==
    ASSUME IInv, InTurn, NEW c \in Callers, Begins(c) \/ Continues(c),
           \A d \in Callers : d # c => call[d].at = "idle"
    PROVE  InTurn'
<1>1. /\ CallTypeOK /\ shape \in Shapes
      /\ tun \in Runs \cup {None} /\ client \in Runs \cup {None}
  BY Shorthand
<1>2. ASSUME NEW p \in Positions, Go(c, p)
      PROVE  /\ Moved(c) /\ call'[c].at = p
             /\ call'[c].run = call[c].run /\ call'[c].shape = call[c].shape
  BY <1>1, <1>2, GoMoves
<1>3. Return(c) => Moved(c) /\ call'[c].at = "idle"
  BY <1>1, ReturnMoves
<1>4. /\ call[c].at \in Busy => tun = None /\ client = None
      /\ call[c].at = "stop tunnel" => client = None
      /\ call[c].at \in {"serve", "publish"} /\ call[c].shape = "client" => slot = call[c].run
      /\ client # None => slot = client
      /\ tun = None \/ client = None
  BY DEF InTurn, At
<1>lost. Lost' = {}
  <2>1. ~Overwrites(c)
    BY DEF Overwrites, InTurn, At, Busy, InHand
  <2> QED
    BY <2>1, StepPreserves DEF InTurn, Kept
<1> USE DEF At, Busy, InHand, sessionVars, proxyVars
\* What changes neither a.tun, a.client nor the slot and does not begin anything.
<1>5. ASSUME UNCHANGED <<tun, client, slot>>, Moved(c),
             call'[c].at \in Busy => call[c].at \in Busy,
             call'[c].at # "stop tunnel",
             call'[c].at \notin {"serve", "publish"}
      PROVE  InTurn'
  BY <1>4, <1>5, <1>lost, InTurnFrom
<1>6. CASE Start(c)
  <2> PICK a \in {"auto", "build"} : call' = [call EXCEPT ![c].at = a, ![c].shape = shape]
    BY <1>6 DEF Start
  <2>1. a \in Positions
    BY DEF Positions
  <2>2. Moved(c) /\ call'[c].at = a
    BY <1>1, <2>1, ShapeMoves
  <2> QED
    BY <1>6, <2>2, <1>lost, InTurnFrom DEF Start
<1>7. CASE AutoRoute(c) \/ AutoRouteEnds(c)
  BY <1>2, <1>5, <1>7 DEF AutoRoute, AutoRouteEnds, Positions
<1>8. CASE BuildFails(c) \/ Abort(c) \/ ScanEnds(c) \/ ProxyRecord(c) \/ Drain(c)
  BY <1>3, <1>5, <1>8 DEF BuildFails, Abort, ScanEnds, ProxyRecord, Drain, CloseEngine
<1>9. CASE Build(c)
  <2> DEFINE p == IF call[c].shape = "client" THEN "install" ELSE "serve"
  <2> PICK r \in Runs : call' = [call EXCEPT ![c].at = p, ![c].run = r]
    BY <1>9 DEF Build
  <2>1. p \in Positions /\ p \in {"install", "serve"} /\ (p = "serve" => call[c].shape # "client")
    BY DEF Positions
  <2> HIDE DEF p
  <2>2. Moved(c) /\ call'[c].at = p /\ call'[c].shape = call[c].shape
    BY <1>1, <2>1, RunMoves
  <2>3. tun = None /\ client = None /\ UNCHANGED <<tun, client, slot>>
    BY <1>4, <1>9 DEF Build, OpenEngine
  <2> QED
    BY <2>1, <2>2, <2>3, <1>lost, InTurnFrom
<1>10. CASE InstallDialer(c)
  <2>1. tun = None /\ client = None /\ UNCHANGED <<tun, client>>
    BY <1>4, <1>10 DEF InstallDialer
  <2>2. CASE Install(call[c].run) /\ Go(c, "serve")
    <3>1. Moved(c) /\ call'[c].at = "serve" /\ slot' = call'[c].run
      BY <1>2, <2>2 DEF Positions, Install
    <3> QED
      BY <2>1, <3>1, <1>lost, InTurnFrom
  <2>3. CASE Go(c, "abort")
    <3>1. Moved(c) /\ call'[c].at = "abort"
      BY <1>2, <2>3 DEF Positions
    <3> QED
      BY <2>1, <3>1, <1>lost, InTurnFrom
  <2> QED
    BY <1>10, <2>2, <2>3 DEF InstallDialer
<1>11. CASE ServerStarts(c)
  <2>1. tun = None /\ client = None /\ UNCHANGED <<tun, client, slot>>
    BY <1>4, <1>11 DEF ServerStarts, Serve
  <2>2. /\ Moved(c) /\ call'[c].at = "publish"
        /\ call'[c].run = call[c].run /\ call'[c].shape = call[c].shape
    BY <1>2, <1>11 DEF Positions, ServerStarts
  <2>3. call[c].shape = "client" => slot = call[c].run
    BY <1>4, <1>11 DEF ServerStarts
  <2> QED
    BY <2>1, <2>2, <2>3, <1>lost, InTurnFrom
<1>12. CASE ServerFails(c)
  <2>1. tun = None /\ client = None /\ UNCHANGED <<tun, client>>
    BY <1>4, <1>12 DEF ServerFails
  <2>2. Moved(c) /\ call'[c].at = "abort"
    BY <1>2, <1>12 DEF Positions, ServerFails
  <2> QED
    BY <2>1, <2>2, <1>lost, InTurnFrom
<1>13. CASE Publish(c)
  <2>1. /\ tun = None /\ client = None /\ slot' = slot
        /\ call[c].shape = "client" => slot = call[c].run
    BY <1>4, <1>13 DEF Publish
  <2>2. \/ client' = call[c].run /\ tun' = tun /\ call[c].shape = "client"
        \/ tun' = call[c].run /\ client' = client
    BY <1>13 DEF Publish
  <2>3. Moved(c) /\ call'[c].at = "idle"
    BY <1>3, <1>13 DEF Publish
  <2> QED
    BY <2>1, <2>2, <2>3, <1>lost, InTurnFrom
<1>14. CASE ProxyOn(c) \/ Scan(c)
  BY <1>2, <1>5, <1>14 DEF ProxyOn, Scan, Positions
<1>15. CASE ProxyGet(c)
  <2>1. CASE call' = [call EXCEPT ![c].at = "set", ![c].previous = windows]
    <3>1. windows \in Settings /\ "set" \in Positions
      BY Shorthand DEF ProxyTypeOK, Positions
    <3>2. Moved(c) /\ call'[c].at = "set"
      BY <1>1, <2>1, <3>1, PreviousMoves
    <3> QED
      BY <1>5, <1>15, <3>2 DEF ProxyGet
  <2> QED
    BY <1>3, <1>5, <1>15, <2>1 DEF ProxyGet
<1>16. CASE ProxySet(c)
  BY <1>2, <1>3, <1>5, <1>16 DEF ProxySet, Positions
<1>17. ASSUME NEW then \in {"idle", "stop client"}, At(c, "idle"), ClearProxy(c, then)
       PROVE  InTurn'
  <2>1. Moved(c) /\ call'[c].at \in {"idle", "stop client", "restore"}
    BY <1>1, <1>17, ClearMoves, Shorthand
  <2> QED
    BY <1>5, <1>17, <2>1 DEF ClearProxy
<1>18. CASE ProxyOff(c) \/ StopProxy(c)
  BY <1>17, <1>18 DEF ProxyOff, StopProxy
<1>19. CASE ProxyRestore(c)
  <2>1. call[c].then \in {"idle", "stop client"} /\ "stop client" \in Positions
    BY <1>1 DEF CallTypeOK, CallStates, Positions
  <2>2. Moved(c) /\ call'[c].at \in {"idle", "stop client"}
    BY <1>2, <1>3, <1>19, <2>1 DEF ProxyRestore
  <2> QED
    BY <1>5, <1>19, <2>2 DEF ProxyRestore
<1>20. CASE StopClient(c)
  <2>1. CASE client = None
    <3>1. Go(c, "stop tunnel") /\ UNCHANGED <<tun, client, slot>>
      BY <1>20, <2>1 DEF StopClient
    <3>2. Moved(c) /\ call'[c].at = "stop tunnel"
      BY <1>2, <3>1 DEF Positions
    <3> QED
      BY <1>4, <2>1, <3>1, <3>2, <1>lost, InTurnFrom
  <2>2. CASE client # None
    <3>1. /\ call' = [call EXCEPT ![c].at = "close core", ![c].run = client]
          /\ UNCHANGED <<tun, slot>> /\ client' = None
      BY <1>20, <2>2 DEF StopClient
    <3>2. "close core" \in Positions
      BY DEF Positions
    <3>3. Moved(c) /\ call'[c].at = "close core"
      BY <1>1, <3>1, <3>2, RunMoves
    <3> QED
      BY <1>4, <2>2, <3>1, <3>3, <1>lost, InTurnFrom
  <2> QED
    BY <2>1, <2>2
<1>21. CASE CloseCore(c) \/ Unlisten(c)
  BY <1>2, <1>5, <1>21 DEF CloseCore, Unlisten, Unserve, Positions
<1>22. CASE CloseSlot(c)
  <2>1. tun = None /\ client = None /\ UNCHANGED <<tun, client>>
    BY <1>4, <1>22 DEF CloseSlot
  <2>2. Moved(c) /\ call'[c].at = "close engine"
    BY <1>2, <1>22 DEF Positions, CloseSlot
  <2> QED
    BY <2>1, <2>2, <1>lost, InTurnFrom
<1>23. CASE CloseLast(c)
  <2>1. tun = None /\ client = None /\ UNCHANGED <<tun, client>>
    BY <1>4, <1>23 DEF CloseLast
  <2>2. "stop tunnel" \in Positions
    BY DEF Positions
  <2>3. Moved(c) /\ call'[c].at = "stop tunnel"
    BY <1>1, <1>23, <2>2, RunMoves DEF Drop, CloseLast
  <2> QED
    BY <2>1, <2>3, <1>lost, InTurnFrom
<1>24. CASE StopTunnel(c)
  <2>1. client = None /\ tun' = None /\ client' = None
    BY <1>4, <1>24 DEF StopTunnel
  <2>2. CASE Return(c)
    BY <1>3, <2>1, <2>2, <1>lost, InTurnFrom
  <2>3. CASE tun # None
    <3>1. call' = [call EXCEPT ![c].at = "unlisten", ![c].run = tun] /\ "unlisten" \in Positions
      BY <1>24, <2>3 DEF StopTunnel, Positions
    <3>2. Moved(c) /\ call'[c].at = "unlisten"
      BY <1>1, <3>1, RunMoves
    <3> QED
      BY <2>1, <3>2, <1>lost, InTurnFrom
  <2> QED
    BY <1>24, <2>2, <2>3 DEF StopTunnel
<1>25. CASE Save(c)
  <2>1. Moved(c) /\ call'[c].at = "idle" /\ UNCHANGED <<tun, client, slot>>
    BY <1>25 DEF Save, Moved
  <2> QED
    BY <1>5, <2>1
<1> QED
  BY <1>6, <1>7, <1>8, <1>9, <1>10, <1>11, <1>12, <1>13, <1>14, <1>15, <1>16, <1>18, <1>19,
     <1>20, <1>21, <1>22, <1>23, <1>24, <1>25 DEF Begins, Continues

\* The calls that begin leave the sessions alone.
LEMMA BeginsQuietly ==
    ASSUME IInv, NEW c \in Callers, Begins(c)
    PROVE  UNCHANGED <<tun, client, slot>> /\ Moved(c) /\ Lost' \subseteq Lost
<1>1. UNCHANGED <<tun, client, slot>>
  BY DEF Begins, Start, ProxyOn, ProxyOff, StopProxy, ClearProxy, Scan, Save, sessionVars
<1>2. call \in [Callers -> CallStates]
  BY Shorthand DEF CallTypeOK
<1>3. Moved(c)
  BY <1>2 DEF Moved, Begins, Start, ProxyOn, ProxyOff, StopProxy, ClearProxy, Scan, Save, Go
<1>4. ~Overwrites(c)
  BY DEF Begins, Overwrites, At, Start, ProxyOn, ProxyOff, StopProxy, Scan, Save
<1> QED
  BY <1>1, <1>3, <1>4, StepPreserves DEF Kept

LEMMA InTurnPreserved == IInv /\ InTurn /\ Alone /\ Alone' /\ [Next]_vars => InTurn'
<1> SUFFICES ASSUME IInv, InTurn, Alone, Alone', [Next]_vars PROVE InTurn'
  OBVIOUS
<1>1. CASE UNCHANGED vars
  BY <1>1 DEF InTurn, At, vars, appVars, sessionVars, Lost, Held
<1>2. ASSUME NEW c \in Callers, Begins(c) \/ Continues(c) PROVE InTurn'
  <2>1. CASE \A d \in Callers : d # c => call[d].at = "idle"
    BY <1>2, <2>1, InTurnStep
  <2>2. CASE \E d \in Callers : d # c /\ call[d].at # "idle"
    <3> PICK d \in Callers : d # c /\ call[d].at # "idle"
      BY <2>2
    <3>1. call[c].at = "idle"
      BY OneBusyCall DEF Alone, At
    <3>2. Begins(c)
      BY <1>2, <3>1
      DEF Continues, At, AutoRoute, AutoRouteEnds, Build, BuildFails, InstallDialer,
          ServerStarts, ServerFails, Abort, Publish, ProxyGet, ProxySet, ProxyRecord,
          ProxyRestore, StopClient, CloseCore, CloseSlot, CloseLast, StopTunnel, Unlisten,
          Drain, ScanEnds
    <3>3. UNCHANGED <<tun, client, slot>> /\ Moved(c) /\ Lost' \subseteq Lost
      BY <3>2, BeginsQuietly
    <3>4. call'[c].at = "idle"
      <4>1. call'[d].at # "idle"
        BY <3>3 DEF Moved
      <4>2. Cardinality({e \in Callers : call'[e].at # "idle"}) <= 1
        BY DEF Alone, At
      <4> QED
        BY <4>1, <4>2, OneBusyCall
    <3> QED
      BY <3>3, <3>4 DEF InTurn, At, Moved, Busy, InHand
  <2> QED
    BY <2>1, <2>2
<1> QED
  BY <1>1, <1>2 DEF Next

LEMMA InTurnInit == Init => InTurn
BY DEF Init, SessionsInit, InTurn, At, Returned, Busy, InHand, Lost

LEMMA AloneInit == Init => Alone
<1> SUFFICES ASSUME Init PROVE Alone
  OBVIOUS
<1>1. {c \in Callers : ~At(c, "idle")} = {}
  BY DEF Init, At, Returned
<1> QED
  BY <1>1, FS_EmptySet DEF Alone

\* What crossed is for: as long as it is FALSE, no two calls are under way.
LEMMA AloneStep == ASSUME [Next]_vars, Alone, ~crossed' PROVE ~crossed /\ Alone'
<1>1. CASE UNCHANGED vars
  BY <1>1 DEF Alone, At, vars, appVars, overlapVars
<1>2. CASE Next
  BY <1>2 DEF Next
<1> QED
  BY <1>1, <1>2

Turns == ~crossed => Alone /\ InTurn

LEMMA AlwaysInTurn == Spec => []Turns
<1>1. IInv /\ Turns /\ [Next]_vars => Turns'
  <2> SUFFICES ASSUME IInv, Turns, [Next]_vars, ~crossed' PROVE Alone' /\ InTurn'
    BY DEF Turns
  <2>1. ~crossed
    <3>1. CASE UNCHANGED vars
      BY <3>1 DEF vars, overlapVars
    <3>2. CASE Next
      BY <3>2 DEF Next
    <3> QED
      BY <3>1, <3>2
  <2> QED
    BY <2>1, AloneStep, InTurnPreserved DEF Turns
<1>2. Init => Turns
  BY InTurnInit, AloneInit DEF Turns
<1> QED
  BY <1>1, <1>2, AlwaysIInv, PTL DEF Spec

LEMMA InTurnSpoofs == IInv /\ InTurn => ClientSpoofs
BY DEF IInv, Shaped, InTurn, ClientSpoofs

LEMMA InTurnOneEngine ==
    ASSUME IInv, InTurn, Alone
    PROVE  Cardinality(Engines) + Cardinality({c \in Callers : At(c, "auto scan")}) <= 1
<1> DEFINE A == {c \in Callers : At(c, "auto scan")}
<1>1. \A r \in Engines : Held(r)
  <2> SUFFICES ASSUME NEW r \in Runs, sess[r].engine PROVE Held(r)
    BY DEF Engines
  <2>1. ~Unused.engine
    BY DEF Unused
  <2> QED
    BY <2>1 DEF InTurn, Lost
<1>2. \A c \in Callers : call[c].run # None => call[c].at \in Busy
  BY Shorthand DEF CallTypeOK, Busy
<1>3. \A c, d \in Callers : call[c].at \in Busy /\ call[d].at \in Busy => c = d
  BY OneBusyCall DEF Alone, At, Busy, InHand
<1>4. \A r \in Engines : r # None
  BY SessionsAssumption DEF Engines
<1>5. ASSUME NEW c \in A PROVE Engines = {} /\ A = {c}
  <2>1. call[c].at \in Busy /\ call[c].at = "auto scan"
    BY <1>5 DEF At, Busy
  <2>2. tun = None /\ client = None
    BY <1>5, <2>1 DEF InTurn
  <2>3. call[c].run = None
    BY <1>5, <2>1, Shorthand DEF CallTypeOK, InHand
  <2>4. \A d \in Callers : call[d].run = None
    BY <1>2, <1>3, <1>5, <2>1, <2>3
  <2>5. A = {c}
    BY <1>3, <1>5, <2>1 DEF At, Busy
  <2> QED
    BY <1>1, <1>4, <2>2, <2>4, <2>5 DEF Held
<1>6. \A r, s \in Engines : r = s
  <2> SUFFICES ASSUME NEW r \in Engines, NEW s \in Engines PROVE r = s
    OBVIOUS
  <2>1. Held(r) /\ Held(s) /\ r # None /\ s # None
    BY <1>1, <1>4
  <2>2. CASE \E c \in Callers : call[c].run \in {r, s}
    <3> PICK c \in Callers : call[c].run \in {r, s}
      BY <2>2
    <3>1. call[c].at \in Busy /\ tun = None /\ client = None
      BY <1>2, <2>1 DEF InTurn
    <3>2. \A d \in Callers : call[d].run # None => d = c
      BY <1>2, <1>3, <3>1
    <3> QED
      BY <2>1, <3>1, <3>2 DEF Held
  <2>3. CASE ~ \E c \in Callers : call[c].run \in {r, s}
    BY <2>1, <2>3 DEF Held, InTurn
  <2> QED
    BY <2>2, <2>3
<1>7. Engines = {} \/ \E r : Engines = {r}
  BY <1>6
<1>8. Cardinality(Engines) \in {0, 1} /\ (Engines = {} => Cardinality(Engines) = 0)
  BY <1>7, FS_EmptySet, FS_Singleton
<1>9. A = {} \/ \E c \in A : A = {c}
  BY <1>5
<1>10. Cardinality(A) \in {0, 1} /\ (A = {} => Cardinality(A) = 0)
  BY <1>9, FS_EmptySet, FS_Singleton
<1>11. A # {} => Engines = {}
  BY <1>5
<1> HIDE DEF A
<1>12. Cardinality(Engines) + Cardinality(A) <= 1
  BY <1>8, <1>10, <1>11
<1> QED
  BY <1>12 DEF A

\* As long as no two calls have overlapped, the dials of the client that serves go through
\* its own engine (Install, Restore and their order).
THEOREM DialerKeptCorrect == Spec => []DialerKept
<1>1. IInv /\ Turns => DialerKept
  BY InTurnSpoofs DEF Turns, DialerKept
<1> QED
  BY <1>1, AlwaysIInv, AlwaysInTurn, PTL

\* As long as no two calls have overlapped, no session's engine is open next to another's or
\* to that of the route selection.
THEOREM OneEngineCorrect == Spec => []OneEngine
<1>1. IInv /\ Turns => OneEngine
  BY InTurnOneEngine DEF Turns, OneEngine
<1> QED
  BY <1>1, AlwaysIInv, AlwaysInTurn, PTL

-----------------------------------------------------------------------------
(* The setting of Windows.                                                 *)

ProxyPart == {"get", "set", "record", "restore"}

\* While one call at a time handles the setting of Windows.
ProxyInOrder ==
    /\ proxySet => proxyPrev = "user" /\ \A c \in Callers : call[c].at \notin ProxyPart
    /\ \A c \in Callers :
         /\ call[c].at \in {"get", "set"} => windows = "user"
         /\ call[c].at \in {"set", "record", "restore"} => call[c].previous = "user"
    /\ ~proxySet /\ (\A c \in Callers : call[c].at \notin ProxyPart) => windows = "user"

LEMMA ProxyLeftAlone ==
    ASSUME ProxyInOrder, NEW c \in Callers, Moved(c), UNCHANGED proxyVars,
           call[c].at \notin ProxyPart, call'[c].at \notin ProxyPart
    PROVE  ProxyInOrder'
<1>1. \A d \in Callers : call'[d].at \in ProxyPart => call'[d] = call[d]
  BY DEF Moved
<1>2. \A d \in Callers : call'[d].at \notin ProxyPart <=> call[d].at \notin ProxyPart
  BY DEF Moved
<1> QED
  BY <1>1, <1>2 DEF ProxyInOrder, ProxyPart, proxyVars

\* The call that has moved is, or was, the only one in the proxy's code.
LEMMA ProxyHandled ==
    ASSUME NEW c \in Callers, Moved(c),
           \A d \in Callers : d # c => call[d].at \notin ProxyPart,
           proxySet' => proxyPrev' = "user" /\ call'[c].at \notin ProxyPart,
           call'[c].at \in {"get", "set"} => windows' = "user",
           call'[c].at \in {"set", "record", "restore"} => call'[c].previous = "user",
           ~proxySet' /\ call'[c].at \notin ProxyPart => windows' = "user"
    PROVE  ProxyInOrder'
<1>1. \A d \in Callers : d # c => call'[d].at \notin ProxyPart
  BY DEF Moved
<1> QED
  BY <1>1 DEF ProxyInOrder, ProxyPart

LEMMA ProxyStep ==
    ASSUME IInv, ProxyInOrder, "restore" \notin RegistryFails,
           NEW c \in Callers, Begins(c) \/ Continues(c),
           call[c].at \in ProxyPart \/ call'[c].at \in ProxyPart
               => \A d \in Callers : d # c => call[d].at \notin ProxyPart
    PROVE  ProxyInOrder'
<1>1. CallTypeOK /\ ProxyTypeOK /\ shape \in Shapes
  BY Shorthand
<1>2. ASSUME NEW p \in Positions, Go(c, p)
      PROVE  Moved(c) /\ call'[c].at = p /\ call'[c].previous = call[c].previous
  BY <1>1, <1>2, GoMoves
<1>3. Return(c) => Moved(c) /\ call'[c].at = "idle"
  BY <1>1, ReturnMoves
<1>4. ASSUME NEW p \in Positions, NEW r \in Runs \cup {None},
             call' = [call EXCEPT ![c].at = p, ![c].run = r]
      PROVE  Moved(c) /\ call'[c].at = p
  BY <1>1, <1>4, RunMoves
<1> USE DEF At, ProxyPart, proxyVars
<1>5. CASE Start(c)
  <2> PICK a \in {"auto", "build"} : call' = [call EXCEPT ![c].at = a, ![c].shape = shape]
    BY <1>5 DEF Start
  <2>1. a \in Positions
    BY DEF Positions
  <2>2. Moved(c) /\ call'[c].at = a
    BY <1>1, <2>1, ShapeMoves
  <2> QED
    BY <1>5, <2>2, ProxyLeftAlone DEF Start
<1>6. CASE AutoRoute(c) \/ AutoRouteEnds(c) \/ Scan(c)
  <2>1. \E p \in {"auto scan", "build", "scanning", "probing"} : Go(c, p)
    BY <1>6 DEF AutoRoute, AutoRouteEnds, Scan
  <2> PICK p \in {"auto scan", "build", "scanning", "probing"} : Go(c, p)
    BY <2>1
  <2>2. p \in Positions
    BY DEF Positions
  <2>3. Moved(c) /\ call'[c].at = p
    BY <1>2, <2>2
  <2> QED
    BY <1>6, <2>3, ProxyLeftAlone DEF AutoRoute, AutoRouteEnds, Scan
<1>7. CASE BuildFails(c) \/ Abort(c) \/ Publish(c) \/ Drain(c) \/ ScanEnds(c)
  BY <1>3, <1>7, ProxyLeftAlone DEF BuildFails, Abort, Publish, Drain, ScanEnds
<1>8. CASE Build(c)
  <2> DEFINE p == IF call[c].shape = "client" THEN "install" ELSE "serve"
  <2> PICK r \in Runs : call' = [call EXCEPT ![c].at = p, ![c].run = r]
    BY <1>8 DEF Build
  <2>1. p \in Positions /\ p \in {"install", "serve"}
    BY DEF Positions
  <2> HIDE DEF p
  <2>2. Moved(c) /\ call'[c].at = p
    BY <1>4, <2>1
  <2> QED
    BY <1>8, <2>1, <2>2, ProxyLeftAlone DEF Build
<1>9. CASE InstallDialer(c) \/ ServerStarts(c) \/ ServerFails(c) \/ CloseCore(c)
           \/ CloseSlot(c) \/ Unlisten(c)
  <2>1. \E p \in {"serve", "publish", "abort", "close slot", "close engine", "drain"} : Go(c, p)
    BY <1>9 DEF InstallDialer, ServerStarts, ServerFails, CloseCore, CloseSlot, Unlisten
  <2> PICK p \in {"serve", "publish", "abort", "close slot", "close engine", "drain"} : Go(c, p)
    BY <2>1
  <2>2. p \in Positions
    BY DEF Positions
  <2>3. Moved(c) /\ call'[c].at = p
    BY <1>2, <2>2
  <2>4. UNCHANGED proxyVars /\ call[c].at \notin ProxyPart
    BY <1>9 DEF InstallDialer, ServerStarts, ServerFails, CloseCore, CloseSlot, Unlisten
  <2> QED
    BY <2>3, <2>4, ProxyLeftAlone
<1>10. CASE StopClient(c) \/ StopTunnel(c) \/ CloseLast(c)
  <2>1. UNCHANGED proxyVars /\ call[c].at \notin ProxyPart
    BY <1>10 DEF StopClient, StopTunnel, CloseLast
  <2>2. Moved(c) /\ call'[c].at \in {"idle", "stop tunnel", "close core", "unlisten"}
    <3>1. /\ client \in Runs \cup {None} /\ tun \in Runs \cup {None}
          /\ {"stop tunnel", "close core", "unlisten"} \subseteq Positions
      BY Shorthand DEF Positions
    <3> QED
      BY <1>2, <1>3, <1>4, <1>10, <3>1 DEF StopClient, StopTunnel, CloseLast, Drop
  <2> QED
    BY <2>1, <2>2, ProxyLeftAlone
<1>11. CASE Save(c)
  <2>1. Moved(c) /\ call'[c].at = "idle"
    BY <1>11 DEF Save, Moved
  <2> QED
    BY <1>11, <2>1, ProxyLeftAlone DEF Save
<1>12. CASE ProxyOn(c)
  <2>1. Moved(c) /\ call'[c].at = "get" /\ ~proxySet /\ UNCHANGED proxyVars
    BY <1>2, <1>12 DEF ProxyOn, Positions
  <2>2. \A d \in Callers : call[d].at \notin ProxyPart
    BY <1>12, <2>1 DEF ProxyOn
  <2> QED
    BY <2>1, <2>2, ProxyHandled DEF ProxyInOrder
<1>13. CASE ProxyGet(c)
  <2>1. windows = "user" /\ ~proxySet /\ UNCHANGED proxyVars
    BY <1>13 DEF ProxyGet, ProxyInOrder
  <2>2. CASE call' = [call EXCEPT ![c].at = "set", ![c].previous = windows]
    <3>1. windows \in Settings /\ "set" \in Positions
      BY <1>1 DEF ProxyTypeOK, Positions
    <3>2. Moved(c) /\ call'[c].at = "set" /\ call'[c].previous = windows
      BY <1>1, <2>2, <3>1, PreviousMoves
    <3> QED
      BY <1>13, <2>1, <3>2, ProxyHandled DEF ProxyGet
  <2>3. CASE Return(c)
    BY <1>3, <1>13, <2>1, <2>3, ProxyHandled DEF ProxyGet
  <2> QED
    BY <1>13, <2>2, <2>3 DEF ProxyGet
<1>14. CASE ProxySet(c)
  <2>1. windows = "user" /\ call[c].previous = "user" /\ ~proxySet /\ proxySet' = proxySet
    BY <1>14 DEF ProxySet, ProxyInOrder, Set
  <2>2. CASE Go(c, "record")
    <3>1. Moved(c) /\ call'[c].at = "record" /\ call'[c].previous = "user"
      BY <1>2, <2>1, <2>2 DEF Positions
    <3> QED
      BY <1>14, <2>1, <3>1, ProxyHandled DEF ProxySet
  <2>3. CASE Return(c) /\ UNCHANGED proxyVars
    BY <1>3, <1>14, <2>1, <2>3, ProxyHandled DEF ProxySet
  <2> QED
    BY <1>14, <2>2, <2>3 DEF ProxySet
<1>15. CASE ProxyRecord(c)
  <2>1. proxySet' /\ proxyPrev' = "user"
    BY <1>15 DEF ProxyRecord, Record, ProxyInOrder
  <2> QED
    BY <1>3, <1>15, <2>1, ProxyHandled DEF ProxyRecord
<1>16. ASSUME NEW then \in {"idle", "stop client"}, At(c, "idle"), ClearProxy(c, then)
       PROVE  ProxyInOrder'
  <2>1. /\ Moved(c) /\ call'[c].previous = proxyPrev
        /\ call'[c].at = IF proxySet THEN "restore" ELSE then
    BY <1>1, <1>16, ClearMoves
  <2>2. /\ proxySet' = FALSE /\ UNCHANGED <<windows, proxyPrev>>
    BY <1>16 DEF ClearProxy, TakeFlag
  <2>3. CASE proxySet
    <3>1. proxyPrev = "user" /\ \A d \in Callers : call[d].at \notin ProxyPart
      BY <2>3 DEF ProxyInOrder
    <3> QED
      BY <2>1, <2>2, <2>3, <3>1, ProxyHandled
  <2>4. CASE ~proxySet
    <3>1. UNCHANGED proxyVars
      BY <1>1, <2>2, <2>4 DEF ProxyTypeOK
    <3> QED
      BY <1>16, <2>1, <2>4, <3>1, ProxyLeftAlone
  <2> QED
    BY <2>3, <2>4
<1>17. CASE ProxyOff(c) \/ StopProxy(c)
  BY <1>16, <1>17 DEF ProxyOff, StopProxy
<1>18. CASE ProxyRestore(c)
  <2>1. call[c].then \in {"idle", "stop client"} /\ "stop client" \in Positions
    BY <1>1 DEF CallTypeOK, CallStates, Positions
  <2>2. Moved(c) /\ call'[c].at \in {"idle", "stop client"}
    BY <1>2, <1>3, <1>18, <2>1 DEF ProxyRestore
  <2>3. windows' = "user" /\ ~proxySet /\ proxySet' = proxySet
    BY <1>18 DEF ProxyRestore, Set, ProxyInOrder
  <2> QED
    BY <1>18, <2>2, <2>3, ProxyHandled DEF ProxyRestore
<1> QED
  BY <1>5, <1>6, <1>7, <1>8, <1>9, <1>10, <1>11, <1>12, <1>13, <1>14, <1>15, <1>17, <1>18
  DEF Begins, Continues

LEMMA ProxyPreserved ==
    ASSUME IInv, ProxyInOrder, "restore" \notin RegistryFails, [Next]_vars,
           AloneInProxyCode, AloneInProxyCode'
    PROVE  ProxyInOrder'
<1>1. CASE UNCHANGED vars
  BY <1>1 DEF ProxyInOrder, vars, appVars, proxyVars
<1>2. ASSUME NEW c \in Callers, Begins(c) \/ Continues(c) PROVE ProxyInOrder'
  <2>1. ASSUME NEW d \in Callers, d # c, call[d].at \in ProxyPart
        PROVE  call[c].at \notin ProxyPart /\ call'[c].at \notin ProxyPart
    <3>1. d \in InProxyCode /\ IsFiniteSet(InProxyCode)
      BY <2>1, CallersAssumption, FS_Subset DEF InProxyCode, ProxyPart
    <3>2. c \notin InProxyCode
      BY <2>1, <3>1, AtMostOne DEF AloneInProxyCode
    <3>3. Moved(c)
      <4>1. call \in [Callers -> CallStates]
        BY Shorthand DEF CallTypeOK
      <4> QED
        BY <1>2, <4>1
        DEF Moved, Begins, Continues, Start, ProxyOn, ProxyOff, StopProxy, ClearProxy, Scan, Save,
            AutoRoute, AutoRouteEnds, Build, BuildFails, InstallDialer, ServerStarts,
            ServerFails, Abort, Publish, ProxyGet, ProxySet, ProxyRecord, ProxyRestore,
            StopClient, CloseCore, CloseSlot, CloseLast, StopTunnel, Unlisten, Drain, ScanEnds,
            Go, Return, Drop
    <3>4. d \in InProxyCode' /\ IsFiniteSet(InProxyCode')
      BY <2>1, <3>3, CallersAssumption, FS_Subset DEF InProxyCode, ProxyPart, Moved
    <3>5. c \notin InProxyCode'
      BY <2>1, <3>4, AtMostOne DEF AloneInProxyCode
    <3> QED
      BY <3>2, <3>5 DEF InProxyCode, ProxyPart
  <2> QED
    BY <1>2, <2>1, ProxyStep
<1> QED
  BY <1>1, <1>2 DEF Next

LEMMA AloneMeansInProxyCode == Alone => AloneInProxyCode
<1> DEFINE S == {c \in Callers : ~At(c, "idle")}
<1>1. IsFiniteSet(S) /\ InProxyCode \subseteq S
  BY CallersAssumption, FS_Subset DEF InProxyCode, At
<1>2. IsFiniteSet(InProxyCode) /\ Cardinality(InProxyCode) <= Cardinality(S)
  BY <1>1, FS_Subset
<1>3. Cardinality(InProxyCode) \in Nat /\ Cardinality(S) \in Nat
  BY <1>1, <1>2, FS_CardinalityType
<1>4. Alone => Cardinality(S) <= 1
  BY DEF Alone
<1> HIDE DEF S
<1> QED
  BY <1>2, <1>3, <1>4 DEF AloneInProxyCode

\* What tangled is for.
Handled == ~tangled => AloneInProxyCode /\ ProxyInOrder

LEMMA ProxyInitInOrder == Init => ProxyInOrder
BY DEF Init, ProxyInit, ProxyInOrder, ProxyPart, Returned

\* SetSystemProxy and clearSystemProxy, one call in them at a time: the user's own
\* setting is back whenever the application has nothing to undo.
THEOREM ProxyGivenBackCorrect ==
    ASSUME "restore" \notin RegistryFails
    PROVE  Spec => []ProxyGivenBack
<1>1. Handled => ProxyGivenBack
  BY DEF Handled, ProxyInOrder, ProxyGivenBack, InProxyCode, ProxyPart
<1>2. IInv /\ Handled /\ [Next]_vars => Handled'
  <2> SUFFICES ASSUME IInv, Handled, [Next]_vars, ~tangled'
               PROVE  AloneInProxyCode' /\ ProxyInOrder'
    BY DEF Handled
  <2>1. ~tangled /\ (AloneInProxyCode => AloneInProxyCode')
    <3>1. CASE UNCHANGED vars
      BY <3>1 DEF AloneInProxyCode, InProxyCode, vars, appVars, overlapVars
    <3>2. CASE Next
      BY <3>2 DEF Next
    <3> QED
      BY <3>1, <3>2
  <2> QED
    BY <2>1, ProxyPreserved DEF Handled
<1>3. Init => Handled
  BY AloneInit, AloneMeansInProxyCode, ProxyInitInOrder DEF Handled
<1> QED
  BY <1>1, <1>2, <1>3, AlwaysIInv, PTL DEF Spec

\* Stop has taken the flag before it reaches the client.
FlagTaken ==
    \A c \in Callers : call[c].at \in {"stop client", "close core"} => ~proxySet

ProxyTurns == ~crossed => AloneInProxyCode

\* Of calls that have not overlapped.
Goes == ~crossed => ProxyInOrder /\ FlagTaken

LEMMA FlagPreserved ==
    ASSUME IInv, ProxyInOrder, FlagTaken, Alone, [Next]_vars
    PROVE  FlagTaken'
<1>1. CASE UNCHANGED vars
  BY <1>1 DEF FlagTaken, vars, appVars, proxyVars
<1>2. ASSUME NEW c \in Callers, Begins(c) \/ Continues(c) PROVE FlagTaken'
  <2>0. CallTypeOK /\ ProxyTypeOK
    BY Shorthand
  <2>1. ProxyRecord(c) \/ proxySet' = proxySet \/ ~proxySet'
    BY <1>2
    DEF Begins, Continues, Start, ProxyOn, ProxyOff, StopProxy, ClearProxy, TakeFlag, Scan, Save,
        AutoRoute, AutoRouteEnds, Build, BuildFails, InstallDialer, ServerStarts,
        ServerFails, Abort, Publish, ProxyGet, ProxySet, Set, ProxyRestore,
        StopClient, CloseCore, CloseSlot, CloseLast, StopTunnel, Unlisten, Drain, ScanEnds,
        proxyVars
  <2>2. Moved(c)
    <3>1. call \in [Callers -> CallStates]
      BY <2>0 DEF CallTypeOK
    <3> QED
      BY <1>2, <3>1
      DEF Moved, Begins, Continues, Start, ProxyOn, ProxyOff, StopProxy, ClearProxy, Scan, Save,
          AutoRoute, AutoRouteEnds, Build, BuildFails, InstallDialer, ServerStarts,
          ServerFails, Abort, Publish, ProxyGet, ProxySet, ProxyRecord, ProxyRestore,
          StopClient, CloseCore, CloseSlot, CloseLast, StopTunnel, Unlisten, Drain, ScanEnds,
          Go, Return, Drop
  <2>3. ASSUME NEW d \in Callers, d # c, call'[d].at \in {"stop client", "close core"}
        PROVE  ~proxySet'
    <3>1. call[d].at \in {"stop client", "close core"}
      BY <2>2, <2>3 DEF Moved
    <3>2. ~ProxyRecord(c)
      <4> SUFFICES ASSUME ProxyRecord(c) PROVE FALSE
        OBVIOUS
      <4>1. call[c].at # "idle" /\ call[d].at # "idle"
        BY <3>1 DEF ProxyRecord, At
      <4> QED
        BY <2>3, <4>1, OneBusyCall DEF Alone, At
    <3> QED
      BY <2>1, <3>1, <3>2 DEF FlagTaken
  <2>4. ASSUME call'[c].at \in {"stop client", "close core"} PROVE ~proxySet'
    <3>1. CASE ProxyOff(c) \/ StopProxy(c)
      BY <3>1 DEF ProxyOff, StopProxy, ClearProxy, TakeFlag
    <3>2. CASE ProxyRestore(c)
      <4>1. call[c].at \in ProxyPart /\ proxySet' = proxySet
        BY <3>2 DEF ProxyRestore, At, ProxyPart, Set, proxyVars
      <4> QED
        BY <4>1 DEF ProxyInOrder
    <3>3. CASE StopClient(c)
      BY <3>3 DEF StopClient, At, FlagTaken, proxyVars
    <3>4. ASSUME NEW p \in Positions, Go(c, p), p \notin {"stop client", "close core"} PROVE FALSE
      BY <2>0, <2>4, <3>4, GoMoves
    <3>5. ~Return(c)
      BY <2>0, <2>4, ReturnMoves
    <3>6. ASSUME NEW p \in Positions, NEW r \in Runs \cup {None},
                 call' = [call EXCEPT ![c].at = p, ![c].run = r],
                 p \notin {"stop client", "close core"}
          PROVE  FALSE
      BY <2>0, <2>4, <3>6, RunMoves
    <3>7. CASE Start(c)
      <4> PICK a \in {"auto", "build"} : call' = [call EXCEPT ![c].at = a, ![c].shape = shape]
        BY <3>7 DEF Start
      <4>1. a \in Positions /\ shape \in Shapes
        BY Shorthand DEF Positions
      <4>2. call'[c].at = a
        BY <2>0, <4>1, ShapeMoves
      <4> QED
        BY <2>4, <4>2
    <3>8. CASE Build(c)
      <4> DEFINE p == IF call[c].shape = "client" THEN "install" ELSE "serve"
      <4> PICK r \in Runs : call' = [call EXCEPT ![c].at = p, ![c].run = r]
        BY <3>8 DEF Build
      <4>1. p \in Positions /\ p \notin {"stop client", "close core"}
        BY DEF Positions
      <4> HIDE DEF p
      <4> QED
        BY <3>6, <4>1
    <3>9. CASE AutoRoute(c) \/ AutoRouteEnds(c) \/ Scan(c) \/ ProxyOn(c)
      <4>1. /\ {"auto scan", "build", "scanning", "probing", "get"} \subseteq Positions
            /\ \E p \in {"auto scan", "build", "scanning", "probing", "get"} : Go(c, p)
        BY <3>9 DEF AutoRoute, AutoRouteEnds, Scan, ProxyOn, Positions
      <4> QED
        BY <3>4, <4>1
    <3>10. CASE \/ BuildFails(c) \/ Abort(c) \/ Publish(c) \/ Drain(c) \/ ScanEnds(c)
                \/ ProxyRecord(c)
      BY <3>5, <3>10 DEF BuildFails, Abort, Publish, Drain, ScanEnds, ProxyRecord
    <3>11. CASE InstallDialer(c) \/ ServerStarts(c) \/ ServerFails(c) \/ CloseCore(c)
             \/ CloseSlot(c) \/ Unlisten(c)
      <4>1. /\ {"serve", "publish", "abort", "close slot", "close engine", "drain"}
                  \subseteq Positions
            /\ \E p \in {"serve", "publish", "abort", "close slot", "close engine", "drain"} :
                 Go(c, p)
        BY <3>11 DEF InstallDialer, ServerStarts, ServerFails, CloseCore, CloseSlot, Unlisten,
                     Positions
      <4> QED
        BY <3>4, <4>1
    <3>12. CASE StopTunnel(c) \/ CloseLast(c)
      <4>1. {"stop tunnel", "unlisten"} \subseteq Positions /\ tun \in Runs \cup {None}
        BY Shorthand DEF Positions
      <4> QED
        BY <3>5, <3>6, <3>12, <4>1 DEF StopTunnel, CloseLast, Drop
    <3>13. CASE Save(c)
      BY <2>4, <3>13 DEF Save, At
    <3>14. CASE ProxyGet(c)
      <4>1. call' = [call EXCEPT ![c].at = "set", ![c].previous = windows]
        BY <3>5, <3>14 DEF ProxyGet
      <4>2. "set" \in Positions /\ windows \in Settings
        BY <2>0 DEF Positions, ProxyTypeOK
      <4>3. call'[c].at = "set"
        BY <2>0, <4>1, <4>2, PreviousMoves
      <4> QED
        BY <2>4, <4>3
    <3>15. CASE ProxySet(c)
      BY <3>4, <3>5, <3>15 DEF ProxySet, Positions
    <3> QED
      BY <1>2, <3>1, <3>2, <3>3, <3>7, <3>8, <3>9, <3>10, <3>11, <3>12, <3>13, <3>14, <3>15
      DEF Begins, Continues
  <2> QED
    BY <2>3, <2>4 DEF FlagTaken
<1> QED
  BY <1>1, <1>2 DEF Next

\* As long as no two calls have overlapped, Windows has its setting back before Stop closes
\* the client's inbound.
THEOREM ProxyGoesFirstCorrect ==
    ASSUME "restore" \notin RegistryFails
    PROVE  Spec => []ProxyGoesFirst
<1>1. Turns => ProxyTurns
  BY AloneMeansInProxyCode DEF Turns, ProxyTurns
<1>2. Spec => []ProxyTurns
  BY <1>1, AlwaysInTurn, PTL
<1>3. IInv /\ Turns /\ ProxyTurns /\ ProxyTurns' /\ Goes /\ [Next]_vars => Goes'
  <2> SUFFICES ASSUME IInv, Turns, ProxyTurns, ProxyTurns', Goes, [Next]_vars, ~crossed'
               PROVE  ProxyInOrder' /\ FlagTaken'
    BY DEF Goes
  <2>1. ~crossed
    <3>1. CASE UNCHANGED vars
      BY <3>1 DEF vars, overlapVars
    <3>2. CASE Next
      BY <3>2 DEF Next
    <3> QED
      BY <3>1, <3>2
  <2>2. Alone /\ AloneInProxyCode /\ AloneInProxyCode' /\ ProxyInOrder /\ FlagTaken
    BY <2>1 DEF Turns, ProxyTurns, Goes
  <2> QED
    BY <2>2, ProxyPreserved, FlagPreserved
<1>4. Init => Goes
  <2> SUFFICES ASSUME Init, NEW c \in Callers PROVE call[c].at = "idle"
    BY ProxyInitInOrder DEF Goes, FlagTaken
  <2> QED
    BY DEF Init, Returned
<1>5. Turns /\ Goes => ProxyGoesFirst
  <2> SUFFICES ASSUME ProxyInOrder, FlagTaken, Alone, NEW c \in Callers, At(c, "close core")
               PROVE  windows = "user"
    BY DEF Turns, Goes, ProxyGoesFirst
  <2>1. ~proxySet
    BY DEF FlagTaken, At
  <2>2. \A d \in Callers : call[d].at \notin ProxyPart
    BY OneBusyCall DEF Alone, At, ProxyPart
  <2> QED
    BY <2>1, <2>2 DEF ProxyInOrder
<1> QED
  BY <1>2, <1>3, <1>4, <1>5, AlwaysIInv, AlwaysInTurn, PTL DEF Spec
=============================================================================
