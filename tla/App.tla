-------------------------------- MODULE App --------------------------------
(***************************************************************************)
(* The application's calls that open and close things (src/app.go,         *)
(* app_client.go, app_sysproxy.go, app_scan.go): Start, Stop,              *)
(* SetSystemProxy, the scans.                                              *)
(*                                                                         *)
(* Wails runs each call of the window in its own goroutine, and the tray   *)
(* menu calls Start and Stop too.  A member of Callers is such a           *)
(* goroutine; one step of it is what it does between two points where it   *)
(* gives up a.mu or waits.  A call that returns at once changes nothing    *)
(* and is left out.  shutdown is Stop, called last.                        *)
(*                                                                         *)
(* call[c].at, the position of a caller:                                   *)
(*   Start   auto, "auto scan", build, install, serve, publish, abort      *)
(*   Stop    restore, "stop client", "close core", "close slot",           *)
(*           "close engine", "stop tunnel", unlisten, drain                *)
(*   proxy   get, set, record, restore                                     *)
(*   scans   scanning, probing                                             *)
(***************************************************************************)
EXTENDS Sessions, SystemProxy, FiniteSets, Integers

CONSTANT Callers

ASSUME CallersAssumption == IsFiniteSet(Callers)

VARIABLES
    tun, client,  \* a.tun, a.client
    shape,        \* a.cfg.Client.Enabled
    address,      \* a.cfg.Listener, a.cfg.Client's two ports
    moved,        \* history: a save changed them while a Start was under way
    call,         \* [Callers -> CallStates]
    crossed,      \* history: two calls have been under way at once
    tangled       \* history: two calls have been in the proxy's code at once

cfgVars == <<shape, address, moved>>
appVars == <<tun, client, cfgVars, call>>
overlapVars == <<crossed, tangled>>
vars == <<sessionVars, proxyVars, appVars, overlapVars>>

Positions == {"idle", "auto", "auto scan", "build", "install", "serve", "publish",
              "abort", "restore", "stop client", "close core", "close slot",
              "close engine", "stop tunnel", "unlisten", "drain", "get", "set",
              "record", "scanning", "probing"}

CallStates == [at       : Positions,
               run      : Runs \cup {None},           \* the session in hand
               shape    : Shapes,                     \* useClient
               previous : Settings,
               then     : {"idle", "stop client"}]    \* who called clearSystemProxy

Returned == [at |-> "idle", run |-> None, shape |-> "tunnel", previous |-> "off",
             then |-> "idle"]

Init ==
    /\ SessionsInit /\ ProxyInit
    /\ tun = None /\ client = None
    /\ shape \in Shapes /\ address \in Addresses /\ moved = FALSE
    /\ call = [c \in Callers |-> Returned]
    /\ crossed = FALSE /\ tangled = FALSE

At(c, position) == call[c].at = position
Go(c, position) == call' = [call EXCEPT ![c].at = position]
Return(c) == call' = [call EXCEPT ![c] = Returned]
DropKeepsIt(c, position) == Go(c, position)
Drop(c, position) == call' = [call EXCEPT ![c].at = position, ![c].run = None]

\* Inside Start, between the check of a.tun and a.client and their assignment.
Starting(c) == call[c].at \in {"auto", "auto scan", "build", "install", "serve", "publish"}

-----------------------------------------------------------------------------
(* Start.                                                                  *)

StartAnyway(c) ==
    /\ At(c, "idle")
    /\ \E a \in {"auto", "build"} :
         call' = [call EXCEPT ![c].at = a, ![c].shape = shape]
    /\ UNCHANGED <<sessionVars, proxyVars, tun, client, cfgVars>>

\* Whether auto mode applies depends on the settings and the profile in use.
Start(c) ==
    /\ At(c, "idle")
    /\ tun = None /\ client = None
    /\ \E a \in {"auto", "build"} :
         call' = [call EXCEPT ![c].at = a, ![c].shape = shape]
    /\ UNCHANGED <<sessionVars, proxyVars, tun, client, cfgVars>>

\* autoSelectRoute opens an engine of its own, unless that fails ...
AutoRoute(c) ==
    /\ At(c, "auto")
    /\ Go(c, "auto scan") \/ Go(c, "build")
    /\ UNCHANGED <<sessionVars, proxyVars, tun, client, cfgVars>>

\* ... and closes it before it returns; the connect goes on in any case.
AutoRouteEnds(c) ==
    /\ At(c, "auto scan")
    /\ Go(c, "build")
    /\ UNCHANGED <<sessionVars, proxyVars, tun, client, cfgVars>>

\* No profile, no interface, a bad setting, no driver.
BuildFails(c) ==
    /\ At(c, "build")
    /\ Return(c)
    /\ UNCHANGED <<sessionVars, proxyVars, tun, client, cfgVars>>

\* The settings are read once more after the route selection, except for
\* client.enabled.  Names are interchangeable: which of the free ones is taken
\* does not matter.
Build(c) ==
    /\ At(c, "build")
    /\ \E r \in Runs :
         /\ OpenEngine(r, call[c].shape, address)
         /\ r = CHOOSE s \in Runs : sess[s] = Unused
         /\ call' = [call EXCEPT
                       ![c].at = IF call[c].shape = "client" THEN "install" ELSE "serve",
                       ![c].run = r]
    /\ UNCHANGED <<proxyVars, tun, client, cfgVars>>

\* xray.Start puts the dialer in the slot before it starts the core; before
\* that, no edge, no dialer or no configuration ends the attempt.
InstallDialer(c) ==
    /\ At(c, "install")
    /\ \/ Install(call[c].run) /\ Go(c, "serve")
       \/ Go(c, "abort") /\ UNCHANGED sessionVars
    /\ UNCHANGED <<proxyVars, tun, client, cfgVars>>

ServerStarts(c) ==
    /\ At(c, "serve")
    /\ Serve(call[c].run)
    /\ Go(c, "publish")
    /\ UNCHANGED <<proxyVars, tun, client, cfgVars>>

ServerFailsQuietly(c) ==
    /\ At(c, "serve")
    /\ Return(c)
    /\ UNCHANGED <<sessionVars, proxyVars, tun, client, cfgVars>>

\* The ports are taken, or the server fails otherwise.
ServerFails(c) ==
    /\ At(c, "serve")
    /\ IF call[c].shape = "client" THEN Restore ELSE UNCHANGED sessionVars
    /\ Go(c, "abort")
    /\ UNCHANGED <<proxyVars, tun, client, cfgVars>>

Abort(c) ==
    /\ At(c, "abort")
    /\ CloseEngine(call[c].run)
    /\ Return(c)
    /\ UNCHANGED <<proxyVars, tun, client, cfgVars>>

Publish(c) ==
    /\ At(c, "publish")
    /\ IF call[c].shape = "client"
       THEN client' = call[c].run /\ UNCHANGED tun
       ELSE tun' = call[c].run /\ UNCHANGED client
    /\ Return(c)
    /\ UNCHANGED <<sessionVars, proxyVars, cfgVars>>

-----------------------------------------------------------------------------
(* SetSystemProxy and clearSystemProxy.                                    *)

ProxyOn(c) ==
    /\ At(c, "idle")
    /\ ~proxySet /\ shape = "client"
    /\ Go(c, "get")
    /\ UNCHANGED <<sessionVars, proxyVars, tun, client, cfgVars>>

\* sysproxy.Enable reads the setting ...
ProxyGet(c) ==
    /\ At(c, "get")
    /\ \/ call' = [call EXCEPT ![c].at = "set", ![c].previous = windows]
       \/ "get" \in RegistryFails /\ Return(c)
    /\ UNCHANGED <<sessionVars, proxyVars, tun, client, cfgVars>>

\* ... and writes it.
ProxySet(c) ==
    /\ At(c, "set")
    /\ \/ Set("ours") /\ Go(c, "record")
       \/ "set" \in RegistryFails /\ Return(c) /\ UNCHANGED proxyVars
    /\ UNCHANGED <<sessionVars, tun, client, cfgVars>>

ProxyRecord(c) ==
    /\ At(c, "record")
    /\ Record(call[c].previous)
    /\ Return(c)
    /\ UNCHANGED <<sessionVars, tun, client, cfgVars>>

\* What was ours is taken back, and then the caller goes on.
ClearProxy(c, then) ==
    /\ TakeFlag
    /\ call' = [call EXCEPT ![c].then = then, ![c].previous = proxyPrev,
                            ![c].at = IF proxySet THEN "restore" ELSE then]
    /\ UNCHANGED <<sessionVars, tun, client, cfgVars>>

ProxyOff(c) == At(c, "idle") /\ proxySet /\ ClearProxy(c, "idle")

ProxyRestore(c) ==
    /\ At(c, "restore")
    /\ Set(call[c].previous) \/ ("restore" \in RegistryFails /\ UNCHANGED proxyVars)
    /\ IF call[c].then = "idle" THEN Return(c) ELSE Go(c, call[c].then)
    /\ UNCHANGED <<sessionVars, tun, client, cfgVars>>

-----------------------------------------------------------------------------
(* Stop.                                                                   *)

StopKeepsProxy(c) ==
    /\ At(c, "idle")
    /\ call' = [call EXCEPT ![c].then = "stop client", ![c].at = "stop client"]
    /\ UNCHANGED <<sessionVars, proxyVars, tun, client, cfgVars>>

StopProxy(c) == At(c, "idle") /\ ClearProxy(c, "stop client")

StopClientKeepsIt(c) ==
    /\ At(c, "stop client")
    /\ IF client = None THEN Go(c, "stop tunnel")
       ELSE call' = [call EXCEPT ![c].at = "close core", ![c].run = client]
    /\ UNCHANGED <<sessionVars, proxyVars, tun, client, cfgVars>>

StopClient(c) ==
    /\ At(c, "stop client")
    /\ IF client = None THEN Go(c, "stop tunnel")
       ELSE call' = [call EXCEPT ![c].at = "close core", ![c].run = client]
    /\ client' = None
    /\ UNCHANGED <<sessionVars, proxyVars, tun, cfgVars>>

CloseEngineFirst(c) ==
    /\ At(c, "close core")
    /\ sess' = [sess EXCEPT ![call[c].run].engine = FALSE]
    /\ Go(c, "close slot")
    /\ UNCHANGED <<slot, proxyVars, tun, client, cfgVars>>

\* client.close: the core, ...
CloseCore(c) ==
    /\ At(c, "close core")
    /\ Unserve(call[c].run)
    /\ Go(c, "close slot")
    /\ UNCHANGED <<proxyVars, tun, client, cfgVars>>

\* ... the slot, ...
CloseSlot(c) ==
    /\ At(c, "close slot")
    /\ Restore
    /\ Go(c, "close engine")
    /\ UNCHANGED <<proxyVars, tun, client, cfgVars>>

\* ... the engine.
CloseLast(c) ==
    /\ At(c, "close engine")
    /\ CloseEngine(call[c].run)
    /\ Drop(c, "stop tunnel")
    /\ UNCHANGED <<proxyVars, tun, client, cfgVars>>

StopTunnel(c) ==
    /\ At(c, "stop tunnel")
    /\ IF tun = None THEN Return(c)
       ELSE call' = [call EXCEPT ![c].at = "unlisten", ![c].run = tun]
    /\ tun' = None
    /\ UNCHANGED <<sessionVars, proxyVars, client, cfgVars>>

\* Tunnel.Stop closes the listener at once, ...
Unlisten(c) ==
    /\ At(c, "unlisten")
    /\ Unserve(call[c].run)
    /\ Go(c, "drain")
    /\ UNCHANGED <<proxyVars, tun, client, cfgVars>>

\* ... and the engine when its handlers and its pool are done.
Drain(c) ==
    /\ At(c, "drain")
    /\ CloseEngine(call[c].run)
    /\ Return(c)
    /\ UNCHANGED <<proxyVars, tun, client, cfgVars>>

-----------------------------------------------------------------------------
(* Scans, settings.                                                        *)

\* ScanIPs and CheckDomain hold an engine while they run, ProbeSNIs a row of
\* them.
Scan(c) ==
    /\ At(c, "idle")
    /\ \E s \in {"scanning", "probing"} : Go(c, s)
    /\ UNCHANGED <<sessionVars, proxyVars, tun, client, cfgVars>>

ScanEnds(c) ==
    /\ At(c, "scanning") \/ At(c, "probing")
    /\ Return(c)
    /\ UNCHANGED <<sessionVars, proxyVars, tun, client, cfgVars>>

\* What SaveConfig replaces of the settings that matter here: client.enabled and
\* the ports.
Save(c) ==
    /\ At(c, "idle")
    /\ shape' \in Shapes /\ address' \in Addresses /\ <<shape, address>>' # <<shape, address>>
    /\ moved' = (moved \/ (address' # address /\ \E d \in Callers : Starting(d)))
    /\ UNCHANGED <<sessionVars, proxyVars, tun, client, call>>

-----------------------------------------------------------------------------

Begins(c) == Start(c) \/ ProxyOn(c) \/ ProxyOff(c) \/ StopProxy(c) \/ Scan(c) \/ Save(c)

Continues(c) ==
    \/ AutoRoute(c) \/ AutoRouteEnds(c) \/ Build(c) \/ BuildFails(c)
    \/ InstallDialer(c) \/ ServerStarts(c) \/ ServerFails(c) \/ Abort(c) \/ Publish(c)
    \/ ProxyGet(c) \/ ProxySet(c) \/ ProxyRecord(c) \/ ProxyRestore(c)
    \/ StopClient(c) \/ CloseCore(c) \/ CloseSlot(c) \/ CloseLast(c)
    \/ StopTunnel(c) \/ Unlisten(c) \/ Drain(c) \/ ScanEnds(c)

\* No call begins before the one before it has returned.
Alone == Cardinality({c \in Callers : ~At(c, "idle")}) <= 1

InProxyCode == {c \in Callers : call[c].at \in {"get", "set", "record", "restore"}}

AloneInProxyCode == Cardinality(InProxyCode) <= 1

Next ==
    /\ \E c \in Callers : Begins(c) \/ Continues(c)
    /\ crossed' = (crossed \/ ~Alone')
    /\ tangled' = (tangled \/ ~AloneInProxyCode')

Spec == Init /\ [][Next]_vars

-----------------------------------------------------------------------------
(* Properties.                                                             *)

\* A call has a session in hand exactly between building or taking one and
\* giving it to a.tun or a.client or closing it.
AppTypeOK ==
    /\ SessionsTypeOK /\ ProxyTypeOK
    /\ tun \in Runs \cup {None} /\ client \in Runs \cup {None}
    /\ shape \in Shapes /\ address \in Addresses /\ moved \in BOOLEAN
    /\ call \in [Callers -> CallStates]
    /\ \A c \in Callers :
         call[c].run # None <=>
             call[c].at \in {"install", "serve", "publish", "abort", "close core",
                            "close slot", "close engine", "unlisten", "drain"}

\* That, and the types of the history variables.
TypeOK == AppTypeOK /\ crossed \in BOOLEAN /\ tangled \in BOOLEAN

References(r) ==
    {t \in {<<"tun", tun>>, <<"client", client>>} : t[2] = r}
        \cup {c \in Callers : call[c].run = r}

Owned(r) == Cardinality(References(r)) = IF sess[r] = Unused THEN 0 ELSE 1

\* Every engine that is open, with what was built on it, belongs to exactly one
\* of a.tun, a.client or a call that will publish or close it: nothing is out of
\* reach of Stop, however the calls of the window and of the tray overlap, and
\* nothing is closed twice.  Start checks a.tun and a.client long before it sets
\* them, so that two calls of it meet at the listener; no longer so once a save
\* has moved the ports in between, which is the premise.
OneOwner == ~moved => \A r \in Runs : Owned(r)

\* The order of client.close and of Tunnel.Stop: an engine is closed after what
\* dials through it, and is never left in xray's dialer slot.
EngineOutlivesUse ==
    \A r \in Runs : sess[r].serving \/ slot = r => sess[r].engine

ClientSpoofs == client # None => sess[client].serving /\ slot = client

\* Install, Restore and their order in xray.Start and Instance.Close: while the
\* embedded client serves, its dials go through its own engine and no other, as
\* long as no two calls have overlapped.
DialerKept == ~crossed => ClientSpoofs

\* The same without that premise, as the comments of xray.Start and of Install
\* have it: no dial of a running client goes out unspoofed.
NeverUnspoofed == client # None => slot # None

Engines == {r \in Runs : sess[r].engine}

\* "Route selection happens before the tunnel opens its own WinDivert handle, so
\* the two never have overlapping capture filters", and a disconnect has closed
\* its engine when it returns: as long as no two calls have overlapped, no
\* session's engine is open next to another's or to that of the route selection.
OneEngine ==
    ~crossed => Cardinality(Engines)
                  + Cardinality({c \in Callers : At(c, "auto scan")}) <= 1

\* "The system proxy goes first": as long as no two calls have overlapped, and
\* where Windows takes its setting back ("restore" \notin RegistryFails; Stop goes
\* on all the same when Restore fails), Windows does not point at the client's
\* inbound when a disconnect closes it.
ProxyGoesFirst ==
    ~crossed => \A c \in Callers : At(c, "close core") => windows = "user"

\* "Restoring rather than simply disabling is the whole point": as long as no two
\* calls have handled the setting at once and Windows takes it back, the user's
\* own setting is there again whenever the application thinks that it has nothing
\* to undo.
ProxyGivenBack == ~tangled /\ InProxyCode = {} /\ ~proxySet => windows = "user"
=============================================================================
