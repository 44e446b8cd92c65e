----------------------------- MODULE ClientDial -----------------------------
(***************************************************************************)
(* How the embedded client dials: SpoofDialer.Dial and spoofTarget         *)
(* (src/internal/xray/dialer.go), CachingResolver and FallbackResolver     *)
(* (resolver.go), the DoH lookup (doh.go), the override of app_client.go.  *)
(*                                                                         *)
(* A destination is udp, ipv6, ipv4, a name that has to be looked up, or   *)
(* fronted: the profile's own server, which the override redirects to an   *)
(* edge.  One name is enough for the cache.  Its address changes all the   *)
(* time: an address is the time at which the name had it.                  *)
(***************************************************************************)
EXTENDS Integers

CONSTANTS
    Dials,       \* xray's goroutines that dial
    TTL,         \* resolveTTL
    MaxTime      \* bound of the clock

ASSUME ClientDialAssumption == TTL \in Nat \ {0} /\ MaxTime \in Nat

VARIABLES
    clock,
    cache,       \* the entry of the name; never fresh when there is none
    dial         \* [Dials -> DialStates]

dialVars == <<clock, cache, dial>>

Destinations == {"udp", "ipv6", "ipv4", "name", "fronted"}

Times == 0 .. MaxTime

DialStates ==
    [at     : {"idle", "primary", "secondary", "store", "engine", "fallback",
               "spoofed", "plain", "failed"},
     dest   : Destinations,
     asked  : Times,
     addr   : Times,
     failed : SUBSET {"primary", "secondary"}]   \* resolvers that gave no answer

Hung == [at |-> "idle", dest |-> "udp", asked |-> 0, addr |-> 0, failed |-> {}]

NoEntry == [addr |-> 0, expires |-> 0]

ClientDialInit == clock = 0 /\ cache = NoEntry /\ dial = [d \in Dials |-> Hung]

Goto(d, position) == dial' = [dial EXCEPT ![d].at = position]

Tick == clock < MaxTime /\ clock' = clock + 1 /\ UNCHANGED <<cache, dial>>

\* Dial, spoofTarget and the first half of CachingResolver.LookupIPv4.
Dial(d) ==
    /\ dial[d].at = "idle"
    /\ \E dest \in Destinations :
         LET cached == dest = "name" /\ clock < cache.expires IN
         dial' = [dial EXCEPT ![d] =
            [at     |-> CASE dest \in {"udp", "ipv6"} -> "fallback"
                          [] dest = "name" /\ ~cached -> "primary"
                          [] OTHER -> "engine",
             dest   |-> dest,
             asked  |-> clock,
             addr   |-> IF cached THEN cache.addr ELSE clock,
             failed |-> {}]]
    /\ UNCHANGED <<clock, cache>>

\* The resolver behind the cache is DoH with the system's one behind it.  An
\* answer is true at some time while it is awaited.
Answered(d) ==
    /\ dial[d].at \in {"primary", "secondary"}
    /\ dial' = [dial EXCEPT ![d].at = "store", ![d].addr = clock]
    /\ UNCHANGED <<clock, cache>>

PrimaryFails(d) ==
    /\ dial[d].at = "primary"
    /\ dial' = [dial EXCEPT ![d].at = "secondary", ![d].failed = @ \cup {"primary"}]
    /\ UNCHANGED <<clock, cache>>

SecondaryFails(d) ==
    /\ dial[d].at = "secondary"
    /\ dial' = [dial EXCEPT ![d].at = "fallback", ![d].failed = @ \cup {"secondary"}]
    /\ UNCHANGED <<clock, cache>>

StoreFromNow(d) ==
    /\ dial[d].at = "store"
    /\ cache' = [addr |-> dial[d].addr, expires |-> clock + TTL]
    /\ Goto(d, "engine")
    /\ UNCHANGED clock

\* The second half of LookupIPv4, however long the lookup has taken and whatever
\* another one has stored by now.
Store(d) ==
    /\ dial[d].at = "store"
    /\ cache' = [addr |-> dial[d].addr, expires |-> dial[d].asked + TTL]
    /\ Goto(d, "engine")
    /\ UNCHANGED clock

EngineFallsThrough(d) ==
    /\ dial[d].at = "engine"
    /\ Goto(d, "spoofed") \/ Goto(d, "fallback")
    /\ UNCHANGED <<clock, cache>>

EngineDial(d) ==
    /\ dial[d].at = "engine"
    /\ Goto(d, "spoofed") \/ Goto(d, "failed")
    /\ UNCHANGED <<clock, cache>>

FallbackDial(d) ==
    /\ dial[d].at = "fallback"
    /\ Goto(d, "plain") \/ Goto(d, "failed")
    /\ UNCHANGED <<clock, cache>>

HangUp(d) ==
    /\ dial[d].at \in {"spoofed", "plain", "failed"}
    /\ dial' = [dial EXCEPT ![d] = Hung]
    /\ UNCHANGED <<clock, cache>>

Forget == cache # NoEntry /\ cache' = NoEntry /\ UNCHANGED <<clock, dial>>

ClientDialNext ==
    \/ Tick \/ Forget
    \/ \E d \in Dials :
         \/ Dial(d) \/ Answered(d) \/ PrimaryFails(d) \/ SecondaryFails(d) \/ Store(d)
         \/ EngineDial(d) \/ FallbackDial(d) \/ HangUp(d)

ClientDialSpec == ClientDialInit /\ [][ClientDialNext]_dialVars

-----------------------------------------------------------------------------

\* "Without pinning a stale answer for long": the address a name is dialled at is
\* one the name had less than a TTL before the dial began, or later; also when
\* lookups overtake each other and a slow one replaces the answer of a newer one.
FreshAnswer ==
    \A d \in Dials :
        dial[d].at = "engine" /\ dial[d].dest = "name" => dial[d].addr > dial[d].asked - TTL

\* "Silently dialling unspoofed would look like success while doing the one thing
\* the app exists to avoid": a connection is made by the ordinary dialer only to
\* what the engine cannot dial, or to a name that neither resolver knows.
NeverQuietlyPlain ==
    \A d \in Dials :
        dial[d].at = "plain" =>
            \/ dial[d].dest \in {"udp", "ipv6"}
            \/ dial[d].dest = "name" /\ dial[d].failed = {"primary", "secondary"}
=============================================================================
