-------------------------- MODULE ClientDialProofs --------------------------
(* Proofs about ClientDial, for every number of dials, TTL and clock. *)
EXTENDS ClientDial, TLAPS

(***************************************************************************)
(* The inductive invariant.  Where a dial stands says what it is for and   *)
(* which resolvers have failed it; an answer is no older than the lookup   *)
(* it came from; and the cache's entry is an answer that was true less     *)
(* than a TTL before it expires, because Store counts from the beginning   *)
(* of the lookup.                                                          *)
(***************************************************************************)
DialTypes ==
    /\ clock \in Times
    /\ cache \in [addr : Times, expires : Nat]
    /\ dial \in [Dials -> DialStates]

Whereabouts ==
    \A d \in Dials :
        /\ dial[d].asked <= clock
        /\ dial[d].at \in {"primary", "secondary", "store"} => dial[d].dest = "name"
        /\ dial[d].at = "primary" => dial[d].failed = {}
        /\ dial[d].at = "secondary" => dial[d].failed = {"primary"}
        /\ dial[d].at \in {"fallback", "plain"} =>
             \/ dial[d].dest \in {"udp", "ipv6"}
             \/ dial[d].dest = "name" /\ dial[d].failed = {"primary", "secondary"}

Ages ==
    /\ cache.addr >= cache.expires - TTL
    /\ \A d \in Dials :
         /\ dial[d].at = "store" => dial[d].addr >= dial[d].asked
         /\ dial[d].at = "engine" /\ dial[d].dest = "name" => dial[d].addr > dial[d].asked - TTL

DialInv == DialTypes /\ Whereabouts /\ Ages

LEMMA DialInvInit == ClientDialInit => DialInv
  BY ClientDialAssumption DEF ClientDialInit, DialInv, DialTypes, Whereabouts, Ages,
       NoEntry, Hung, DialStates, Times, Destinations

\* What the invariant says of the dials other than d cannot change with d alone.
LEMMA OneDial ==
    ASSUME DialInv, NEW d \in Dials, NEW r \in DialStates,
           dial' = [dial EXCEPT ![d] = r],
           clock' = clock, cache' \in [addr : Times, expires : Nat],
           cache'.addr >= cache'.expires - TTL,
           r.asked <= clock,
           r.at \in {"primary", "secondary", "store"} => r.dest = "name",
           r.at = "primary" => r.failed = {},
           r.at = "secondary" => r.failed = {"primary"},
           r.at \in {"fallback", "plain"} =>
             \/ r.dest \in {"udp", "ipv6"}
             \/ r.dest = "name" /\ r.failed = {"primary", "secondary"},
           r.at = "store" => r.addr >= r.asked,
           r.at = "engine" /\ r.dest = "name" => r.addr > r.asked - TTL
    PROVE  DialInv'
<1>1. dial' \in [Dials -> DialStates] /\ dial'[d] = r
  BY DEF DialInv, DialTypes
<1>2. \A e \in Dials : e # d => dial'[e] = dial[e]
  BY DEF DialInv, DialTypes
<1>3. DialTypes'
  BY <1>1 DEF DialInv, DialTypes
<1>4. Whereabouts'
  BY <1>1, <1>2 DEF DialInv, Whereabouts
<1>5. Ages'
  BY <1>1, <1>2 DEF DialInv, Ages
<1> QED
  BY <1>3, <1>4, <1>5 DEF DialInv

LEMMA DialInvNext == DialInv /\ [ClientDialNext]_dialVars => DialInv'
<1> SUFFICES ASSUME DialInv, [ClientDialNext]_dialVars PROVE DialInv'
  OBVIOUS
<1> USE ClientDialAssumption
<1>types. /\ clock \in Times /\ cache \in [addr : Times, expires : Nat]
          /\ cache.addr >= cache.expires - TTL
          /\ \A d \in Dials : dial[d] \in DialStates
          /\ dial \in [Dials -> DialStates]
  BY DEF DialInv, DialTypes, Ages
<1>1. CASE Tick
  <2>1. DialTypes'
    BY <1>1, <1>types DEF Tick, DialTypes, Times
  <2>2. Whereabouts'
    BY <1>1, <1>types DEF Tick, DialInv, Whereabouts, Times, DialStates
  <2>3. Ages'
    BY <1>1 DEF Tick, DialInv, Ages
  <2> QED
    BY <2>1, <2>2, <2>3 DEF DialInv
<1>2. CASE Forget
  <2>1. DialTypes'
    BY <1>2, <1>types DEF Forget, NoEntry, DialTypes, Times
  <2>2. Whereabouts'
    BY <1>2 DEF Forget, DialInv, Whereabouts
  <2>3. Ages'
    BY <1>2 DEF Forget, NoEntry, DialInv, Ages
  <2> QED
    BY <2>1, <2>2, <2>3 DEF DialInv
<1>3. ASSUME NEW d \in Dials, Dial(d) PROVE DialInv'
  <2>1. PICK dest \in Destinations :
          dial' = [dial EXCEPT ![d] =
            [at     |-> CASE dest \in {"udp", "ipv6"} -> "fallback"
                          [] dest = "name" /\ ~(dest = "name" /\ clock < cache.expires) -> "primary"
                          [] OTHER -> "engine",
             dest   |-> dest,
             asked  |-> clock,
             addr   |-> IF dest = "name" /\ clock < cache.expires THEN cache.addr ELSE clock,
             failed |-> {}]]
    BY <1>3 DEF Dial
  <2> DEFINE r == [at     |-> CASE dest \in {"udp", "ipv6"} -> "fallback"
                          [] dest = "name" /\ ~(dest = "name" /\ clock < cache.expires) -> "primary"
                          [] OTHER -> "engine",
             dest   |-> dest,
             asked  |-> clock,
             addr   |-> IF dest = "name" /\ clock < cache.expires THEN cache.addr ELSE clock,
             failed |-> {}]
  <2>2. r \in DialStates
    BY <1>types DEF DialStates, Times
  <2>3. r.at \in {"primary", "fallback", "engine"} /\ r.dest = dest /\ r.asked = clock
        /\ r.failed = {}
    BY DEF Destinations
  <2>4. r.at = "primary" => r.dest = "name"
    BY DEF Destinations
  <2>5. r.at = "fallback" => r.dest \in {"udp", "ipv6"}
    BY DEF Destinations
  <2>6. r.at = "engine" /\ r.dest = "name" => r.addr > r.asked - TTL
    <3>1. CASE dest = "name" /\ clock < cache.expires
      BY <3>1, <1>types DEF Times
    <3>2. CASE ~(dest = "name" /\ clock < cache.expires)
      BY <3>2, <1>types DEF Times
    <3> QED
      BY <3>1, <3>2
  <2>7. dial' = [dial EXCEPT ![d] = r] /\ clock' = clock /\ cache' = cache
    BY <1>3, <2>1 DEF Dial
  <2>8. clock <= clock
    BY <1>types DEF Times
  <2> HIDE DEF r
  <2>9. /\ r.at \notin {"secondary", "store", "plain"}
        /\ r.asked <= clock
        /\ r.at = "fallback" => r.dest \in {"udp", "ipv6"}
    BY <2>3, <2>5, <2>8
  <2>10. cache' \in [addr : Times, expires : Nat] /\ cache'.addr >= cache'.expires - TTL
    BY <2>7, <1>types
  <2> QED
    BY <2>2, <2>3, <2>4, <2>6, <2>7, <2>9, <2>10, OneDial
<1>4. ASSUME NEW d \in Dials, Answered(d) PROVE DialInv'
  <2>0. dial[d] \in DialStates
    BY <1>types
  <2> DEFINE r == [dial[d] EXCEPT !.at = "store", !.addr = clock]
  <2>1. dial' = [dial EXCEPT ![d] = r] /\ clock' = clock /\ cache' = cache
    BY <1>4 DEF Answered
  <2>2. r \in DialStates
    BY <2>0, <1>types DEF DialStates, Times
  <2>3. r.at = "store" /\ r.addr = clock /\ r.asked = dial[d].asked /\ r.dest = dial[d].dest
    BY <1>types DEF DialStates
  <2>4. dial[d].dest = "name" /\ dial[d].asked <= clock
    BY <1>4 DEF Answered, DialInv, Whereabouts
  <2> HIDE DEF r
  <2> QED
    BY <2>1, <2>2, <2>3, <2>4, <1>types, OneDial DEF Times, DialStates
<1>5. ASSUME NEW d \in Dials, PrimaryFails(d) PROVE DialInv'
  <2>0. dial[d] \in DialStates
    BY <1>types
  <2> DEFINE r == [dial[d] EXCEPT !.at = "secondary", !.failed = {"primary"}]
  <2>1. dial[d].failed = {} /\ dial[d].dest = "name" /\ dial[d].asked <= clock
    BY <1>5 DEF PrimaryFails, DialInv, Whereabouts
  <2>2. dial' = [dial EXCEPT ![d] = r] /\ clock' = clock /\ cache' = cache
    BY <1>5, <2>1 DEF PrimaryFails
  <2>3. r \in DialStates
    BY <2>0, <1>types DEF DialStates, Times
  <2>4. r.at = "secondary" /\ r.failed = {"primary"} /\ r.asked = dial[d].asked
        /\ r.dest = dial[d].dest
    BY <1>types DEF DialStates
  <2> HIDE DEF r
  <2> QED
    BY <2>1, <2>2, <2>3, <2>4, <1>types, OneDial
<1>6. ASSUME NEW d \in Dials, SecondaryFails(d) PROVE DialInv'
  <2>0. dial[d] \in DialStates
    BY <1>types
  <2> DEFINE r == [dial[d] EXCEPT !.at = "fallback", !.failed = {"primary", "secondary"}]
  <2>1. dial[d].failed = {"primary"} /\ dial[d].dest = "name" /\ dial[d].asked <= clock
    BY <1>6 DEF SecondaryFails, DialInv, Whereabouts
  <2>2. dial' = [dial EXCEPT ![d] = r] /\ clock' = clock /\ cache' = cache
    <3>1. dial[d].failed \cup {"secondary"} = {"primary", "secondary"}
      BY <2>1
    <3> QED
      BY <1>6, <3>1 DEF SecondaryFails
  <2>3. r \in DialStates
    BY <2>0, <1>types DEF DialStates, Times
  <2>4. r.at = "fallback" /\ r.failed = {"primary", "secondary"} /\ r.asked = dial[d].asked
        /\ r.dest = dial[d].dest
    BY <1>types DEF DialStates
  <2> HIDE DEF r
  <2> QED
    BY <2>1, <2>2, <2>3, <2>4, <1>types, OneDial
<1>7. ASSUME NEW d \in Dials, Store(d) PROVE DialInv'
  <2>0. dial[d] \in DialStates
    BY <1>types
  <2> DEFINE r == [dial[d] EXCEPT !.at = "engine"]
  <2>1. /\ dial' = [dial EXCEPT ![d] = r] /\ clock' = clock
        /\ cache' = [addr |-> dial[d].addr, expires |-> dial[d].asked + TTL]
    BY <1>7 DEF Store, Goto
  <2>2. r \in DialStates
    BY <2>0, <1>types DEF DialStates, Times
  <2>3. r.at = "engine" /\ r.asked = dial[d].asked /\ r.addr = dial[d].addr
    BY <1>types DEF DialStates
  <2>4. dial[d].asked <= clock /\ dial[d].addr >= dial[d].asked
    BY <1>7 DEF Store, DialInv, Whereabouts, Ages
  <2>5. dial[d].asked \in Times /\ dial[d].addr \in Times
    BY <1>types DEF DialStates
  <2>6. cache' \in [addr : Times, expires : Nat] /\ cache'.addr >= cache'.expires - TTL
    BY <2>1, <2>4, <2>5 DEF Times
  <2>7. r.addr > r.asked - TTL
    BY <2>3, <2>4, <2>5 DEF Times
  <2> HIDE DEF r
  <2> QED
    BY <2>1, <2>2, <2>3, <2>4, <2>6, <2>7, OneDial
<1>8. ASSUME NEW d \in Dials, EngineDial(d) \/ FallbackDial(d) PROVE DialInv'
  <2>0. dial[d] \in DialStates
    BY <1>types
  <2>1. PICK p \in {"spoofed", "plain", "failed"} :
          /\ dial' = [dial EXCEPT ![d].at = p]
          /\ p = "plain" => dial[d].at = "fallback"
    BY <1>8 DEF EngineDial, FallbackDial, Goto
  <2> DEFINE r == [dial[d] EXCEPT !.at = p]
  <2>2. dial' = [dial EXCEPT ![d] = r] /\ clock' = clock /\ cache' = cache
    BY <1>8, <2>1 DEF EngineDial, FallbackDial
  <2>3. r \in DialStates
    BY <2>0, <1>types DEF DialStates, Times
  <2>4. r.at = p /\ r.asked = dial[d].asked /\ r.dest = dial[d].dest /\ r.failed = dial[d].failed
    BY <1>types DEF DialStates
  <2>5. /\ dial[d].asked <= clock
        /\ dial[d].at = "fallback" =>
             \/ dial[d].dest \in {"udp", "ipv6"}
             \/ dial[d].dest = "name" /\ dial[d].failed = {"primary", "secondary"}
    BY DEF DialInv, Whereabouts
  <2>6. /\ r.at \notin {"primary", "secondary", "store", "engine", "fallback"}
        /\ r.asked <= clock
    BY <2>4, <2>5
  <2>7. r.at = "plain" =>
          \/ r.dest \in {"udp", "ipv6"}
          \/ r.dest = "name" /\ r.failed = {"primary", "secondary"}
    BY <2>1, <2>4, <2>5
  <2>8. cache' \in [addr : Times, expires : Nat] /\ cache'.addr >= cache'.expires - TTL
    BY <2>2, <1>types
  <2> HIDE DEF r
  <2> QED
    BY <2>2, <2>3, <2>6, <2>7, <2>8, OneDial
<1>9. ASSUME NEW d \in Dials, HangUp(d) PROVE DialInv'
  <2>1. dial' = [dial EXCEPT ![d] = Hung] /\ clock' = clock /\ cache' = cache
    BY <1>9 DEF HangUp
  <2>2. Hung \in DialStates /\ Hung.at = "idle" /\ Hung.asked <= clock
    BY <1>types DEF Hung, DialStates, Destinations, Times
  <2> QED
    BY <2>1, <2>2, <1>types, OneDial
<1>10. CASE UNCHANGED dialVars
  BY <1>10 DEF dialVars, DialInv, DialTypes, Whereabouts, Ages
<1> QED
  BY <1>1, <1>2, <1>3, <1>4, <1>5, <1>6, <1>7, <1>8, <1>9, <1>10 DEF ClientDialNext

LEMMA DialInvAlways == ClientDialSpec => []DialInv
  BY DialInvInit, DialInvNext, PTL DEF ClientDialSpec

(***************************************************************************)
(* However lookups overtake each other, no name is dialled at an address   *)
(* it had given up a TTL before the dial began.                            *)
(***************************************************************************)
THEOREM FreshAnswerCorrect == ClientDialSpec => []FreshAnswer
<1>1. DialInv => FreshAnswer
  BY DEF DialInv, Ages, FreshAnswer
<1> QED
  BY <1>1, DialInvAlways, PTL

(***************************************************************************)
(* A dial that the engine could have made is never made by the ordinary    *)
(* dialer, whatever fails.                                                 *)
(***************************************************************************)
THEOREM NeverQuietlyPlainCorrect == ClientDialSpec => []NeverQuietlyPlain
<1>1. DialInv => NeverQuietlyPlain
  BY DEF DialInv, Whereabouts, NeverQuietlyPlain
<1> QED
  BY <1>1, DialInvAlways, PTL
=============================================================================
