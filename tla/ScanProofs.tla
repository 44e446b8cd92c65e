----------------------------- MODULE ScanProofs -----------------------------
(***************************************************************************)
(* Proofs about the scans: the search for a route (Scanner), for any       *)
(* number of candidates, latencies and workers, and the source ports of    *)
(* its engine (Ports), for every range and every size of the window.       *)
(***************************************************************************)
EXTENDS Scanner, Ports, FiniteSetTheorems, TLAPS

-----------------------------------------------------------------------------
(* The workers.                                                            *)

ScannerTypeOK ==
    /\ scan \in {"probe", "verify", "ranked", "closed"}
    /\ worker \in [Candidates -> {"none", "waiting", "running", "done"}]
    /\ latency \in [Candidates -> Latencies \cup {Unreachable}]
    /\ verified \subseteq Candidates

\* What is over stays over, and a slot is taken only while one is free.
WorkersInv ==
    /\ ScannerTypeOK
    /\ scan \in {"ranked", "closed"} => AllDone
    /\ Cardinality(Running) <= Limit

LEMMA RunningFinite ==
    ASSUME NEW S \in SUBSET Candidates
    PROVE  IsFiniteSet(S) /\ Cardinality(S) \in Nat
BY ScannerAssumption, FS_Subset, FS_CardinalityType

LEMMA LimitType == Limit \in Nat \ {0}
BY ScannerAssumption DEF Limit

LEMMA NobodyRuns ==
    ASSUME ScannerTypeOK, AllDone
    PROVE  Running = {} /\ Cardinality(Running) = 0
<1>1. Running = {}
  BY DEF AllDone, Running
<1> QED BY <1>1, FS_EmptySet

\* A worker that ends makes room; nothing else changes for the others.
LEMMA WorkerEnds ==
    ASSUME WorkersInv, NEW c \in Candidates, Move(c, "done"), scan' = scan
    PROVE  /\ worker' \in [Candidates -> {"none", "waiting", "running", "done"}]
           /\ AllDone => AllDone'
           /\ Cardinality(Running') <= Limit'
<1>1. Running' \subseteq Running /\ Running \subseteq Candidates /\ Limit' = Limit
  BY DEF Running, Move, Limit, WorkersInv, ScannerTypeOK
<1>2. Cardinality(Running') <= Cardinality(Running)
  BY <1>1, RunningFinite, FS_Subset
<1>3. Cardinality(Running) \in Nat /\ Cardinality(Running') \in Nat /\ Limit \in Nat
  BY <1>1, RunningFinite, LimitType
<1>4. Cardinality(Running') <= Limit'
  BY <1>1, <1>2, <1>3 DEF WorkersInv
<1> QED BY <1>4 DEF Move, AllDone, WorkersInv, ScannerTypeOK

LEMMA WorkersInvInit == ScannerInit => WorkersInv
<1> SUFFICES ASSUME ScannerInit PROVE WorkersInv
  OBVIOUS
<1>1. Running = {}
  BY DEF ScannerInit, Running
<1> QED BY <1>1, LimitType, FS_EmptySet DEF ScannerInit, WorkersInv, ScannerTypeOK

LEMMA WorkersInvStep == WorkersInv /\ [ScannerNext]_scannerVars => WorkersInv'
<1> SUFFICES ASSUME WorkersInv, [ScannerNext]_scannerVars PROVE WorkersInv'
  OBVIOUS
<1> USE DEF WorkersInv
<1>1. CASE Cancel \/ UNCHANGED scannerVars
  BY <1>1 DEF Cancel, scannerVars, ScannerTypeOK, AllDone, Running, Limit
<1>2. ASSUME NEW c \in Candidates, TakeSlot(c) PROVE WorkersInv'
  <2>1. /\ Running' = Running \cup {c} /\ c \notin Running /\ Running \subseteq Candidates
        /\ Limit' = Limit /\ scan' = scan
    BY <1>2 DEF TakeSlot, Move, Running, Limit, ScannerTypeOK
  <2>2. Cardinality(Running') = Cardinality(Running) + 1
    BY <2>1, RunningFinite, FS_AddElement
  <2>3. Cardinality(Running') <= Limit'
    BY <1>2, <2>1, <2>2, RunningFinite, LimitType DEF TakeSlot
  <2>4. ScannerTypeOK'
    BY <1>2 DEF TakeSlot, Move, ScannerTypeOK
  <2>5. scan' \notin {"ranked", "closed"}
    BY <1>2 DEF TakeSlot, AllDone
  <2> QED BY <2>3, <2>4, <2>5
<1>3. ASSUME NEW c \in Candidates, GiveUp(c) PROVE WorkersInv'
  BY <1>3, WorkerEnds DEF GiveUp, ScannerTypeOK
<1>4. ASSUME NEW c \in Candidates, Probed(c) PROVE WorkersInv'
  BY <1>4, WorkerEnds DEF Probed, ScannerTypeOK
<1>5. ASSUME NEW c \in Candidates, Verified(c) PROVE WorkersInv'
  BY <1>5, WorkerEnds DEF Verified, ScannerTypeOK
<1>6. CASE SortByLatency
  <2>1. /\ scan' \in {"ranked", "verify"}
        /\ worker' \in [Candidates -> {"none", "waiting"}]
        /\ UNCHANGED <<latency, verified>>
    BY <1>6 DEF SortByLatency
  <2>2. scan' = "ranked" => AllDone'
    <3> SUFFICES ASSUME scan' = "ranked", NEW c \in Candidates PROVE worker'[c] = "none"
      BY DEF AllDone
    <3>1. PICK s \in Orders(Reached) :
            /\ scan' = IF s = <<>> THEN "ranked" ELSE "verify"
            /\ worker' = [d \in Candidates |->
                 IF \E i \in DOMAIN s : s[i] = d /\ i <= Verify THEN "waiting" ELSE "none"]
      BY <1>6 DEF SortByLatency
    <3>2. DOMAIN s = {}
      BY <3>1
    <3> QED BY <3>1, <3>2
  <2>3. Running' = {}
    BY <2>1 DEF Running
  <2>4. Cardinality(Running') <= Limit'
    BY <2>3, ScannerAssumption, FS_EmptySet DEF Limit
  <2>5. ScannerTypeOK'
    BY <2>1 DEF ScannerTypeOK
  <2> QED BY <2>1, <2>2, <2>4, <2>5
<1>7. CASE Rank
  BY <1>7, NobodyRuns, LimitType DEF Rank, ScannerTypeOK, AllDone, Running, Limit
<1>8. CASE Adopt
  BY <1>8, NobodyRuns, LimitType DEF Adopt, ScannerTypeOK, AllDone, Running, Limit
<1> QED BY <1>1, <1>2, <1>3, <1>4, <1>5, <1>6, <1>7, <1>8 DEF ScannerNext, ScanStep

\* Whenever workers take slots, end or are cancelled: the list is ranked and the
\* engine closed only after the last of them, and they never outnumber the slots.
THEOREM WorkersKeptCorrect == ScannerSpec => []WorkersKept
<1>1. WorkersInv => WorkersKept
  BY NobodyRuns DEF WorkersInv, WorkersKept
<1> QED BY <1>1, WorkersInvInit, WorkersInvStep, PTL DEF ScannerSpec

-----------------------------------------------------------------------------
(* The choice of a route.                                                  *)

\* An order of a finite set names all of it.
LEMMA OrderCovers ==
    ASSUME NEW S \in SUBSET Candidates, NEW s \in Orders(S)
    PROVE  /\ Cardinality(S) \in Nat /\ DOMAIN s = 1 .. Cardinality(S) /\ s \in Seq(S)
           /\ \A i \in DOMAIN s : s[i] \in S
           /\ \A c \in S : \E i \in DOMAIN s : s[i] = c
           /\ {s[i] : i \in DOMAIN s} = S
<1> DEFINE N == Cardinality(S)
<1>1. IsFiniteSet(S) /\ N \in Nat
  BY RunningFinite
<1>2. s \in [1 .. N -> S] /\ \A i, j \in 1 .. N : s[i] = s[j] => i = j
  BY DEF Orders
<1>3. s \in Injection(1 .. N, S)
  BY <1>2 DEF Injection, IsInjective
<1>4. Cardinality(1 .. N) = N
  BY <1>1, FS_Interval
<1>5. s \in Surjection(1 .. N, S)
  BY <1>1, <1>3, <1>4, FS_Injection
<1>6. \A c \in S : \E i \in 1 .. N : s[i] = c
  BY <1>5 DEF Surjection
<1> QED BY <1>1, <1>2, <1>6

\* What is true of every initial part of a list is true of one of its lengths.
LEMMA InitialPart ==
    ASSUME NEW N \in Nat, NEW S \in SUBSET (1 .. N),
           \A i \in S : \A j \in 1 .. i : j \in S
    PROVE  Cardinality(S) \in Nat /\ S = 1 .. Cardinality(S)
<1> DEFINE n == Cardinality(S)
<1>1. IsFiniteSet(S) /\ n \in Nat
  <2>1. IsFiniteSet(1 .. N)
    BY FS_Interval
  <2> QED BY <2>1, FS_Subset, FS_CardinalityType
<1>2. ASSUME NEW i \in S PROVE i \in 1 .. n
  <2>1. (1 .. i) \in SUBSET S /\ Cardinality(1 .. i) = i
    BY FS_Interval
  <2>2. i <= n
    BY <1>1, <2>1, FS_Subset
  <2> QED BY <1>1, <2>2
<1>3. S \in SUBSET (1 .. n) /\ IsFiniteSet(1 .. n) /\ Cardinality(1 .. n) = n
  BY <1>1, <1>2, FS_Interval
<1>4. S = 1 .. n
  BY <1>3, FS_Subset
<1> QED BY <1>1, <1>4

\* The list holds what answered, and what a worker verifies is on it; once it is
\* ranked, nothing stands behind what it is better than.
ListInv ==
    /\ ScannerTypeOK
    /\ scan = "probe" => verified = {}
    /\ scan # "probe" => alive \in Orders(Reached) /\ verified \subseteq Reached
    /\ scan = "verify" => \A c \in Candidates : worker[c] # "none" => c \in Reached
    /\ scan = "ranked" => \A i, j \in DOMAIN alive : i < j => ~Better(alive[j], alive[i])
    /\ AdoptsOnlyProven

\* In a ranked list the verified addresses come first.
LEMMA ProvenFirst ==
    ASSUME ListInv, scan = "ranked"
    PROVE  /\ Cardinality(Proven) \in Nat /\ Cardinality(verified) = Cardinality(Proven)
           /\ Proven = 1 .. Cardinality(Proven)
           /\ \A k \in Proven : NthProven(k) = k
           /\ \A c \in verified : \E i \in Proven : alive[i] = c
<1> DEFINE N == Cardinality(Reached)
           n == Cardinality(Proven)
<1>1. Reached \in SUBSET Candidates /\ alive \in Orders(Reached) /\ verified \subseteq Reached
  BY DEF ListInv, Reached
<1>2. N \in Nat /\ DOMAIN alive = 1 .. N
  BY <1>1, OrderCovers
<1>3. Proven \in SUBSET (1 .. N)
  BY <1>2 DEF Proven
<1>4. \A i \in Proven : \A j \in 1 .. i : j \in Proven
  <2> SUFFICES ASSUME NEW i \in Proven, NEW j \in 1 .. i, j # i, alive[j] \notin verified
               PROVE  FALSE
    BY <1>2, <1>3 DEF Proven
  <2>1. i \in DOMAIN alive /\ j \in DOMAIN alive /\ j < i /\ alive[i] \in verified
    BY <1>2, <1>3 DEF Proven
  <2> QED BY <2>1 DEF ListInv, Better
<1>5. n \in Nat /\ Proven = 1 .. n
  BY <1>2, <1>3, <1>4, InitialPart
<1>6. \A k \in Proven : NthProven(k) = k
  <2> SUFFICES ASSUME NEW k \in Proven PROVE NthProven(k) = k
    OBVIOUS
  <2>1. \A i \in Proven : Cardinality({j \in Proven : j <= i}) = i
    <3> SUFFICES ASSUME NEW i \in Proven PROVE Cardinality({j \in Proven : j <= i}) = i
      OBVIOUS
    <3>1. i \in Int /\ i >= 1 /\ i <= n
      BY <1>5
    <3>2. {j \in Proven : j <= i} = 1 .. i
      BY <1>5, <3>1
    <3>3. Cardinality(1 .. i) = i
      BY <3>1, FS_Interval
    <3> QED BY <3>2, <3>3
  <2> QED BY <2>1 DEF NthProven
<1>7. \A c \in verified : \E i \in Proven : alive[i] = c
  BY <1>1, OrderCovers DEF Proven
<1>8. Cardinality(verified) = n
  <2> DEFINE f == [i \in 1 .. n |-> alive[i]]
  <2>1. \A i \in 1 .. n : alive[i] \in verified /\ i \in DOMAIN alive
    BY <1>5 DEF Proven
  <2>2. \A i, j \in 1 .. n : alive[i] = alive[j] => i = j
    BY <1>1, <2>1 DEF Orders
  <2>3. f \in Bijection(1 .. n, verified)
    BY <1>5, <1>7, <2>1, <2>2 DEF Bijection, Injection, IsInjective, Surjection
  <2>4. ExistsBijection(1 .. n, verified)
    BY <2>3 DEF ExistsBijection
  <2> QED BY <1>5, <2>4, FS_CountingElements
<1> QED BY <1>5, <1>6, <1>7, <1>8

LEMMA AdoptListInv == ASSUME ListInv, Adopt PROVE ListInv'
<1>1. /\ scan = "ranked" /\ scan' = "closed"
      /\ UNCHANGED <<worker, latency, verified, alive, cancelled>>
  BY DEF Adopt
<1> DEFINE n == Cardinality(Proven)
           m == IF n < Keep THEN n ELSE Keep
<1>2. /\ n \in Nat /\ Cardinality(verified) = n /\ Proven = 1 .. n
      /\ \A k \in 1 .. n : NthProven(k) = k
      /\ \A c \in verified : \E i \in 1 .. n : alive[i] = c
  BY <1>1, ProvenFirst
<1>3. m \in Nat /\ m <= n
  BY <1>2, ScannerAssumption
<1>4. \A i \in 1 .. n : i \in DOMAIN alive /\ alive[i] \in verified
  BY <1>2 DEF Proven
<1>5. \A i, j \in 1 .. n : i < j => ~Faster(alive[j], alive[i])
  BY <1>1, <1>4 DEF ListInv, Better
<1> HIDE DEF m
<1>6. route' = [k \in 1 .. m |-> alive[k]]
  <2>1. route' = [k \in 1 .. m |-> alive[NthProven(k)]]
    BY DEF Adopt, m
  <2> QED BY <1>2, <1>3, <2>1
<1>7. /\ DOMAIN route' = 1 .. m /\ Len(route') = m
      /\ \A k \in 1 .. m : route'[k] = alive[k]
  BY <1>3, <1>6
<1>8. \A c, d : Faster(c, d)' <=> Faster(c, d)
  BY <1>1 DEF Faster
<1>9. AdoptsOnlyProven'
  <2> DEFINE taken == {route'[i] : i \in DOMAIN route'}
  <2>1. taken \subseteq verified
    <3> SUFFICES ASSUME NEW k \in 1 .. m PROVE alive[k] \in verified
      BY <1>7
    <3>1. k \in 1 .. n
      BY <1>2, <1>3
    <3> QED BY <1>4, <3>1
  <2>2. Len(route') = IF Cardinality(verified) < Keep THEN Cardinality(verified) ELSE Keep
    BY <1>2, <1>7 DEF m
  <2>3. \A c \in verified \ taken, d \in taken : ~Faster(c, d)
    <3> SUFFICES ASSUME NEW c \in verified \ taken, NEW d \in taken PROVE ~Faster(c, d)
      OBVIOUS
    <3>1. PICK i \in 1 .. n : alive[i] = c
      BY <1>2
    <3>2. PICK k \in 1 .. m : alive[k] = d
      BY <1>7
    <3>3. i \notin 1 .. m
      BY <1>7, <3>1
    <3>4. k < i /\ k \in 1 .. n
      BY <1>2, <1>3, <3>3
    <3> QED BY <1>5, <3>1, <3>2, <3>4
  <2>4. \A i, j \in DOMAIN route' : i < j => ~Faster(route'[j], route'[i])
    BY <1>2, <1>3, <1>5, <1>7
  <2> QED BY <1>1, <1>8, <2>1, <2>2, <2>3, <2>4 DEF AdoptsOnlyProven
<1> QED BY <1>1, <1>9 DEF ListInv, ScannerTypeOK, Reached

LEMMA ListInvInit == ScannerInit => ListInv
BY DEF ScannerInit, ListInv, ScannerTypeOK, AdoptsOnlyProven

LEMMA ListInvStep == ListInv /\ [ScannerNext]_scannerVars => ListInv'
<1> SUFFICES ASSUME ListInv, [ScannerNext]_scannerVars PROVE ListInv'
  OBVIOUS
<1>1. ASSUME UNCHANGED <<scan, latency, verified, alive, route>>,
             worker' \in [Candidates -> {"none", "waiting", "running", "done"}],
             \A c \in Candidates : worker'[c] # "none" => worker[c] # "none"
      PROVE  ListInv'
  BY <1>1 DEF ListInv, ScannerTypeOK, Reached, Better, Faster, AdoptsOnlyProven
<1>2. CASE Cancel \/ UNCHANGED scannerVars
  BY <1>1, <1>2 DEF Cancel, scannerVars, ListInv, ScannerTypeOK
<1>3. ASSUME NEW c \in Candidates, TakeSlot(c) \/ GiveUp(c) PROVE ListInv'
  BY <1>1, <1>3 DEF TakeSlot, GiveUp, Move, ListInv, ScannerTypeOK
<1>4. ASSUME NEW c \in Candidates, Probed(c) PROVE ListInv'
  <2>1. /\ scan = "probe" /\ scan' = "probe" /\ verified' = verified
        /\ latency' \in [Candidates -> Latencies \cup {Unreachable}]
        /\ worker' \in [Candidates -> {"none", "waiting", "running", "done"}]
    BY <1>4 DEF Probed, Move, ListInv, ScannerTypeOK
  <2> QED BY <2>1 DEF ListInv, ScannerTypeOK, AdoptsOnlyProven
<1>5. ASSUME NEW c \in Candidates, Verified(c) PROVE ListInv'
  <2>1. /\ scan = "verify" /\ scan' = "verify" /\ worker[c] # "none"
        /\ UNCHANGED <<latency, alive>> /\ verified' \subseteq verified \cup {c}
        /\ worker' \in [Candidates -> {"none", "waiting", "running", "done"}]
        /\ \A d \in Candidates : worker'[d] # "none" => worker[d] # "none"
    BY <1>5 DEF Verified, Move, ListInv, ScannerTypeOK
  <2>2. Reached' = Reached /\ c \in Reached
    BY <2>1 DEF ListInv, Reached
  <2> QED BY <2>1, <2>2 DEF ListInv, ScannerTypeOK, AdoptsOnlyProven
<1>6. CASE SortByLatency
  <2>1. /\ scan = "probe" /\ verified = {} /\ UNCHANGED <<latency, verified>>
    BY <1>6 DEF SortByLatency, ListInv
  <2>2. PICK s \in Orders(Reached) :
          /\ alive' = s
          /\ scan' = IF s = <<>> THEN "ranked" ELSE "verify"
          /\ worker' = [d \in Candidates |->
               IF \E i \in DOMAIN s : s[i] = d /\ i <= Verify THEN "waiting" ELSE "none"]
    BY <1>6 DEF SortByLatency
  <2>3. Reached' = Reached /\ Reached \in SUBSET Candidates
    BY <2>1 DEF Reached
  <2>4. \A d \in Candidates : worker'[d] # "none" => d \in Reached
    <3>1. \A i \in DOMAIN s : s[i] \in Reached
      BY <2>3, OrderCovers
    <3> QED BY <2>2, <3>1
  <2>5. s = <<>> => DOMAIN alive' = {}
    BY <2>2
  <2>6. worker' \in [Candidates -> {"none", "waiting", "running", "done"}]
    BY <2>2
  <2> QED BY <2>1, <2>2, <2>3, <2>4, <2>5, <2>6 DEF ListInv, ScannerTypeOK, AdoptsOnlyProven
<1>7. CASE Rank
  <2>1. /\ scan = "verify" /\ scan' = "ranked" /\ alive' \in ByProof
        /\ UNCHANGED <<worker, latency, verified, cancelled, route>>
    BY <1>7 DEF Rank
  <2>2. Reached' = Reached /\ Reached \in SUBSET Candidates /\ alive \in Orders(Reached)
    BY <2>1 DEF Reached, ListInv
  <2>3. {alive[i] : i \in DOMAIN alive} = Reached
    BY <2>2, OrderCovers
  <2>4. /\ alive' \in Orders(Reached)
        /\ \A i, j \in DOMAIN alive' : i < j => ~Better(alive'[j], alive'[i])
    BY <2>1, <2>3 DEF ByProof
  <2>5. \A c, d : Better(c, d)' <=> Better(c, d)
    BY <2>1 DEF Better, Faster
  <2> QED BY <2>1, <2>2, <2>4, <2>5 DEF ListInv, ScannerTypeOK, AdoptsOnlyProven
<1>8. CASE Adopt
  BY <1>8, AdoptListInv
<1> QED BY <1>2, <1>3, <1>4, <1>5, <1>6, <1>7, <1>8 DEF ScannerNext, ScanStep

\* However the workers ended and whenever the search was cut off: the route that a
\* connect goes on with holds verified addresses only, the fastest of them in
\* order, and as many as there are or autoKeep.
THEOREM AdoptsOnlyProvenCorrect == ScannerSpec => []AdoptsOnlyProven
<1>1. ListInv => AdoptsOnlyProven
  BY DEF ListInv
<1> QED BY <1>1, ListInvInit, ListInvStep, PTL DEF ScannerSpec

-----------------------------------------------------------------------------
(* The ports.                                                              *)

(***************************************************************************)
(* What scanPortRange returns for a range that passes Validate: a window   *)
(* of ScanPortWindow existing ports, wholly above the range or wholly      *)
(* below it.                                                               *)
(***************************************************************************)
LEMMA WindowBeside ==
    ASSUME NEW r, ValidRange(r), ScanPortRange(r) # NoRange
    PROVE  LET w == ScanPortRange(r) IN
           /\ w \in Int \X Int
           /\ 1 <= w[1] /\ w[1] <= w[2] /\ w[2] <= MaxPort
           /\ w[2] - w[1] + 1 = ScanPortWindow
           /\ w[1] > r[2] \/ w[2] < r[1]
  BY PortsAssumption DEF ValidRange, ScanPortRange

(***************************************************************************)
(* The inductive invariant: every range in use passed Validate when it was *)
(* taken from the settings, and the window in use is the one of the range  *)
(* the scan began with, unless the scan is ProbeSNIs.                      *)
(***************************************************************************)
Built ==
    /\ ValidRange(range)
    /\ tunnel = NoRange \/ ValidRange(tunnel)
    /\ \/ scanPorts = NoRange
       \/ probing
       \/ ValidRange(scanFrom) /\ scanPorts = ScanPortRange(scanFrom)

LEMMA BuiltInit == PortsInit => Built
  BY DEF PortsInit, Built, Ranges

LEMMA BuiltNext == Built /\ [PortsNext]_portsVars => Built'
<1> SUFFICES ASSUME Built, [PortsNext]_portsVars PROVE Built'
  OBVIOUS
<1>1. CASE SaveRange
  BY <1>1 DEF SaveRange, Built, Ranges
<1>2. CASE Connect
  BY <1>2 DEF Connect, Built
<1>3. CASE Disconnect
  BY <1>3 DEF Disconnect, Built
<1>4. CASE NewScanEngine
  BY <1>4 DEF NewScanEngine, Built
<1>5. CASE CloseScanEngine \/ NewProbeEngine
  BY <1>5 DEF CloseScanEngine, NewProbeEngine, Built
<1>6. CASE UNCHANGED portsVars
  BY <1>6 DEF portsVars, Built
<1> QED
  BY <1>1, <1>2, <1>3, <1>4, <1>5, <1>6 DEF PortsNext

LEMMA BuiltApart == Built => NoSharedPort
<1> SUFFICES ASSUME Built, scanPorts # NoRange, ~probing
             PROVE  /\ 1 <= scanPorts[1] /\ scanPorts[1] <= scanPorts[2]
                    /\ scanPorts[2] <= MaxPort
                    /\ tunnel = scanFrom => Apart
  BY DEF NoSharedPort
<1>1. ValidRange(scanFrom) /\ scanPorts = ScanPortRange(scanFrom)
  BY DEF Built
<1>2. /\ scanPorts \in Int \X Int
      /\ 1 <= scanPorts[1] /\ scanPorts[1] <= scanPorts[2] /\ scanPorts[2] <= MaxPort
      /\ scanPorts[1] > scanFrom[2] \/ scanPorts[2] < scanFrom[1]
  BY <1>1, WindowBeside
<1>3. ASSUME tunnel = scanFrom, NEW p \in 1 .. MaxPort
      PROVE  ~(In(p, tunnel) /\ In(p, scanPorts))
  BY <1>1, <1>2, <1>3, PortsAssumption DEF In, ValidRange
<1> QED
  BY <1>2, <1>3 DEF Apart

(***************************************************************************)
(* For every set of ports, window and range: a scan that computes a window *)
(* and a connection begun with the same settings never hand out the same   *)
(* source port.                                                            *)
(***************************************************************************)
THEOREM NeverSharedPort == PortsSpec => []NoSharedPort
  BY BuiltInit, BuiltNext, BuiltApart, PTL DEF PortsSpec
=============================================================================
