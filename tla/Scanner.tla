------------------------------ MODULE Scanner ------------------------------
(***************************************************************************)
(* scanner.ScanIPs (src/internal/scanner/scanner.go) and the choice that   *)
(* autoSelectRoute (src/app_auto.go) makes from its results.               *)
(*                                                                         *)
(* Every candidate has a goroutine in each phase.  A latency is a number;  *)
(* Unreachable stands for -1.                                              *)
(***************************************************************************)
EXTENDS Integers, Sequences, FiniteSets

CONSTANTS
    Candidates,
    Latencies,
    ProbeConcurrency, VerifyConcurrency,
    Verify,             \* how many of the fastest are verified
    Keep                \* autoKeep

ASSUME ScannerAssumption ==
    /\ IsFiniteSet(Candidates)
    /\ Latencies \subseteq Nat /\ Verify \in Nat /\ Keep \in Nat
    /\ ProbeConcurrency \in Nat \ {0} /\ VerifyConcurrency \in Nat \ {0}

Unreachable == -1

VARIABLES
    scan,      \* probe, verify, ranked; then closed, when the engine is
    worker,    \* [Candidates -> {"none", "waiting", "running", "done"}]
    latency,   \* [Candidates -> Latencies \cup {Unreachable}]
    verified,  \* the candidates that completed a session
    alive,     \* the result, best first
    cancelled, \* the context has ended: its budget, or CancelScan
    route      \* the edges in use: <<>> are the configured ones

scannerVars == <<scan, worker, latency, verified, alive, cancelled, route>>

ScannerInit ==
    /\ scan = "probe"
    /\ worker = [c \in Candidates |-> "waiting"]
    /\ latency = [c \in Candidates |-> Unreachable]
    /\ verified = {} /\ alive = <<>>
    /\ cancelled = FALSE
    /\ route = <<>>

Running == {c \in Candidates : worker[c] = "running"}

Limit == IF scan = "probe" THEN ProbeConcurrency ELSE VerifyConcurrency

Move(c, position) == worker' = [worker EXCEPT ![c] = position]

Cancel ==
    /\ ~cancelled
    /\ cancelled' = TRUE
    /\ UNCHANGED <<scan, worker, latency, verified, alive, route>>

\* Between a free slot and a cancellation, select chooses either.
TakeSlot(c) ==
    /\ worker[c] = "waiting" /\ Cardinality(Running) < Limit
    /\ Move(c, "running")
    /\ UNCHANGED <<scan, latency, verified, alive, cancelled, route>>

GiveUp(c) ==
    /\ worker[c] = "waiting" /\ cancelled
    /\ Move(c, "done")
    /\ UNCHANGED <<scan, latency, verified, alive, cancelled, route>>

\* The connect answers, fails, times out or is cancelled.
Probed(c) ==
    /\ scan = "probe" /\ worker[c] = "running"
    /\ \E l \in Latencies \cup {Unreachable} : latency' = [latency EXCEPT ![c] = l]
    /\ Move(c, "done")
    /\ UNCHANGED <<scan, verified, alive, cancelled, route>>

\* The session completes, or it does not.
Verified(c) ==
    /\ scan = "verify" /\ worker[c] = "running"
    /\ verified' \in {verified, verified \cup {c}}
    /\ Move(c, "done")
    /\ UNCHANGED <<scan, latency, alive, cancelled, route>>

\* wg.Wait.
AllDone == \A c \in Candidates : worker[c] \in {"none", "done"}

Faster(c, d) == latency[c] < latency[d]

\* Without the way out when nothing is reachable, for comparison.
SortNeedsAlive ==
    /\ scan = "probe" /\ AllDone
    /\ \E c \in Candidates :
         /\ latency[c] >= 0
         /\ alive' = <<c>> /\ scan' = "verify"
         /\ worker' = [worker EXCEPT ![c] = "waiting"]
    /\ UNCHANGED <<latency, verified, cancelled, route>>

Reached == {c \in Candidates : latency[c] >= 0}

\* The sequences in which every member of S occurs once.
Orders(S) ==
    {s \in [1 .. Cardinality(S) -> S] : \A i, j \in DOMAIN s : s[i] = s[j] => i = j}

\* sort.Slice, in an order of its own among equals; nothing to verify ends it.
SortByLatency ==
    /\ scan = "probe" /\ AllDone
    /\ \E s \in Orders(Reached) :
         /\ \A i, j \in DOMAIN s : i < j => ~Faster(s[j], s[i])
         /\ alive' = s
         /\ scan' = IF s = <<>> THEN "ranked" ELSE "verify"
         /\ worker' = [c \in Candidates |->
                         IF \E i \in DOMAIN s : s[i] = c /\ i <= Verify THEN "waiting" ELSE "none"]
    /\ UNCHANGED <<latency, verified, cancelled, route>>

\* What is verified comes first, and of two alike the faster one.
Better(c, d) ==
    IF c \in verified <=> d \in verified THEN Faster(c, d) ELSE c \in verified

Place(c) == CHOOSE i \in DOMAIN alive : alive[i] = c

\* sort.SliceStable: equals keep their order.
ByProof ==
    {s \in Orders({alive[i] : i \in DOMAIN alive}) : \A i, j \in DOMAIN s : i < j =>
        /\ ~Better(s[j], s[i])
        /\ Better(s[i], s[j]) \/ Place(s[i]) < Place(s[j])}

RankWithoutWaiting ==
    /\ scan = "verify" /\ \A c \in Candidates : worker[c] # "waiting"
    /\ scan' = "ranked" /\ alive' \in ByProof
    /\ UNCHANGED <<worker, latency, verified, cancelled, route>>

Rank ==
    /\ scan = "verify" /\ AllDone
    /\ scan' = "ranked" /\ alive' \in ByProof
    /\ UNCHANGED <<worker, latency, verified, cancelled, route>>

AdoptFastest ==
    /\ scan = "ranked"
    /\ scan' = "closed"
    /\ route' = SubSeq(alive, 1, IF Len(alive) < Keep THEN Len(alive) ELSE Keep)
    /\ UNCHANGED <<worker, latency, verified, alive, cancelled>>

Proven == {i \in DOMAIN alive : alive[i] \in verified}

\* Where in the list the k-th verified address is.
NthProven(k) == CHOOSE i \in Proven : Cardinality({j \in Proven : j <= i}) = k

\* Only what is verified is adopted, and if there is none the route stays.  The
\* engine is closed on the way out.
Adopt ==
    /\ scan = "ranked"
    /\ scan' = "closed"
    /\ LET n == Cardinality(Proven)
       IN  route' = [k \in 1 .. (IF n < Keep THEN n ELSE Keep) |-> alive[NthProven(k)]]
    /\ UNCHANGED <<worker, latency, verified, alive, cancelled>>

ScanStep ==
    \/ SortByLatency \/ Rank \/ Adopt
    \/ \E c \in Candidates : TakeSlot(c) \/ GiveUp(c) \/ Probed(c) \/ Verified(c)

ScannerNext == Cancel \/ ScanStep

ScannerSpec == ScannerInit /\ [][ScannerNext]_scannerVars

\* Go runs every goroutine, and a dial and a handshake have deadlines.
ScannerFairness == WF_scannerVars(ScanStep)

-----------------------------------------------------------------------------

\* "Only verified addresses are adopted", best first: the edges a connect goes on
\* with carried a session, none that did and was faster has been passed over, and
\* when nothing carried one the configured route is left untouched; however the
\* workers ended and whenever the search was cut off.
AdoptsOnlyProven ==
    scan = "closed" =>
        LET taken == {route[i] : i \in DOMAIN route} IN
        /\ taken \subseteq verified
        /\ Len(route) = IF Cardinality(verified) < Keep THEN Cardinality(verified) ELSE Keep
        /\ \A c \in verified \ taken, d \in taken : ~Faster(c, d)
        /\ \A i, j \in DOMAIN route : i < j => ~Faster(route[j], route[i])

\* The engine is closed, and the list ranked, only when no worker uses them; the
\* workers of a phase are never more than it allows.
WorkersKept ==
    /\ scan \in {"ranked", "closed"} => Running = {}
    /\ Cardinality(Running) <= Limit

\* The user who waits for the connect gets an answer, cancelled or not.
SearchEnds == scan = "probe" ~> scan = "closed"
=============================================================================
