------------------------------- MODULE Ports -------------------------------
(***************************************************************************)
(* The source ports of the engines: the range of the settings, which a     *)
(* connect uses as it is (src/internal/config/config.go, src/app_client.go,*)
(* src/internal/tunnel/tunnel.go), and the window beside it that a scan    *)
(* computes from the settings of its own time (src/app_scan.go); the probe *)
(* of fake SNIs computes none (src/internal/scanner/scanner.go).           *)
(***************************************************************************)
EXTENDS Integers

CONSTANTS
    MaxPort,          \* 65535
    LastReserved,     \* 1024
    ScanPortWindow,   \* 800
    DefaultLow,       \* 45000, the range of an engine whose Config gives none
    DefaultHigh,      \* 54999
    NoRange

ASSUME PortsAssumption ==
    /\ MaxPort \in Nat /\ LastReserved \in Nat /\ ScanPortWindow \in Nat \ {0}
    /\ DefaultLow \in Nat /\ DefaultHigh \in Nat
    /\ NoRange \notin (Int \X Int)

VARIABLES
    range,      \* of a.cfg: <<low, high>>
    tunnel,     \* the range of the connection's engine
    scanFrom,   \* the range in the settings when a scan's engine was built ...
    scanPorts,  \* ... and the ports of the engine
    probing     \* the scan is ProbeSNIs

portsVars == <<range, tunnel, scanFrom, scanPorts, probing>>

\* Config.Validate.
ValidRange(r) ==
    /\ r \in Int \X Int
    /\ r[1] > 0 /\ r[2] <= MaxPort /\ r[1] <= r[2]

Ranges == {r \in (1 .. MaxPort) \X (1 .. MaxPort) : ValidRange(r)}

In(port, r) == r # NoRange /\ r[1] <= port /\ port <= r[2]

ScanPortRangeTouching(r) ==
    IF r[2] + ScanPortWindow <= MaxPort THEN <<r[2], r[2] + ScanPortWindow - 1>>
    ELSE IF r[1] - ScanPortWindow > LastReserved THEN <<r[1] - ScanPortWindow, r[1] - 1>>
    ELSE NoRange

\* Above the range if there is room, else below it, else no scan.
ScanPortRange(r) ==
    IF r[2] + ScanPortWindow <= MaxPort THEN <<r[2] + 1, r[2] + ScanPortWindow>>
    ELSE IF r[1] - ScanPortWindow > LastReserved THEN <<r[1] - ScanPortWindow, r[1] - 1>>
    ELSE NoRange

PortsInit ==
    /\ range \in Ranges
    /\ tunnel = NoRange /\ scanFrom = NoRange /\ scanPorts = NoRange /\ probing = FALSE

\* SaveConfig; what runs keeps its old settings.
SaveRange == range' \in Ranges /\ UNCHANGED <<tunnel, scanFrom, scanPorts, probing>>

Connect ==
    /\ tunnel = NoRange /\ tunnel' = range
    /\ UNCHANGED <<range, scanFrom, scanPorts, probing>>

Disconnect ==
    /\ tunnel # NoRange /\ tunnel' = NoRange
    /\ UNCHANGED <<range, scanFrom, scanPorts, probing>>

NewScanEngine ==
    /\ scanPorts = NoRange /\ ScanPortRange(range) # NoRange
    /\ scanFrom' = range /\ scanPorts' = ScanPortRange(range)
    /\ UNCHANGED <<range, tunnel, probing>>

\* ProbeSNIs builds an engine for each name, and leaves the ports to applyDefaults.
NewProbeEngine ==
    /\ scanPorts = NoRange
    /\ scanFrom' = range /\ scanPorts' = <<DefaultLow, DefaultHigh>> /\ probing' = TRUE
    /\ UNCHANGED <<range, tunnel>>

CloseScanEngine ==
    /\ scanPorts # NoRange
    /\ scanFrom' = NoRange /\ scanPorts' = NoRange /\ probing' = FALSE
    /\ UNCHANGED <<range, tunnel>>

PortsNext ==
    \/ SaveRange \/ Connect \/ Disconnect
    \/ NewScanEngine \/ NewProbeEngine \/ CloseScanEngine

PortsSpec == PortsInit /\ [][PortsNext]_portsVars

-----------------------------------------------------------------------------

Apart == \A p \in 1 .. MaxPort : ~(In(p, tunnel) /\ In(p, scanPorts))

\* A scan that computes a window (every scan but ProbeSNIs) and a connection begun
\* with the same range in the settings never hand out the same source port, so that
\* neither engine injects into a handshake of the other; and the window is made of
\* ports that exist, at both ends of the number range.
NoSharedPort ==
    scanPorts # NoRange /\ ~probing =>
        /\ 1 <= scanPorts[1] /\ scanPorts[1] <= scanPorts[2] /\ scanPorts[2] <= MaxPort
        /\ tunnel = scanFrom => Apart
=============================================================================
