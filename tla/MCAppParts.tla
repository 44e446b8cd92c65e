----------------------------- MODULE MCAppParts -----------------------------
(***************************************************************************)
(* Model-checking instance of the parts of the application that share no   *)
(* state, and of a relay, which shares none with them: a behaviour is a    *)
(* behaviour of one of them, which the initial state chooses, while the    *)
(* others stay where they start.                                           *)
(***************************************************************************)
EXTENDS Settings, Profiles, Scanner, ClientDial, ShareLinks, Ports, Relay, TLC

CONSTANTS e1, e2, u1, u2, p1, p2, c1, c2, c3, c4, d1, d2, k1

VARIABLE part

Parts == {"settings", "list", "scan", "client", "share", "ports", "relay"}

\* What is permuted occurs in the parts with a file only, which no liveness
\* property is about.
Symmetry == Permutations(Editors) \cup Permutations(Users) \cup Permutations(Known)

vars == <<part, settingsVars, profileVars, scannerVars, dialVars, shareVars, portsVars,
          relayVars>>

\* No search is running.
NoScan ==
    /\ scan = "closed" /\ route = <<>> /\ alive = <<>> /\ verified = {} /\ cancelled = FALSE
    /\ worker = [c \in Candidates |-> "none"]
    /\ latency = [c \in Candidates |-> Unreachable]

\* A part that is not chosen starts in one state only.
Init ==
    /\ part \in Parts
    /\ IF part = "share" THEN ShareInit
       ELSE link = (CHOOSE l \in Links : TRUE) /\ profile = NoProfile
    /\ IF part = "scan" THEN ScannerInit ELSE NoScan
    /\ IF part = "ports" THEN PortsInit
       ELSE /\ range = NoRange /\ tunnel = NoRange
            /\ scanFrom = NoRange /\ scanPorts = NoRange /\ probing = FALSE
    /\ SettingsInit /\ (part # "settings" => cfgDisk = Absent)
    /\ ProfilesInit /\ ClientDialInit /\ RelayInit

Part(name) == part = name /\ UNCHANGED part

SettingsPart ==
    /\ Part("settings") /\ SettingsNext
    /\ UNCHANGED <<profileVars, scannerVars, dialVars, shareVars, portsVars, relayVars>>

ListPart ==
    /\ Part("list") /\ ProfilesNext
    /\ UNCHANGED <<settingsVars, scannerVars, dialVars, shareVars, portsVars, relayVars>>

ScanPart(step) ==
    /\ Part("scan") /\ step
    /\ UNCHANGED <<settingsVars, profileVars, dialVars, shareVars, portsVars, relayVars>>

ClientPart ==
    /\ Part("client") /\ ClientDialNext
    /\ UNCHANGED <<settingsVars, profileVars, scannerVars, shareVars, portsVars, relayVars>>

SharePart ==
    /\ Part("share") /\ ShareNext
    /\ UNCHANGED <<settingsVars, profileVars, scannerVars, dialVars, portsVars, relayVars>>

PortsPart ==
    /\ Part("ports") /\ PortsNext
    /\ UNCHANGED <<settingsVars, profileVars, scannerVars, dialVars, shareVars, relayVars>>

RelayPart ==
    /\ Part("relay") /\ RelayNext
    /\ UNCHANGED <<settingsVars, profileVars, scannerVars, dialVars, shareVars, portsVars>>

Next ==
    \/ SettingsPart \/ ListPart \/ ScanPart(ScannerNext) \/ ClientPart \/ SharePart \/ PortsPart
    \/ RelayPart

Spec == Init /\ [][Next]_vars /\ WF_vars(ScanPart(ScanStep))
=============================================================================
