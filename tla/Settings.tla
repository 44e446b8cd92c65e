------------------------------ MODULE Settings ------------------------------
(***************************************************************************)
(* The settings in memory and in config.json: startup and SaveConfig       *)
(* (src/app.go), ApplyEdgeIPs and ApplyFakeSNI (src/app_scan.go), the      *)
(* route auto mode adopts (src/app_auto.go), config.Load.                  *)
(*                                                                         *)
(* Two of the settings stand for all of them: the edge addresses and the   *)
(* fake SNI.                                                               *)
(***************************************************************************)
CONSTANTS
    Editors,      \* goroutines that change the settings
    Absent, Broken,
    CfgFails,     \* of SafeFile, and "read"
    Legacy        \* a config.json of the Python project

VARIABLES
    cfg,          \* a.cfg
    edit,         \* [Editors -> what ApplyEdgeIPs or ApplyFakeSNI has read]
    cfgDisk, cfgTemp, cfgSave,
    cfgUnread,    \* history: the last start could not read the file, which no
                  \* save has replaced since
    overlap       \* history: two changes have been under way at once

settingsVars == <<cfg, edit, cfgDisk, cfgTemp, cfgSave, cfgUnread, overlap>>

CfgFile == INSTANCE SafeFile WITH
    Savers <- Editors, Fails <- CfgFails, disk <- cfgDisk, temp <- cfgTemp, save <- cfgSave

Configs == [edges : {"default", "legacy", "scanned"}, sni : {"default", "probed"}]

ASSUME SettingsAssumption ==
    /\ Absent # Broken /\ Absent # Legacy /\ Broken # Legacy
    /\ {Absent, Broken, Legacy} \cap Configs = {}

Default == [edges |-> "default", sni |-> "default"]

MigrateLegacy == [Default EXCEPT !.edges = "legacy"]

\* What startup takes from a file that it can read.
Load(content) ==
    CASE content = Legacy -> MigrateLegacy
      [] content \in {Absent, Broken} -> Default
      [] OTHER -> content

\* ReadFile fails on a file that is there.
Unreadable == "read" \in CfgFails /\ cfgDisk # Absent

SettingsInit ==
    /\ CfgFile!FileInit({Absent, Legacy})
    /\ \/ cfg = Load(cfgDisk) /\ cfgUnread = FALSE
       \/ Unreadable /\ cfg = Default /\ cfgUnread = TRUE
    /\ edit = [e \in Editors |-> Absent]
    /\ overlap = FALSE

Quiet(e) == ~CfgFile!Saving(e) /\ edit[e] = Absent

Change(e, new) ==
    /\ cfg' = new
    /\ cfgSave' = CfgFile!Begun(e, new)
    /\ UNCHANGED <<cfgDisk, cfgTemp>>

SaveConfig(e) ==
    /\ Quiet(e)
    /\ \E new \in Configs : Change(e, new)
    /\ UNCHANGED edit

\* ApplyEdgeIPs and ApplyFakeSNI take a copy of the settings ...
ApplyRead(e) ==
    /\ Quiet(e)
    /\ edit' = [edit EXCEPT ![e] = cfg]
    /\ UNCHANGED <<cfg, cfgDisk, cfgTemp, cfgSave>>

\* ... and save it with their field changed.
ApplySave(e) ==
    /\ edit[e] # Absent
    /\ \E new \in {[edit[e] EXCEPT !.edges = "scanned"], [edit[e] EXCEPT !.sni = "probed"]} :
         Change(e, new)
    /\ edit' = [edit EXCEPT ![e] = Absent]

AdoptKeepsToItself(e) ==
    /\ Quiet(e)
    /\ cfg' = [cfg EXCEPT !.edges = "scanned"]
    /\ cfgSave' = CfgFile!Begun(e, cfg)
    /\ UNCHANGED <<edit, cfgDisk, cfgTemp>>

\* The end of autoSelectRoute.
AdoptRoute(e) ==
    /\ Quiet(e)
    /\ Change(e, [cfg EXCEPT !.edges = "scanned"])
    /\ UNCHANGED edit

WritesInPlace(e) == CfgFile!OpenInPlace(e) /\ UNCHANGED <<cfg, edit>>

SaveSettings(e) == CfgFile!SaveStep(e) /\ UNCHANGED <<cfg, edit>>

\* The program dies, at any point, and is started again: startup reads the file,
\* or goes on with the defaults beside it, which the next save puts in its place.
Restart ==
    /\ CfgFile!Dies
    /\ \/ cfg' = Load(cfgDisk) /\ cfgUnread' = FALSE
       \/ Unreadable /\ cfg' = Default /\ cfgUnread' = TRUE
    /\ edit' = [e \in Editors |-> Absent]

OneAtATime == \A d, e \in Editors : d # e => Quiet(d) \/ Quiet(e)

SettingsNext ==
    /\ \/ Restart
       \/ \E e \in Editors :
            /\ SaveConfig(e) \/ ApplyRead(e) \/ ApplySave(e) \/ AdoptRoute(e) \/ SaveSettings(e)
            /\ cfgUnread' = (cfgUnread /\ cfgDisk' = cfgDisk)
    /\ overlap' = (overlap \/ ~OneAtATime')

SettingsSpec == SettingsInit /\ [][SettingsNext]_settingsVars

-----------------------------------------------------------------------------

\* "Save writes the configuration atomically, so an interrupted write cannot
\* leave the user with an unparseable file": wherever the program dies and
\* whatever call fails, config.json parses, as long as changes do not overlap.
FileReadable == ~overlap => cfgDisk # Broken

\* When every save has ended and none of the last ones failed, a restart that can
\* read the file brings back exactly the settings in use, as long as changes do
\* not overlap.  The other premise: the last start could read the file itself;
\* after one that could not, the defaults are in use beside what was saved.
SavedIsUsed ==
    ~overlap /\ ~cfgUnread /\ (\A e \in Editors : Quiet(e) /\ cfgSave[e].ok)
        => Load(cfgDisk) = cfg
=============================================================================
