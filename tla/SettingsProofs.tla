--------------------------- MODULE SettingsProofs ---------------------------
(***************************************************************************)
(* What holds of config.json for any number of editors and any failures,   *)
(* as long as changes do not overlap.  Then at most one editor is at work, *)
(* it saves what is in memory, and nobody else opens the temporary file.   *)
(***************************************************************************)
EXTENDS Settings, TLAPS

Contents == Configs \cup {Absent, Broken, Legacy}

SaveStates == [at : {"idle", "open", "write", "rename"}, data : Contents,
               shared : BOOLEAN, ok : BOOLEAN]

Types ==
    /\ cfg \in Configs /\ edit \in [Editors -> Configs \cup {Absent}]
    /\ cfgDisk \in Contents /\ cfgTemp \in Contents
    /\ cfgSave \in [Editors -> SaveStates]
    /\ \A e \in Editors :
         cfgSave[e].at \in {"open", "write"} => cfgSave[e].data \in Configs

\* The one who saves, saves what is in memory.
InStep(e) ==
    /\ cfgSave[e].at \in {"open", "write"} => cfgSave[e].data = cfg
    /\ cfgSave[e].at = "write" => ~cfgSave[e].shared
    /\ cfgSave[e].at = "rename" => cfgTemp = cfg

AllSaved ==
    ~cfgUnread /\ (\A e \in Editors : Quiet(e) /\ cfgSave[e].ok) => Load(cfgDisk) = cfg

InOrder ==
    /\ OneAtATime /\ cfgDisk # Broken
    /\ \A e \in Editors : InStep(e)
    /\ AllSaved

IInv == Types /\ (~overlap => InOrder)

Edits(e) == SaveConfig(e) \/ ApplyRead(e) \/ ApplySave(e) \/ AdoptRoute(e)

LEMMA LoadOfConfig == \A c \in Configs : Load(c) = c /\ c \notin {Absent, Broken, Legacy}
BY SettingsAssumption DEF Load

LEMMA DefaultIsConfig == Default \in Configs
BY DEF Default, Configs

LEMMA LoadIsConfig == \A c \in Contents : Load(c) \in Configs
BY DEF Load, Contents, MigrateLegacy, Default, Configs

\* What one editor's step leaves of the others.
OthersAlone(e) ==
    \A d \in Editors : d # e =>
        /\ edit'[d] = edit[d]
        /\ cfgSave'[d].at = cfgSave[d].at /\ cfgSave'[d].data = cfgSave[d].data
        /\ cfgSave'[d].ok = cfgSave[d].ok

LEMMA BegunSave ==
    ASSUME Types, NEW e \in Editors, NEW data \in Configs, cfgSave' = CfgFile!Begun(e, data)
    PROVE  /\ cfgSave' \in [Editors -> SaveStates]
           /\ cfgSave'[e].at = "open" /\ cfgSave'[e].data = data /\ ~cfgSave'[e].shared
           /\ \A d \in Editors : d # e => cfgSave'[d] = cfgSave[d]
BY DEF Types, CfgFile!Begun, SaveStates, Contents

LEMMA EndedSave ==
    ASSUME Types, NEW e \in Editors, NEW ok \in BOOLEAN, cfgSave' = CfgFile!Ended(e, ok)
    PROVE  /\ cfgSave' \in [Editors -> SaveStates]
           /\ cfgSave'[e].at = "idle" /\ cfgSave'[e].ok = ok
           /\ \A d \in Editors : d # e => cfgSave'[d] = cfgSave[d]
BY DEF Types, CfgFile!Ended, CfgFile!Idle, SaveStates, Contents

\* A change of the settings.
LEMMA EditStep ==
    ASSUME Types, NEW e \in Editors, Edits(e)
    PROVE  /\ Types' /\ OthersAlone(e) /\ ~Quiet(e)'
           /\ UNCHANGED <<cfgDisk, cfgTemp>>
           /\ \/ cfgSave'[e].at = "open" /\ cfgSave'[e].data = cfg' /\ ~cfgSave'[e].shared
              \/ cfgSave'[e].at = "idle" /\ edit'[e] # Absent /\ cfg' = cfg
<1>1. ASSUME NEW new \in Configs, Change(e, new), edit' \in [Editors -> Configs \cup {Absent}],
             \A d \in Editors : d # e => edit'[d] = edit[d]
      PROVE  /\ Types' /\ OthersAlone(e) /\ ~Quiet(e)'
             /\ UNCHANGED <<cfgDisk, cfgTemp>>
             /\ cfgSave'[e].at = "open" /\ cfgSave'[e].data = cfg' /\ ~cfgSave'[e].shared
  <2>1. /\ cfgSave' \in [Editors -> SaveStates]
        /\ cfgSave'[e].at = "open" /\ cfgSave'[e].data = new /\ ~cfgSave'[e].shared
        /\ \A d \in Editors : d # e => cfgSave'[d] = cfgSave[d]
        /\ cfg' = new /\ UNCHANGED <<cfgDisk, cfgTemp>>
    BY <1>1, BegunSave DEF Change
  <2>2. Types'
    BY <1>1, <2>1 DEF Types
  <2>3. ~Quiet(e)'
    BY <2>1 DEF Quiet, CfgFile!Saving
  <2> QED
    BY <1>1, <2>1, <2>2, <2>3 DEF OthersAlone
<1>2. CASE SaveConfig(e)
  BY <1>1, <1>2 DEF SaveConfig, Types
<1>3. CASE AdoptRoute(e)
  <2>1. [cfg EXCEPT !.edges = "scanned"] \in Configs
    BY DEF Types, Configs
  <2> QED
    BY <1>1, <1>3, <2>1 DEF AdoptRoute, Types
<1>4. CASE ApplySave(e)
  <2>1. edit[e] \in Configs
    BY <1>4 DEF ApplySave, Types
  <2>2. {[edit[e] EXCEPT !.edges = "scanned"], [edit[e] EXCEPT !.sni = "probed"]} \subseteq Configs
    BY <2>1 DEF Configs
  <2>3. /\ edit' \in [Editors -> Configs \cup {Absent}]
        /\ \A d \in Editors : d # e => edit'[d] = edit[d]
    BY <1>4 DEF ApplySave, Types
  <2>4. PICK new \in Configs : Change(e, new)
    BY <1>4, <2>2 DEF ApplySave
  <2> QED
    BY <1>1, <2>3, <2>4
<1>5. CASE ApplyRead(e)
  <2>1. /\ edit' \in [Editors -> Configs \cup {Absent}] /\ edit'[e] = cfg
        /\ \A d \in Editors : d # e => edit'[d] = edit[d]
        /\ UNCHANGED <<cfg, cfgDisk, cfgTemp, cfgSave>>
    BY <1>5 DEF ApplyRead, Types
  <2>2. cfg # Absent
    BY LoadOfConfig DEF Types
  <2>3. cfgSave[e].at = "idle"
    BY <1>5 DEF ApplyRead, Quiet, CfgFile!Saving
  <2>4. Types'
    BY <2>1 DEF Types
  <2> QED
    BY <2>1, <2>2, <2>3, <2>4 DEF OthersAlone, Quiet
<1> QED
  BY <1>2, <1>3, <1>4, <1>5 DEF Edits

\* A step of e's save.
LEMMA FileStep ==
    ASSUME Types, NEW e \in Editors, SaveSettings(e)
    PROVE  Types' /\ cfg' = cfg /\ edit' = edit
<1>0. /\ cfgSave \in [Editors -> SaveStates] /\ cfgTemp \in Contents /\ cfgDisk \in Contents
      /\ cfgSave[e].at \in {"open", "write"} => cfgSave[e].data \in Configs
      /\ cfg' = cfg /\ edit' = edit
  BY DEF Types, SaveSettings
<1>1. ASSUME cfgSave' \in [Editors -> SaveStates], cfgTemp' \in Contents, cfgDisk' \in Contents,
             cfgSave'[e].at \in {"open", "write"} => cfgSave'[e].data \in Configs,
             \A d \in Editors : d # e => /\ cfgSave'[d].at = cfgSave[d].at
                                         /\ cfgSave'[d].data = cfgSave[d].data
      PROVE  Types'
  BY <1>0, <1>1 DEF Types
<1>2. ASSUME NEW ok \in BOOLEAN, cfgSave' = CfgFile!Ended(e, ok),
             cfgTemp' \in Contents, cfgDisk' \in Contents
      PROVE  Types'
  BY <1>1, <1>2, EndedSave
<1>3. CASE CfgFile!OpenTemp(e)
  <2>1. cfgDisk' = cfgDisk
    BY <1>3 DEF CfgFile!OpenTemp
  <2>2. CASE cfgSave' = CfgFile!Ended(e, FALSE) /\ UNCHANGED cfgTemp
    BY <1>0, <1>2, <2>1, <2>2
  <2>3. CASE /\ cfgTemp' = Broken
             /\ cfgSave' = [t \in Editors |->
                              IF t = e THEN [at |-> "write", data |-> cfgSave[e].data,
                                             shared |-> CfgFile!OthersOpen(e), ok |-> TRUE]
                              ELSE [cfgSave[t] EXCEPT !.shared = @ \/ cfgSave[t].at = "write"]]
    <3>1. /\ cfgSave'[e].at = "write" /\ cfgSave'[e].data = cfgSave[e].data
          /\ \A d \in Editors : d # e => /\ cfgSave'[d].at = cfgSave[d].at
                                         /\ cfgSave'[d].data = cfgSave[d].data
      BY <1>0, <2>3 DEF SaveStates
    <3>2. CfgFile!OthersOpen(e) \in BOOLEAN
      BY DEF CfgFile!OthersOpen
    <3>3. cfgSave' \in [Editors -> SaveStates]
      BY <1>0, <2>3, <3>2 DEF SaveStates
    <3>4. cfgSave[e].data \in Configs
      BY <1>0, <1>3 DEF CfgFile!OpenTemp
    <3> QED
      BY <1>0, <1>1, <2>1, <2>3, <3>1, <3>3, <3>4 DEF Contents
  <2> QED
    BY <1>3, <2>2, <2>3 DEF CfgFile!OpenTemp
<1>4. CASE CfgFile!WriteTemp(e)
  <2>1. cfgDisk' = cfgDisk /\ cfgTemp' \in Contents
    BY <1>0, <1>4 DEF CfgFile!WriteTemp, Contents
  <2>2. CASE cfgSave' = CfgFile!Ended(e, FALSE)
    BY <1>0, <1>2, <2>1, <2>2
  <2>3. CASE cfgSave' = [cfgSave EXCEPT ![e] = [CfgFile!Idle EXCEPT !.at = "rename"]]
    <3>1. /\ cfgSave' \in [Editors -> SaveStates] /\ cfgSave'[e].at = "rename"
          /\ \A d \in Editors : d # e => cfgSave'[d] = cfgSave[d]
      BY <1>0, <2>3 DEF CfgFile!Idle, SaveStates, Contents
    <3> QED
      BY <1>0, <1>1, <2>1, <3>1
  <2> QED
    BY <1>4, <2>2, <2>3 DEF CfgFile!WriteTemp
<1>5. CASE CfgFile!Rename(e)
  <2>1. cfgDisk' \in Contents /\ cfgTemp' \in Contents
    BY <1>0, <1>5 DEF CfgFile!Rename, Contents
  <2>2. PICK ok \in BOOLEAN : cfgSave' = CfgFile!Ended(e, ok)
    BY <1>5 DEF CfgFile!Rename
  <2> QED
    BY <1>0, <1>2, <2>1, <2>2
<1> QED
  BY <1>0, <1>3, <1>4, <1>5 DEF SaveSettings, CfgFile!SaveStep

\* Enough for InOrder': e was or is at work, so that the others are quiet.
LEMMA InOrderFrom ==
    ASSUME Types, InOrder, OneAtATime', NEW e \in Editors, OthersAlone(e),
           ~Quiet(e) \/ ~Quiet(e)',
           cfgDisk' # Broken, InStep(e)',
           Quiet(e)' /\ cfgSave'[e].ok => Load(cfgDisk') = cfg'
    PROVE  InOrder'
<1>1. \A d \in Editors : d # e => Quiet(d)
  <2> SUFFICES ASSUME NEW d \in Editors, d # e PROVE Quiet(d)
    OBVIOUS
  <2>1. Quiet(d)' <=> Quiet(d)
    BY DEF OthersAlone, Quiet, CfgFile!Saving
  <2> QED
    BY <2>1 DEF InOrder, OneAtATime
<1>2. \A d \in Editors : d # e => InStep(d)'
  BY <1>1 DEF OthersAlone, Quiet, CfgFile!Saving, InStep
<1> QED
  BY <1>2 DEF InOrder, AllSaved

LEMMA SaveInOrder ==
    ASSUME Types, InOrder, OneAtATime', NEW e \in Editors, SaveSettings(e)
    PROVE  InOrder'
<1>1. Types' /\ cfg' = cfg /\ edit' = edit
  BY FileStep
<1>2. ~Quiet(e) /\ cfgSave[e].at # "idle"
  BY DEF SaveSettings, CfgFile!SaveStep, CfgFile!OpenTemp, CfgFile!WriteTemp, CfgFile!Rename,
         Quiet, CfgFile!Saving
<1>3. \A d \in Editors : d # e => cfgSave[d].at = "idle"
  BY <1>2 DEF InOrder, OneAtATime, Quiet, CfgFile!Saving
<1>4. ~CfgFile!OthersOpen(e)
  BY <1>3 DEF CfgFile!OthersOpen
<1>5. cfgDisk # Broken /\ InStep(e) /\ cfg \in Configs
  BY DEF InOrder, Types
<1>6. ASSUME NEW ok \in BOOLEAN, cfgSave' = CfgFile!Ended(e, ok), cfgDisk' # Broken,
             ok => Load(cfgDisk') = cfg
      PROVE  InOrder'
  <2>1. /\ cfgSave'[e].at = "idle" /\ cfgSave'[e].ok = ok
        /\ \A d \in Editors : d # e => cfgSave'[d] = cfgSave[d]
    BY <1>6, EndedSave
  <2>2. OthersAlone(e) /\ InStep(e)'
    BY <1>1, <2>1 DEF OthersAlone, InStep
  <2> QED
    BY <1>1, <1>2, <1>6, <2>1, <2>2, InOrderFrom
<1>7. CASE CfgFile!OpenTemp(e)
  <2>1. cfgDisk' = cfgDisk
    BY <1>7 DEF CfgFile!OpenTemp
  <2>2. CASE cfgSave' = CfgFile!Ended(e, FALSE)
    BY <1>5, <1>6, <2>1, <2>2
  <2>3. CASE cfgSave' = [t \in Editors |->
                           IF t = e THEN [at |-> "write", data |-> cfgSave[e].data,
                                          shared |-> CfgFile!OthersOpen(e), ok |-> TRUE]
                           ELSE [cfgSave[t] EXCEPT !.shared = @ \/ cfgSave[t].at = "write"]]
    <3>1. /\ cfgSave'[e].at = "write" /\ cfgSave'[e].data = cfgSave[e].data
          /\ ~cfgSave'[e].shared
      BY <1>4, <2>3
    <3>2. \A d \in Editors : d # e => /\ cfgSave'[d].at = cfgSave[d].at
                                      /\ cfgSave'[d].data = cfgSave[d].data
                                      /\ cfgSave'[d].ok = cfgSave[d].ok
      BY <2>3 DEF Types, SaveStates
    <3>3. cfgSave[e].data = cfg
      BY <1>5, <1>7 DEF CfgFile!OpenTemp, InStep
    <3>4. OthersAlone(e) /\ InStep(e)' /\ ~Quiet(e)'
      BY <1>1, <3>1, <3>2, <3>3 DEF OthersAlone, InStep, Quiet, CfgFile!Saving
    <3> QED
      BY <1>2, <1>5, <2>1, <3>4, InOrderFrom
  <2> QED
    BY <1>7, <2>2, <2>3 DEF CfgFile!OpenTemp
<1>8. CASE CfgFile!WriteTemp(e)
  <2>1. cfgDisk' = cfgDisk
    BY <1>8 DEF CfgFile!WriteTemp
  <2>2. CASE cfgSave' = CfgFile!Ended(e, FALSE)
    BY <1>5, <1>6, <2>1, <2>2
  <2>3. CASE /\ cfgTemp' \in {cfgSave[e].data} \cup IF cfgSave[e].shared THEN {Broken} ELSE {}
             /\ cfgSave' = [cfgSave EXCEPT ![e] = [CfgFile!Idle EXCEPT !.at = "rename"]]
    <3>1. /\ cfgSave'[e].at = "rename"
          /\ \A d \in Editors : d # e => cfgSave'[d] = cfgSave[d]
      BY <2>3 DEF CfgFile!Idle, Types
    <3>2. cfgTemp' = cfg
      BY <1>5, <1>8, <2>3 DEF CfgFile!WriteTemp, InStep
    <3>3. OthersAlone(e) /\ InStep(e)' /\ ~Quiet(e)'
      BY <1>1, <3>1, <3>2 DEF OthersAlone, InStep, Quiet, CfgFile!Saving
    <3> QED
      BY <1>2, <1>5, <2>1, <3>3, InOrderFrom
  <2> QED
    BY <1>8, <2>2, <2>3 DEF CfgFile!WriteTemp
<1>9. CASE CfgFile!Rename(e)
  <2>1. cfgTemp = cfg
    BY <1>5, <1>9 DEF CfgFile!Rename, InStep
  <2>2. CASE cfgDisk' = cfgTemp /\ cfgSave' = CfgFile!Ended(e, TRUE)
    BY <1>5, <1>6, <2>1, <2>2, LoadOfConfig
  <2>3. CASE UNCHANGED cfgDisk /\ cfgSave' = CfgFile!Ended(e, FALSE)
    BY <1>5, <1>6, <2>3
  <2> QED
    BY <1>9, <2>2, <2>3 DEF CfgFile!Rename
<1> QED
  BY <1>7, <1>8, <1>9 DEF SaveSettings, CfgFile!SaveStep

LEMMA EditInOrder ==
    ASSUME Types, InOrder, OneAtATime', NEW e \in Editors, Edits(e)
    PROVE  InOrder'
<1>1. /\ OthersAlone(e) /\ ~Quiet(e)' /\ UNCHANGED <<cfgDisk, cfgTemp>>
      /\ \/ cfgSave'[e].at = "open" /\ cfgSave'[e].data = cfg' /\ ~cfgSave'[e].shared
         \/ cfgSave'[e].at = "idle" /\ edit'[e] # Absent /\ cfg' = cfg
  BY EditStep
<1>2. InStep(e)' /\ cfgDisk' # Broken
  BY <1>1 DEF InStep, InOrder
<1> QED
  BY <1>1, <1>2, InOrderFrom

LEMMA RestartInOrder ==
    ASSUME Types, Restart
    PROVE  Types' /\ (cfgDisk # Broken => InOrder')
<1>1. /\ cfgSave' = [s \in Editors |-> CfgFile!Idle] /\ UNCHANGED <<cfgDisk, cfgTemp>>
      /\ edit' = [e \in Editors |-> Absent]
      /\ \/ cfg' = Load(cfgDisk)
         \/ cfg' = Default /\ cfgUnread' = TRUE
  BY DEF Restart, CfgFile!Dies
<1>2. \A e \in Editors : Quiet(e)' /\ InStep(e)'
  BY <1>1 DEF Quiet, CfgFile!Saving, CfgFile!Idle, InStep
<1>3. Types'
  BY <1>1, LoadIsConfig, DefaultIsConfig DEF Types, CfgFile!Idle, SaveStates, Contents
<1>4. cfgDisk # Broken => InOrder'
  BY <1>1, <1>2 DEF InOrder, OneAtATime, AllSaved
<1> QED
  BY <1>3, <1>4

LEMMA InitInOrder == SettingsInit => IInv
<1> SUFFICES ASSUME SettingsInit PROVE IInv
  OBVIOUS
<1>1. /\ cfgSave = [s \in Editors |-> CfgFile!Idle]
      /\ cfgDisk \in {Absent, Legacy} /\ cfgTemp = Absent
      /\ edit = [e \in Editors |-> Absent]
      /\ \/ cfg = Load(cfgDisk)
         \/ cfg = Default /\ cfgUnread = TRUE
  BY DEF SettingsInit, CfgFile!FileInit
<1>2. \A e \in Editors : Quiet(e) /\ InStep(e)
  BY <1>1 DEF Quiet, CfgFile!Saving, CfgFile!Idle, InStep
<1>3. Types
  BY <1>1, LoadIsConfig, DefaultIsConfig DEF Types, CfgFile!Idle, SaveStates, Contents
<1>4. InOrder
  BY <1>1, <1>2, SettingsAssumption DEF InOrder, OneAtATime, AllSaved
<1> QED
  BY <1>3, <1>4 DEF IInv

LEMMA NextInOrder == IInv /\ [SettingsNext]_settingsVars => IInv'
<1> SUFFICES ASSUME IInv, [SettingsNext]_settingsVars PROVE IInv'
  OBVIOUS
<1>1. CASE UNCHANGED settingsVars
  BY <1>1 DEF settingsVars, IInv, Types, InOrder, OneAtATime, InStep, AllSaved, Quiet, CfgFile!Saving
<1>2. CASE SettingsNext
  <2>1. ~overlap' => ~overlap /\ OneAtATime'
    BY <1>2 DEF SettingsNext
  <2>2. CASE Restart
    BY <2>1, <2>2, RestartInOrder DEF IInv, InOrder
  <2>3. ASSUME NEW e \in Editors, Edits(e) PROVE IInv'
    BY <2>1, <2>3, EditStep, EditInOrder DEF IInv
  <2>4. ASSUME NEW e \in Editors, SaveSettings(e) PROVE IInv'
    BY <2>1, <2>4, FileStep, SaveInOrder DEF IInv
  <2> QED
    BY <1>2, <2>2, <2>3, <2>4 DEF SettingsNext, Edits
<1> QED
  BY <1>1, <1>2

LEMMA AlwaysInOrder == SettingsSpec => []IInv
BY InitInOrder, NextInOrder, PTL DEF SettingsSpec

\* config.Save writes config.json so that it parses wherever the program dies
\* and whatever call fails, as long as changes do not overlap.
THEOREM FileReadableCorrect == SettingsSpec => []FileReadable
<1>1. IInv => FileReadable
  BY DEF IInv, InOrder, FileReadable
<1> QED
  BY <1>1, AlwaysInOrder, PTL

\* SaveConfig, ApplyEdgeIPs, ApplyFakeSNI and auto mode save what they put in
\* use: a restart that can read the file brings it back, as long as changes do
\* not overlap and the last start could read it.
THEOREM SavedIsUsedCorrect == SettingsSpec => []SavedIsUsed
<1>1. IInv => SavedIsUsed
  BY DEF IInv, InOrder, AllSaved, SavedIsUsed
<1> QED
  BY <1>1, AlwaysInOrder, PTL
=============================================================================
