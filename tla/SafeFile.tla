------------------------------ MODULE SafeFile ------------------------------
(***************************************************************************)
(* config.Save (src/internal/config/config.go) and profiles.Save           *)
(* (src/internal/profiles/store.go): the data goes to a temporary file     *)
(* beside the real one, which it then replaces.  Every saver uses the same *)
(* temporary name.                                                         *)
(*                                                                         *)
(* Two handles may write to one file at a time, and Windows renames no     *)
(* file that somebody holds open.                                          *)
(***************************************************************************)
CONSTANTS
    Savers,
    Absent,    \* there is no such file
    Broken,    \* its content does not parse
    Fails      \* which calls may fail by themselves: open, write, rename

VARIABLES disk, temp, save

fileVars == <<disk, temp, save>>

\* shared: somebody else has had the temporary file open at the same time;
\* ok: what the last save returned.
Idle == [at |-> "idle", data |-> Absent, shared |-> FALSE, ok |-> TRUE]

FileInit(contents) ==
    disk \in contents /\ temp = Absent /\ save = [s \in Savers |-> Idle]

Saving(s) == save[s].at # "idle"

\* What save becomes when s begins to save data.
Begun(s, data) ==
    [save EXCEPT ![s] = [at |-> "open", data |-> data, shared |-> FALSE, ok |-> TRUE]]

Ended(s, ok) == [save EXCEPT ![s] = [Idle EXCEPT !.ok = ok]]

OthersOpen(s) == \E t \in Savers \ {s} : save[t].at = "write"

\* os.WriteFile opens and empties the file, ...
OpenTemp(s) ==
    /\ save[s].at = "open"
    /\ \/ /\ temp' = Broken
          /\ save' = [t \in Savers |->
                        IF t = s THEN [at |-> "write", data |-> save[s].data,
                                       shared |-> OthersOpen(s), ok |-> TRUE]
                        ELSE [save[t] EXCEPT !.shared = @ \/ save[t].at = "write"]]
       \/ "open" \in Fails /\ save' = Ended(s, FALSE) /\ UNCHANGED temp
    /\ UNCHANGED disk

\* ... writes from its beginning, whatever is there by now, and closes it.
WriteTemp(s) ==
    /\ save[s].at = "write"
    /\ \/ /\ temp' \in {save[s].data} \cup IF save[s].shared THEN {Broken} ELSE {}
          /\ save' = [save EXCEPT ![s] = [Idle EXCEPT !.at = "rename"]]
       \/ "write" \in Fails /\ temp' = Broken /\ save' = Ended(s, FALSE)
    /\ UNCHANGED disk

Rename(s) ==
    /\ save[s].at = "rename"
    /\ \/ /\ temp # Absent /\ ~OthersOpen(s)
          /\ disk' = temp /\ temp' = Absent
          /\ save' = Ended(s, TRUE)
       \/ /\ "rename" \in Fails \/ temp = Absent \/ OthersOpen(s)
          /\ temp' = IF OthersOpen(s) THEN temp ELSE Absent
          /\ save' = Ended(s, FALSE)
          /\ UNCHANGED disk

\* Without the temporary file, for comparison.
OpenInPlace(s) ==
    /\ save[s].at = "open"
    /\ disk' = Broken /\ temp' = save[s].data
    /\ save' = [save EXCEPT ![s].at = "rename"]

SaveStep(s) == OpenTemp(s) \/ WriteTemp(s) \/ Rename(s)

\* The process dies; it is all in memory but the two files.
Dies == save' = [s \in Savers |-> Idle] /\ UNCHANGED <<disk, temp>>
=============================================================================
