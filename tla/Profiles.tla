------------------------------ MODULE Profiles ------------------------------
(***************************************************************************)
(* The list of imported configurations: the operations of the store        *)
(* (src/internal/profiles/store.go), the calls of the window that use it   *)
(* and its file (src/app_profiles.go).                                     *)
(*                                                                         *)
(* An entry is its identifier, which stands for the link; the name and the *)
(* edge override that a user may give it are left out.                     *)
(***************************************************************************)
EXTENDS Sequences, Integers

CONSTANTS
    Users,         \* goroutines that call
    Known,         \* identifiers of links that parse
    Nothing,       \* no file, no store, no selection
    Garbled,       \* a file that does not parse
    ListFails      \* of SafeFile, and "read"

Stores == [active : Known \cup {Nothing}, entries : Seq(Known)]

ASSUME ProfilesAssumption ==
    /\ Nothing \notin Users
    /\ Nothing \notin Stores /\ Garbled \notin Stores

VARIABLES
    stores,        \* [Users -> Stores \cup {Nothing}]: the store each has read
    current,       \* a.store: whose store it is, or Nothing
    use,           \* [Users -> UseStates]
    listDisk, listTemp, listSave,
    listUnread,    \* history: the file could not be read, and no save has replaced
                   \* it since
    crossed        \* history: two calls have been under way at once

profileVars == <<stores, current, use, listDisk, listTemp, listSave, listUnread, crossed>>

ListFile == INSTANCE SafeFile WITH
    Savers <- Users, Absent <- Nothing, Broken <- Garbled, Fails <- ListFails,
    disk <- listDisk, temp <- listTemp, save <- listSave

Ids(store) == {store.entries[i] : i \in DOMAIN store.entries}

Empty == [active |-> Nothing, entries |-> <<>>]

\* What loadProfiles takes a file that it can read for.
Read(content) == IF content \in {Nothing, Garbled} THEN Empty ELSE content

\* at: idle, read, keep, change, active, entries; store: whose store the call
\* works on; active: what the encoder has read of it.
Using(at, store, active) == [at |-> at, store |-> store, active |-> active]

NotUsing == Using("idle", Nothing, Nothing)

ProfilesInit ==
    /\ stores = [u \in Users |-> Nothing] /\ current = Nothing
    /\ use = [u \in Users |-> NotUsing]
    /\ ListFile!FileInit({Nothing})
    /\ listUnread = FALSE /\ crossed = FALSE

-----------------------------------------------------------------------------
(* The store.                                                              *)

Add(store, id) ==
    IF id \in Ids(store) THEN store
    ELSE [active  |-> IF store.active = Nothing THEN id ELSE store.active,
          entries |-> Append(store.entries, id)]

\* append(s.Entries[:i], s.Entries[i+1:]...), of the first entry that matches.
Without(entries, id) ==
    LET at == CHOOSE i \in DOMAIN entries :
                entries[i] = id /\ \A j \in 1 .. i - 1 : entries[j] # id
    IN  SubSeq(entries, 1, at - 1) \o SubSeq(entries, at + 1, Len(entries))

RemoveKeepsActive(store, id) == [store EXCEPT !.entries = Without(@, id)]

\* The selection moves to the first entry that is left.
Remove(store, id) ==
    LET rest == Without(store.entries, id)
    IN  [active  |-> IF store.active # id THEN store.active
                     ELSE IF rest = <<>> THEN Nothing ELSE rest[1],
         entries |-> rest]

\* Update replaces an entry's name or override.
Update(store, id) == store

Select(store, id) == [store EXCEPT !.active = id]

-----------------------------------------------------------------------------
(* A call: loadProfiles, the change under a.mu, saveProfiles.              *)

Go(u, position) == use' = [use EXCEPT ![u].at = position]

Call(u) ==
    /\ use[u].at = "idle" /\ ~ListFile!Saving(u)
    /\ use' = [use EXCEPT ![u] =
                 Using(IF current = Nothing THEN "read" ELSE "change", current, Nothing)]
    /\ UNCHANGED <<stores, current, listDisk, listTemp, listSave>>

\* The file is read without the lock; one that is there and cannot be read counts
\* for an empty list ...
ReadList(u) ==
    /\ use[u].at = "read"
    /\ \/ stores' = [stores EXCEPT ![u] = Read(listDisk)] /\ UNCHANGED listUnread
       \/ /\ "read" \in ListFails /\ listDisk # Nothing
          /\ stores' = [stores EXCEPT ![u] = Empty] /\ listUnread' = TRUE
    /\ Go(u, "keep")
    /\ UNCHANGED <<current, listDisk, listTemp, listSave>>

KeepLast(u) ==
    /\ use[u].at = "keep"
    /\ current' = u
    /\ use' = [use EXCEPT ![u].at = "change", ![u].store = u]
    /\ UNCHANGED <<stores, listDisk, listTemp, listSave>>

\* ... and whichever landed first is kept; nothing refers to the other.
KeepFirst(u) ==
    /\ use[u].at = "keep"
    /\ current' = IF current = Nothing THEN u ELSE current
    /\ use' = [use EXCEPT ![u] = Using("change", current', Nothing)]
    /\ stores' = [stores EXCEPT ![u] = IF current' = u THEN @ ELSE Nothing]
    /\ UNCHANGED <<listDisk, listTemp, listSave>>

Mine(u) == stores[use[u].store]

\* a.store changes, and is to be saved.
Edit(u, new) ==
    /\ stores' = [stores EXCEPT ![use[u].store] = new]
    /\ Go(u, "active")
    /\ UNCHANGED <<current, listDisk, listTemp, listSave>>

\* Nothing could be imported, or the identifier is not in the list.
Refuse(u) ==
    /\ use' = [use EXCEPT ![u] = NotUsing]
    /\ UNCHANGED <<stores, current, listDisk, listTemp, listSave>>

\* Of one link, parsed or not, new or not.
ImportConfigs(u) ==
    /\ use[u].at = "change"
    /\ Refuse(u) \/ \E id \in Known : Edit(u, Add(Mine(u), id))

SelectUnsaved(u) ==
    /\ use[u].at = "change"
    /\ \E id \in Known :
         /\ stores' = [stores EXCEPT ![use[u].store] =
                          IF id \in Ids(@) THEN Select(@, id) ELSE @]
         /\ use' = [use EXCEPT ![u] = NotUsing]
    /\ UNCHANGED <<current, listDisk, listTemp, listSave>>

SelectProfile(u) ==
    /\ use[u].at = "change"
    /\ \E id \in Known :
         IF id \in Ids(Mine(u)) THEN Edit(u, Select(Mine(u), id)) ELSE Refuse(u)

DeleteProfile(u) ==
    /\ use[u].at = "change"
    /\ \E id \in Known :
         IF id \in Ids(Mine(u)) THEN Edit(u, Remove(Mine(u), id)) ELSE Refuse(u)

\* RenameProfile and SetEdgeOverride.
UpdateEntry(u) ==
    /\ use[u].at = "change"
    /\ \E id \in Known :
         IF id \in Ids(Mine(u)) THEN Edit(u, Update(Mine(u), id)) ELSE Refuse(u)

\* profiles.Save encodes a.store without the lock, field by field.
EncodeActive(u) ==
    /\ use[u].at = "active"
    /\ use' = [use EXCEPT ![u] = Using("entries", use[u].store, stores[current].active)]
    /\ UNCHANGED <<stores, current, listDisk, listTemp, listSave>>

EncodeEntries(u) ==
    /\ use[u].at = "entries"
    /\ listSave' = ListFile!Begun(u, [active |-> use[u].active,
                                      entries |-> stores[current].entries])
    /\ use' = [use EXCEPT ![u] = NotUsing]
    /\ UNCHANGED <<stores, current, listDisk, listTemp>>

SaveList(u) == ListFile!SaveStep(u) /\ UNCHANGED <<stores, current, use>>

\* The program dies and is started again.
Relaunch ==
    /\ ListFile!Dies /\ listUnread' = FALSE
    /\ stores' = [u \in Users |-> Nothing] /\ current' = Nothing
    /\ use' = [u \in Users |-> NotUsing]

Busy(u) == use[u].at # "idle" \/ ListFile!Saving(u)

Works(u) ==
    \/ Call(u) \/ KeepFirst(u)
    \/ ImportConfigs(u) \/ SelectProfile(u) \/ DeleteProfile(u) \/ UpdateEntry(u)
    \/ EncodeActive(u) \/ EncodeEntries(u) \/ SaveList(u)

ProfilesNext ==
    /\ \/ Relaunch
       \/ \E u \in Users :
            \/ ReadList(u)
            \/ Works(u) /\ listUnread' = (listUnread /\ listDisk' = listDisk)
    /\ crossed' = (crossed \/ \E t, u \in Users : t # u /\ Busy(t)' /\ Busy(u)')

ProfilesSpec == ProfilesInit /\ [][ProfilesNext]_profileVars

-----------------------------------------------------------------------------

\* "Keep whichever landed first so callers never hold two different stores": every
\* call that works on a store works on a.store, however many read the file at once.
OneStore == \A u \in Users : use[u].store # Nothing => use[u].store = current

Whole(s) ==
    /\ IF s.entries = <<>> THEN s.active = Nothing ELSE s.active \in Ids(s)
    /\ \A i, j \in DOMAIN s.entries : s.entries[i] = s.entries[j] => i = j

\* "A list with nothing selected is a dead end": in a list that has been read
\* whole, whatever calls overlap, no link appears twice, nothing is selected only
\* if it is empty, and what is selected is in it.  A list encoded during another
\* call's change may be read back with a selection that is not in it.
SelectionExists ==
    [][\A u \in Users :
         stores[u] # Nothing /\ stores'[u] # Nothing /\ Whole(stores[u]) => Whole(stores'[u])
      ]_profileVars

\* What a call changed and saved without an error is there after a restart that
\* can read the file, with a selection that exists, as long as calls do not
\* overlap.  The other premise: the file could be read when the list in use was
\* loaded; if not, an empty list is in use beside it and the next change that is
\* saved takes its place.
ListKept ==
    ~crossed /\ ~listUnread /\ current # Nothing
             /\ (\A u \in Users : ~Busy(u) /\ listSave[u].ok)
        => Read(listDisk) = stores[current]
=============================================================================
