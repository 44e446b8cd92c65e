--------------------------- MODULE ProfilesProofs ---------------------------
(* Proofs about Profiles, for any number of users and links. *)
EXTENDS Profiles, TLAPS

(***************************************************************************)
(* OneStore is inductive together with the shape of use: a call takes the  *)
(* store that is a.store at that moment, and a.store is set only once.     *)
(***************************************************************************)
Shaped ==
    /\ use = [u \in Users |-> use[u]]
    /\ \A u \in Users : use[u] = Using(use[u].at, use[u].store, use[u].active)

StoreInv == Shaped /\ OneStore

LEMMA StoreInvInit == ProfilesInit => StoreInv
  BY DEF ProfilesInit, StoreInv, Shaped, OneStore, NotUsing, Using

LEMMA Parts ==
    ASSUME NEW a, NEW s, NEW e
    PROVE  Using(a, s, e).at = a /\ Using(a, s, e).store = s /\ Using(a, s, e).active = e
  BY DEF Using

\* A step that changes the call of u.
LEMMA OneCall ==
    ASSUME StoreInv, NEW u \in Users, NEW r,
           use' = [use EXCEPT ![u] = r],
           r = Using(r.at, r.store, r.active),
           current' = current \/ current = Nothing,
           r.store # Nothing => r.store = current'
    PROVE  StoreInv'
<1>1. /\ use' = [v \in Users |-> use'[v]]
      /\ use'[u] = r
      /\ \A v \in Users : v # u => use'[v] = use[v]
  BY DEF StoreInv, Shaped
<1>2. Shaped'
  BY <1>1 DEF StoreInv, Shaped
<1>3. \A v \in Users : v # u => (use'[v].store # Nothing => use'[v].store = current')
  BY <1>1 DEF StoreInv, OneStore
<1>4. OneStore'
  BY <1>1, <1>3 DEF OneStore
<1> QED
  BY <1>2, <1>4 DEF StoreInv

\* A step that gives u's call another position only.
LEMMA OnePosition ==
    ASSUME StoreInv, NEW u \in Users, NEW position, Go(u, position), current' = current
    PROVE  StoreInv'
<1> DEFINE r == [use[u] EXCEPT !.at = position]
<1>1. use[u] = Using(use[u].at, use[u].store, use[u].active)
  BY DEF StoreInv, Shaped
<1>2. r = Using(position, use[u].store, use[u].active)
  BY <1>1 DEF Using
<1>3. use' = [use EXCEPT ![u] = r]
  BY DEF Go
<1>4. use[u].store # Nothing => use[u].store = current
  BY DEF StoreInv, OneStore
<1> HIDE DEF r
<1>5. r.at = position /\ r.store = use[u].store /\ r.active = use[u].active
  BY <1>2, Parts
<1> QED
  BY <1>2, <1>3, <1>4, <1>5, OneCall

LEMMA CallEnds ==
    ASSUME StoreInv, NEW u \in Users, use' = [use EXCEPT ![u] = NotUsing], current' = current
    PROVE  StoreInv'
<1>1. NotUsing.at = "idle" /\ NotUsing.store = Nothing /\ NotUsing.active = Nothing
      /\ NotUsing = Using("idle", Nothing, Nothing)
  BY Parts DEF NotUsing
<1> QED
  BY <1>1, OneCall

LEMMA StoreInvNext == StoreInv /\ [ProfilesNext]_profileVars => StoreInv'
<1> SUFFICES ASSUME StoreInv, [ProfilesNext]_profileVars PROVE StoreInv'
  OBVIOUS
<1>1. CASE Relaunch
  <2>1. use' = [u \in Users |-> NotUsing]
    BY <1>1 DEF Relaunch
  <2>2. NotUsing.at = "idle" /\ NotUsing.store = Nothing /\ NotUsing.active = Nothing
        /\ NotUsing = Using("idle", Nothing, Nothing)
    BY Parts DEF NotUsing
  <2> QED
    BY <2>1, <2>2 DEF StoreInv, Shaped, OneStore
<1>2. ASSUME NEW u \in Users, Call(u) PROVE StoreInv'
  <2>1. PICK position : /\ use' = [use EXCEPT ![u] = Using(position, current, Nothing)]
                        /\ current' = current
    BY <1>2 DEF Call
  <2> DEFINE r == Using(position, current, Nothing)
  <2>2. r.at = position /\ r.store = current /\ r.active = Nothing
    BY Parts
  <2>3. r = Using(r.at, r.store, r.active)
    BY <2>2
  <2>4. use' = [use EXCEPT ![u] = r]
    BY <2>1
  <2> HIDE DEF r
  <2> QED
    BY <2>1, <2>2, <2>3, <2>4, OneCall
<1>3. ASSUME NEW u \in Users, ReadList(u) PROVE StoreInv'
  BY <1>3, OnePosition DEF ReadList
<1>4. ASSUME NEW u \in Users, KeepFirst(u) PROVE StoreInv'
  <2> DEFINE r == Using("change", current', Nothing)
  <2>1. /\ use' = [use EXCEPT ![u] = r]
        /\ current' = current \/ current = Nothing
    BY <1>4 DEF KeepFirst
  <2>2. r.at = "change" /\ r.store = current' /\ r.active = Nothing
    BY Parts
  <2>3. r = Using(r.at, r.store, r.active)
    BY <2>2
  <2> HIDE DEF r
  <2>4. /\ use' = [v \in Users |-> use'[v]]
        /\ use'[u] = r
        /\ \A v \in Users : v # u => use'[v] = use[v]
    BY <2>1 DEF StoreInv, Shaped
  <2>5. Shaped'
    BY <2>3, <2>4 DEF StoreInv, Shaped
  <2>6. \A v \in Users : v # u => (use'[v].store # Nothing => use'[v].store = current')
    BY <2>1, <2>4 DEF StoreInv, OneStore
  <2>7. OneStore'
    BY <2>2, <2>4, <2>6 DEF OneStore
  <2> QED
    BY <2>5, <2>7 DEF StoreInv
<1>5. ASSUME NEW u \in Users, ImportConfigs(u) \/ SelectProfile(u) \/ DeleteProfile(u)
                                \/ UpdateEntry(u)
      PROVE  StoreInv'
  <2>1. current' = current /\ (Go(u, "active") \/ use' = [use EXCEPT ![u] = NotUsing])
    BY <1>5 DEF ImportConfigs, SelectProfile, DeleteProfile, UpdateEntry, Edit, Refuse
  <2> QED
    BY <2>1, OnePosition, CallEnds
<1>6. ASSUME NEW u \in Users, EncodeActive(u) PROVE StoreInv'
  <2> DEFINE r == Using("entries", use[u].store, stores[current].active)
  <2>1. use' = [use EXCEPT ![u] = r] /\ current' = current
    BY <1>6 DEF EncodeActive
  <2>2. r.at = "entries" /\ r.store = use[u].store /\ r.active = stores[current].active
    BY Parts
  <2>3. r = Using(r.at, r.store, r.active)
    BY <2>2
  <2>4. use[u].store # Nothing => use[u].store = current
    BY DEF StoreInv, OneStore
  <2> HIDE DEF r
  <2> QED
    BY <2>1, <2>2, <2>3, <2>4, OneCall
<1>7. ASSUME NEW u \in Users, EncodeEntries(u) PROVE StoreInv'
  BY <1>7, CallEnds DEF EncodeEntries
<1>8. ASSUME NEW u \in Users, SaveList(u) PROVE StoreInv'
  BY <1>8 DEF SaveList, StoreInv, Shaped, OneStore
<1>9. CASE UNCHANGED profileVars
  BY <1>9 DEF profileVars, StoreInv, Shaped, OneStore
<1> QED
  BY <1>1, <1>2, <1>3, <1>4, <1>5, <1>6, <1>7, <1>8, <1>9 DEF ProfilesNext, Works

(***************************************************************************)
(* However many calls read the file at once, whatever fails and whenever   *)
(* the program is started again, no call works on a list of its own.       *)
(***************************************************************************)
THEOREM OneStoreCorrect == ProfilesSpec => []OneStore
<1>1. StoreInv => OneStore
  BY DEF StoreInv
<1> QED
  BY <1>1, StoreInvInit, StoreInvNext, PTL DEF ProfilesSpec

-----------------------------------------------------------------------------
(* The operations of the store.                                            *)

Distinct(entries) == \A i, j \in DOMAIN entries : entries[i] = entries[j] => i = j

\* What the operations keep: no link appears twice.
Lists == {s \in Stores : Distinct(s.entries)}

LEMMA Joined ==
    ASSUME NEW S, NEW s \in Seq(S), NEW t \in Seq(S)
    PROVE  /\ s \o t \in Seq(S) /\ Len(s \o t) = Len(s) + Len(t)
           /\ \A k \in 1 .. Len(s) + Len(t) :
                (s \o t)[k] = IF k <= Len(s) THEN s[k] ELSE t[k - Len(s)]
OBVIOUS

LEMMA WithoutOne ==
    ASSUME NEW e \in Seq(Known), Distinct(e), NEW at \in DOMAIN e
    PROVE  LET rest == Without(e, e[at]) IN
           /\ rest \in Seq(Known) /\ Len(rest) = Len(e) - 1
           /\ \A k \in 1 .. Len(rest) : rest[k] = IF k < at THEN e[k] ELSE e[k + 1]
<1>1. /\ Len(e) \in Nat /\ DOMAIN e = 1 .. Len(e) /\ at \in 1 .. Len(e)
      /\ \A i \in DOMAIN e : e[i] \in Known
  OBVIOUS
<1>2. (CHOOSE i \in DOMAIN e : e[i] = e[at] /\ \A j \in 1 .. i - 1 : e[j] # e[at]) = at
  <2>1. \A i \in DOMAIN e :
          (e[i] = e[at] /\ \A j \in 1 .. i - 1 : e[j] # e[at]) <=> i = at
    BY <1>1 DEF Distinct
  <2> QED BY <2>1
<1> DEFINE front == SubSeq(e, 1, at - 1)
           back  == SubSeq(e, at + 1, Len(e))
<1>3. Without(e, e[at]) = front \o back
  BY <1>2 DEF Without
<1>4. /\ front \in Seq(Known) /\ Len(front) = at - 1
      /\ \A k \in 1 .. at - 1 : front[k] = e[k]
  BY <1>1
<1>5. /\ back \in Seq(Known) /\ Len(back) = Len(e) - at
      /\ \A k \in 1 .. Len(e) - at : back[k] = e[k + at]
  BY <1>1
<1> HIDE DEF front, back
<1>6. /\ front \o back \in Seq(Known) /\ Len(front \o back) = Len(e) - 1
      /\ \A k \in 1 .. Len(e) - 1 :
           (front \o back)[k] = IF k <= Len(front) THEN front[k] ELSE back[k - Len(front)]
  <2>1. Len(front) + Len(back) = Len(e) - 1
    BY <1>1, <1>4, <1>5
  <2>2. /\ front \o back \in Seq(Known) /\ Len(front \o back) = Len(front) + Len(back)
        /\ \A k \in 1 .. Len(front) + Len(back) :
             (front \o back)[k] = IF k <= Len(front) THEN front[k] ELSE back[k - Len(front)]
    <3>1. front \in Seq(Known) /\ back \in Seq(Known)
      BY <1>4, <1>5
    <3> QED BY ONLY <3>1, Joined
  <2> QED BY <2>1, <2>2
<1>7. ASSUME NEW k \in 1 .. Len(e) - 1
      PROVE  (front \o back)[k] = IF k < at THEN e[k] ELSE e[k + 1]
  <2>0. k \in Int /\ at \in Int /\ Len(front) = at - 1
    BY <1>1, <1>4
  <2>1. CASE k < at
    <3>1. k \in 1 .. at - 1 /\ k <= Len(front)
      BY <2>0, <2>1
    <3> QED BY <1>4, <1>6, <2>1, <3>1
  <2>2. CASE ~(k < at)
    <3>1. k - (at - 1) \in 1 .. Len(e) - at
      BY <1>1, <2>2
    <3>2. back[k - (at - 1)] = e[(k - (at - 1)) + at]
      BY <1>5, <3>1
    <3>3. (k - (at - 1)) + at = k + 1 /\ ~(k <= Len(front))
      BY <2>0, <2>2
    <3>4. (front \o back)[k] = back[k - Len(front)]
      BY <1>6, <3>3
    <3>5. k - Len(front) = k - (at - 1)
      BY <2>0
    <3> QED BY <2>2, <3>2, <3>3, <3>4, <3>5
  <2> QED BY <2>1, <2>2
<1> QED BY <1>3, <1>6, <1>7

LEMMA AddKeeps ==
    ASSUME NEW s \in Lists, NEW id \in Known
    PROVE  Add(s, id) \in Lists /\ (Whole(s) => Whole(Add(s, id)))
<1>1. CASE id \in Ids(s)
  BY <1>1 DEF Add
<1>2. CASE id \notin Ids(s)
  <2> DEFINE e == Append(s.entries, id)
             a == IF s.active = Nothing THEN id ELSE s.active
  <2>1. s.entries \in Seq(Known) /\ s.active \in Known \cup {Nothing} /\ Distinct(s.entries)
    BY DEF Lists, Stores
  <2>2. /\ e \in Seq(Known) /\ Len(e) = Len(s.entries) + 1 /\ e[Len(e)] = id
        /\ \A i \in 1 .. Len(s.entries) : e[i] = s.entries[i]
        /\ DOMAIN e = 1 .. Len(s.entries) + 1
    BY <2>1
  <2>3. \A i \in 1 .. Len(s.entries) : s.entries[i] # id
    BY <1>2, <2>1 DEF Ids
  <2>4. Distinct(e)
    BY <2>1, <2>2, <2>3 DEF Distinct
  <2>5. Add(s, id) = [active |-> a, entries |-> e]
    BY <1>2 DEF Add
  <2> HIDE DEF e
  <2>6. Add(s, id).active = a /\ Add(s, id).entries = e /\ Add(s, id) \in Stores
    BY <2>1, <2>2, <2>5 DEF Stores
  <2>7. ASSUME Whole(s) PROVE Whole(Add(s, id))
    <3>1. e # <<>> /\ \E i \in DOMAIN e : e[i] = id
      BY <2>1, <2>2
    <3>2. a # id => \E i \in DOMAIN e : e[i] = a
      <4> SUFFICES ASSUME a # id PROVE \E i \in DOMAIN e : e[i] = a
        OBVIOUS
      <4>1. s.active # Nothing /\ a = s.active
        OBVIOUS
      <4>2. s.entries # <<>> /\ s.active \in Ids(s)
        BY <2>7, <4>1 DEF Whole
      <4> QED BY <2>1, <2>2, <4>1, <4>2 DEF Ids
    <3> QED BY <2>4, <2>6, <3>1, <3>2 DEF Whole, Ids, Distinct
  <2> QED BY <2>4, <2>6, <2>7 DEF Lists
<1> QED BY <1>1, <1>2

LEMMA RemoveKeeps ==
    ASSUME NEW s \in Lists, NEW id \in Ids(s)
    PROVE  Remove(s, id) \in Lists /\ (Whole(s) => Whole(Remove(s, id)))
<1> DEFINE e == s.entries
           rest == Without(e, id)
           a == IF s.active # id THEN s.active ELSE IF rest = <<>> THEN Nothing ELSE rest[1]
<1>1. e \in Seq(Known) /\ s.active \in Known \cup {Nothing} /\ Distinct(e)
  BY DEF Lists, Stores
<1>2. PICK at \in DOMAIN e : e[at] = id
  BY DEF Ids
<1>3. /\ rest \in Seq(Known) /\ Len(rest) = Len(e) - 1
      /\ \A k \in 1 .. Len(rest) : rest[k] = IF k < at THEN e[k] ELSE e[k + 1]
  BY <1>1, <1>2, WithoutOne
<1>4. at \in 1 .. Len(e) /\ DOMAIN e = 1 .. Len(e) /\ Len(e) \in Nat
      /\ DOMAIN rest = 1 .. Len(e) - 1
  BY <1>1, <1>3
<1>5. Remove(s, id) = [active |-> a, entries |-> rest]
  BY DEF Remove
<1> HIDE DEF rest
<1>6. Distinct(rest)
  <2> SUFFICES ASSUME NEW i \in 1 .. Len(rest), NEW j \in 1 .. Len(rest), rest[i] = rest[j]
               PROVE  i = j
    BY <1>3, <1>4 DEF Distinct
  <2> DEFINE p == IF i < at THEN i ELSE i + 1
             q == IF j < at THEN j ELSE j + 1
  <2>1. p \in DOMAIN e /\ q \in DOMAIN e /\ rest[i] = e[p] /\ rest[j] = e[q]
    BY <1>3, <1>4
  <2>2. p = q
    BY <1>1, <2>1 DEF Distinct
  <2> QED BY <1>3, <1>4, <2>2
<1>7. rest # <<>> => rest[1] \in Known /\ rest[1] \in {rest[i] : i \in DOMAIN rest}
  BY <1>3, <1>4
<1>8. a \in Known \cup {Nothing}
  BY <1>1, <1>7
<1>9. Remove(s, id).active = a /\ Remove(s, id).entries = rest /\ Remove(s, id) \in Stores
  BY <1>3, <1>5, <1>8 DEF Stores
<1>10. ASSUME Whole(s) PROVE Whole(Remove(s, id))
  <2>1. s.active \in Ids(s)
    BY <1>1, <1>2, <1>4, <1>10 DEF Whole
  <2>2. PICK i \in DOMAIN e : e[i] = s.active
    BY <2>1 DEF Ids
  <2>3. s.active # id => s.active \in {rest[k] : k \in DOMAIN rest}
    <3> SUFFICES ASSUME i # at PROVE s.active \in {rest[k] : k \in DOMAIN rest}
      BY <1>2, <2>2
    <3> DEFINE k == IF i < at THEN i ELSE i - 1
    <3>1. k \in 1 .. Len(rest) /\ rest[k] = e[i]
      BY <1>3, <1>4, <2>2
    <3> QED BY <1>3, <1>4, <2>2, <3>1
  <2>4. s.active # id => rest # <<>>
    BY <2>3
  <2>5. IF rest = <<>> THEN a = Nothing ELSE a \in {rest[k] : k \in DOMAIN rest}
    BY <1>7, <2>3, <2>4
  <2> QED BY <1>6, <1>9, <2>5 DEF Whole, Ids, Distinct
<1> QED BY <1>6, <1>9, <1>10 DEF Lists

LEMMA SelectKeeps ==
    ASSUME NEW s \in Lists, NEW id \in Ids(s), id \in Known
    PROVE  Select(s, id) \in Lists /\ (Whole(s) => Whole(Select(s, id)))
<1>1. /\ Select(s, id) \in Stores
      /\ Select(s, id).active = id /\ Select(s, id).entries = s.entries
  BY DEF Select, Lists, Stores
<1> QED BY <1>1 DEF Lists, Whole, Ids, Distinct

-----------------------------------------------------------------------------
(* Who holds a list.  A list is read only by a call that has none, and is  *)
(* dropped unless it becomes a.store; what changes it afterwards is one of *)
(* the operations above.                                                   *)

Positions == {"idle", "read", "keep", "change", "active", "entries"}

UseStates == [at : Positions, store : Users \cup {Nothing}, active : Known \cup {Nothing}]

Held(u) ==
    /\ use[u].at \in {"change", "active", "entries"} => use[u].store # Nothing
    /\ use[u].at \in {"read", "keep"} => current # u
    /\ use[u].at = "keep" => stores[u] # Nothing
    /\ stores[u] # Nothing => current = u \/ use[u].at = "keep"

Holding ==
    /\ stores \in [Users -> Lists \cup {Nothing}]
    /\ current \in Users \cup {Nothing}
    /\ use \in [Users -> UseStates]
    /\ \A u \in Users : Held(u)
    /\ current # Nothing => stores[current] # Nothing

Contents == Lists \cup {Nothing, Garbled}

SaveStates == [at : {"idle", "open", "write", "rename"}, data : Contents,
               shared : BOOLEAN, ok : BOOLEAN]

FileTypes ==
    /\ listDisk \in Contents /\ listTemp \in Contents
    /\ listSave \in [Users -> SaveStates]
    /\ \A u \in Users : listSave[u].at \in {"open", "write"} => listSave[u].data \in Lists

ListInv == OneStore /\ Holding /\ FileTypes

LEMMA ListsAreStores == \A s \in Lists : s # Nothing /\ s # Garbled
BY ProfilesAssumption DEF Lists

LEMMA EmptyIsList == Empty \in Lists
BY DEF Empty, Lists, Stores, Distinct

LEMMA ReadsList == \A c \in Contents : Read(c) \in Lists
BY EmptyIsList, ListsAreStores DEF Contents, Read

LEMMA ReadOfList == \A s \in Lists : Read(s) = s
BY ListsAreStores DEF Read

\* The store that a call works on is a.store, and there is one.
LEMMA MineIsList ==
    ASSUME ListInv, NEW u \in Users, use[u].at \in {"change", "active", "entries"}
    PROVE  use[u].store = current /\ current \in Users /\ stores[current] \in Lists
<1>1. use[u].store # Nothing /\ use[u].store = current
  BY DEF ListInv, OneStore, Holding, Held
<1> QED
  BY <1>1 DEF ListInv, Holding

\* What one change of a.store is.
Changed(new) ==
    \/ \E id \in Known : new = Add(stores[current], id)
    \/ \E id \in Ids(stores[current]) :
         \/ new = Select(stores[current], id)
         \/ new = Remove(stores[current], id)
         \/ new = Update(stores[current], id)

Edits(u) == ImportConfigs(u) \/ SelectProfile(u) \/ DeleteProfile(u) \/ UpdateEntry(u)

LEMMA EditStep ==
    ASSUME ListInv, NEW u \in Users, Edits(u)
    PROVE  /\ use[u].at = "change" /\ UNCHANGED <<current, listDisk, listTemp, listSave>>
           /\ \/ use' = [use EXCEPT ![u] = NotUsing] /\ stores' = stores
              \/ /\ Go(u, "active")
                 /\ \E new : Changed(new) /\ stores' = [stores EXCEPT ![current] = new]
<1>1. use[u].at = "change"
  BY DEF Edits, ImportConfigs, SelectProfile, DeleteProfile, UpdateEntry
<1>2. use[u].store = current /\ Mine(u) = stores[current]
  BY <1>1, MineIsList DEF Mine
<1>3. ASSUME NEW new, Changed(new), Edit(u, new)
      PROVE  /\ UNCHANGED <<current, listDisk, listTemp, listSave>> /\ Go(u, "active")
             /\ \E n : Changed(n) /\ stores' = [stores EXCEPT ![current] = n]
  BY <1>2, <1>3 DEF Edit
<1>4. CASE Refuse(u)
  BY <1>1, <1>4 DEF Refuse
<1>5. ASSUME NEW id \in Known, Edit(u, Add(stores[current], id))
      PROVE  \E new : Changed(new) /\ Edit(u, new)
  BY <1>5 DEF Changed
<1>6. ASSUME NEW id \in Ids(stores[current]),
             \/ Edit(u, Select(stores[current], id)) \/ Edit(u, Remove(stores[current], id))
             \/ Edit(u, Update(stores[current], id))
      PROVE  \E new : Changed(new) /\ Edit(u, new)
  BY <1>6 DEF Changed
<1>7. Refuse(u) \/ \E new : Changed(new) /\ Edit(u, new)
  <2>1. CASE ImportConfigs(u)
    BY <1>2, <1>5, <2>1 DEF ImportConfigs
  <2>2. CASE SelectProfile(u)
    BY <1>2, <1>6, <2>2 DEF SelectProfile
  <2>3. CASE DeleteProfile(u)
    BY <1>2, <1>6, <2>3 DEF DeleteProfile
  <2>4. CASE UpdateEntry(u)
    BY <1>2, <1>6, <2>4 DEF UpdateEntry
  <2> QED BY <2>1, <2>2, <2>3, <2>4 DEF Edits
<1> QED BY <1>1, <1>3, <1>4, <1>7

LEMMA ChangedKeeps ==
    ASSUME stores[current] \in Lists, NEW new, Changed(new)
    PROVE  new \in Lists /\ (Whole(stores[current]) => Whole(new))
<1> DEFINE s == stores[current]
<1>1. Ids(s) \subseteq Known
  BY DEF Lists, Stores, Ids
<1>2. CASE \E id \in Known : new = Add(s, id)
  BY <1>2, AddKeeps
<1>3. CASE \E id \in Ids(s) : \/ new = Select(s, id) \/ new = Remove(s, id)
                              \/ new = Update(s, id)
  BY <1>1, <1>3, SelectKeeps, RemoveKeeps DEF Update
<1> QED BY <1>2, <1>3 DEF Changed

LEMMA NothingHeld ==
    ASSUME stores = [u \in Users |-> Nothing], current = Nothing,
           use = [u \in Users |-> NotUsing]
    PROVE  Holding
BY ProfilesAssumption DEF Holding, Held, NotUsing, Using, UseStates, Positions

LEMMA HoldingInit == ProfilesInit => Holding /\ FileTypes
<1> SUFFICES ASSUME ProfilesInit PROVE Holding /\ FileTypes
  OBVIOUS
<1>1. Holding
  BY NothingHeld DEF ProfilesInit
<1>2. FileTypes
  BY DEF ProfilesInit, ListFile!FileInit, ListFile!Idle, FileTypes, SaveStates, Contents
<1> QED BY <1>1, <1>2

\* A step of u's call that leaves the lists alone.
LEMMA CallHolds ==
    ASSUME Holding, NEW u \in Users, NEW r \in UseStates, use' = [use EXCEPT ![u] = r],
           current' = current, stores' = stores,
           /\ r.at \in {"change", "active", "entries"} => r.store # Nothing
           /\ r.at \in {"read", "keep"} => current # u
           /\ r.at = "keep" <=> (stores[u] # Nothing /\ current # u)
    PROVE  Holding'
<1>1. /\ use' \in [Users -> UseStates] /\ use'[u] = r
      /\ \A v \in Users : v # u => use'[v] = use[v]
  BY DEF Holding
<1>2. Held(u)'
  BY <1>1 DEF Held
<1>3. \A v \in Users : v # u => Held(v)'
  BY <1>1 DEF Holding, Held
<1> QED BY <1>1, <1>2, <1>3 DEF Holding

LEMMA NotUsingIs == NotUsing \in UseStates /\ NotUsing.at = "idle"
BY DEF NotUsing, Using, UseStates, Positions

LEMMA UsingIs ==
    ASSUME NEW at \in Positions, NEW store \in Users \cup {Nothing},
           NEW active \in Known \cup {Nothing}
    PROVE  /\ Using(at, store, active) \in UseStates
           /\ Using(at, store, active).at = at /\ Using(at, store, active).store = store
BY DEF Using, UseStates

\* A step of u's call that changes its position only.
LEMMA Moves ==
    ASSUME Holding, NEW u \in Users, NEW position \in Positions, Go(u, position)
    PROVE  \E r \in UseStates : /\ use' = [use EXCEPT ![u] = r] /\ r.at = position
                                /\ r.store = use[u].store
<1> DEFINE r == [use[u] EXCEPT !.at = position]
<1>1. r \in UseStates /\ r.at = position /\ r.store = use[u].store
  BY DEF Holding, UseStates
<1>2. use' = [use EXCEPT ![u] = r]
  BY DEF Go
<1> QED BY <1>1, <1>2

LEMMA CallStepHolds ==
    ASSUME ListInv, NEW u \in Users, Call(u)
    PROVE  Holding' /\ stores' = stores /\ current' = current
<1> DEFINE position == IF current = Nothing THEN "read" ELSE "change"
           r == Using(position, current, Nothing)
<1>1. /\ use' = [use EXCEPT ![u] = r] /\ stores' = stores /\ current' = current
      /\ use[u].at = "idle" /\ position \in Positions
  BY DEF Call, Positions
<1>2. r \in UseStates /\ r.at = position /\ r.store = current
  BY <1>1, UsingIs DEF ListInv, Holding
<1>3. stores[u] # Nothing => current = u
  BY <1>1 DEF ListInv, Holding, Held
<1>4. current # Nothing => stores[current] # Nothing
  BY DEF ListInv, Holding
<1>5. current # u => stores[u] = Nothing
  BY <1>3
<1>6. /\ r.at \in {"change", "active", "entries"} => r.store # Nothing
      /\ r.at \in {"read", "keep"} => current # u
      /\ r.at = "keep" <=> (stores[u] # Nothing /\ current # u)
  BY <1>2, <1>5, ProfilesAssumption
<1> HIDE DEF r, position
<1> QED BY <1>1, <1>2, <1>6, CallHolds DEF ListInv

LEMMA ReadListHolds ==
    ASSUME ListInv, NEW u \in Users, ReadList(u)
    PROVE  /\ Holding' /\ stores[u] = Nothing /\ current' = current
           /\ \A v \in Users : v # u => stores'[v] = stores[v] /\ use'[v] = use[v]
           /\ ~listUnread' => stores'[u] = Read(listDisk)
           /\ use'[u].at = "keep"
<1>0. /\ use[u].at = "read" /\ Go(u, "keep") /\ current' = current
      /\ \/ stores' = [stores EXCEPT ![u] = Read(listDisk)]
         \/ stores' = [stores EXCEPT ![u] = Empty] /\ listUnread'
  BY DEF ReadList
<1>1. PICK s \in {Read(listDisk), Empty} :
        /\ stores' = [stores EXCEPT ![u] = s]
        /\ ~listUnread' => s = Read(listDisk)
  BY <1>0
<1>2. PICK r \in UseStates : use' = [use EXCEPT ![u] = r] /\ r.at = "keep"
  BY <1>0, Moves DEF ListInv, Positions
<1>3. /\ use' \in [Users -> UseStates] /\ use'[u] = r
      /\ \A v \in Users : v # u => use'[v] = use[v]
  BY <1>2 DEF ListInv, Holding
<1>4. /\ stores' \in [Users -> Lists \cup {Nothing}] /\ stores'[u] # Nothing /\ stores'[u] = s
      /\ \A v \in Users : v # u => stores'[v] = stores[v]
  <2>1. s \in Lists /\ s # Nothing
    <3>1. Read(listDisk) \in Lists
      BY ReadsList DEF ListInv, FileTypes
    <3>2. Empty \in Lists
      BY EmptyIsList
    <3> QED BY <1>1, <3>1, <3>2, ListsAreStores
  <2>2. stores \in [Users -> Lists \cup {Nothing}] /\ stores' = [stores EXCEPT ![u] = s]
    BY <1>1 DEF ListInv, Holding
  <2> QED BY <2>1, <2>2
<1>5. current # u /\ stores[u] = Nothing
  BY <1>0 DEF ListInv, Holding, Held
<1>6. Held(u)'
  BY <1>0, <1>2, <1>3, <1>4, <1>5 DEF Held
<1>7. \A v \in Users : v # u => Held(v)'
  BY <1>0, <1>3, <1>4 DEF ListInv, Holding, Held
<1>8. current # Nothing => stores'[current] # Nothing
  BY <1>0, <1>4, <1>5 DEF ListInv, Holding
<1>9. Holding'
  BY <1>0, <1>3, <1>4, <1>6, <1>7, <1>8 DEF ListInv, Holding
<1> QED BY <1>0, <1>1, <1>2, <1>3, <1>4, <1>5, <1>9

LEMMA KeepFirstHolds ==
    ASSUME ListInv, NEW u \in Users, KeepFirst(u)
    PROVE  /\ Holding' /\ use'[u].at = "change"
           /\ \A v \in Users : v # u => use'[v] = use[v]
           /\ \A v \in Users : stores'[v] = stores[v] \/ stores'[v] = Nothing
           /\ current = Nothing => current' = u /\ stores'[u] = stores[u]
<1> DEFINE r == Using("change", current', Nothing)
<1>1. /\ use[u].at = "keep" /\ use' = [use EXCEPT ![u] = r]
      /\ current' = IF current = Nothing THEN u ELSE current
      /\ stores' = [stores EXCEPT ![u] = IF current' = u THEN stores[u] ELSE Nothing]
  BY DEF KeepFirst
<1>2. current' \in Users \cup {Nothing} /\ current' # Nothing
  BY <1>1, ProfilesAssumption DEF ListInv, Holding
<1>3. r \in UseStates /\ r.at = "change" /\ r.store = current'
  BY <1>2, UsingIs DEF Positions
<1> HIDE DEF r
<1>4. /\ use' \in [Users -> UseStates] /\ use'[u] = r
      /\ \A v \in Users : v # u => use'[v] = use[v]
  BY <1>1, <1>3 DEF ListInv, Holding
<1>5. /\ stores' \in [Users -> Lists \cup {Nothing}]
      /\ stores'[u] = IF current' = u THEN stores[u] ELSE Nothing
      /\ \A v \in Users : v # u => stores'[v] = stores[v]
  BY <1>1 DEF ListInv, Holding
<1>6. current # u /\ stores[u] # Nothing
  BY <1>1 DEF ListInv, Holding, Held
<1>7. Held(u)'
  BY <1>2, <1>3, <1>4, <1>5 DEF Held
<1>8. \A v \in Users : v # u => Held(v)'
  <2> SUFFICES ASSUME NEW v \in Users, v # u PROVE Held(v)'
    OBVIOUS
  <2>1. Held(v) /\ use'[v] = use[v] /\ stores'[v] = stores[v]
    BY <1>4, <1>5 DEF ListInv, Holding
  <2>2. current' = v <=> current = v
    BY <1>1, ProfilesAssumption
  <2> QED BY <2>1, <2>2 DEF Held
<1>9. stores'[current'] # Nothing
  BY <1>1, <1>5, <1>6 DEF ListInv, Holding
<1>10. Holding'
  BY <1>2, <1>4, <1>5, <1>7, <1>8, <1>9 DEF Holding
<1> QED BY <1>1, <1>3, <1>4, <1>5, <1>10

LEMMA EditHolds ==
    ASSUME ListInv, NEW u \in Users, Edits(u)
    PROVE  /\ Holding' /\ UNCHANGED <<current, listDisk, listTemp, listSave>>
           /\ \A v \in Users : v # u => use'[v] = use[v]
           /\ \A v \in Users : stores[v] # Nothing /\ Whole(stores[v]) => Whole(stores'[v])
           /\ \/ use'[u].at = "idle" /\ stores' = stores
              \/ use'[u].at = "active"
           /\ use[u].at = "change" /\ current # Nothing
<1>1. use[u].at = "change" /\ UNCHANGED <<current, listDisk, listTemp, listSave>>
  BY EditStep
<1>2. use[u].store = current /\ current \in Users /\ stores[current] \in Lists
  BY <1>1, MineIsList
<1>3. CASE use' = [use EXCEPT ![u] = NotUsing] /\ stores' = stores
  <2>1. use'[u].at = "idle" /\ \A v \in Users : v # u => use'[v] = use[v]
    BY <1>3, NotUsingIs DEF ListInv, Holding
  <2>2. ~(stores[u] # Nothing /\ current # u)
    BY <1>1 DEF ListInv, Holding, Held
  <2>3. Holding'
    BY <1>1, <1>3, <2>2, NotUsingIs, CallHolds DEF ListInv
  <2> QED BY <1>1, <1>2, <1>3, <2>1, <2>3, ProfilesAssumption
<1>4. CASE Go(u, "active") /\ \E n : Changed(n) /\ stores' = [stores EXCEPT ![current] = n]
  <2>1. PICK new : Changed(new) /\ stores' = [stores EXCEPT ![current] = new]
    BY <1>4
  <2>2. new \in Lists /\ (Whole(stores[current]) => Whole(new))
    BY <1>2, <2>1, ChangedKeeps
  <2>3. /\ stores' \in [Users -> Lists \cup {Nothing}] /\ stores'[current] = new
        /\ \A v \in Users : v # current => stores'[v] = stores[v]
    BY <1>2, <2>1, <2>2 DEF ListInv, Holding
  <2>4. PICK r \in UseStates : /\ use' = [use EXCEPT ![u] = r] /\ r.at = "active"
                               /\ r.store = use[u].store
    BY <1>4, Moves DEF ListInv, Positions
  <2>5. /\ use' \in [Users -> UseStates] /\ use'[u] = r
        /\ \A v \in Users : v # u => use'[v] = use[v]
    BY <2>4 DEF ListInv, Holding
  <2>6. \A v \in Users : Held(v) /\ (stores'[v] # Nothing <=> stores[v] # Nothing)
    BY <1>2, <2>2, <2>3, ListsAreStores DEF ListInv, Holding
  <2>7. Held(u)'
    BY <1>1, <1>2, <2>4, <2>5, <2>6, ProfilesAssumption DEF Held
  <2>8. \A v \in Users : v # u => Held(v)'
    BY <1>1, <2>5, <2>6 DEF Held
  <2>9. Holding'
    BY <1>1, <1>2, <2>2, <2>3, <2>5, <2>7, <2>8, ListsAreStores DEF ListInv, Holding
  <2>10. \A v \in Users : stores[v] # Nothing /\ Whole(stores[v]) => Whole(stores'[v])
    BY <2>2, <2>3
  <2> QED BY <1>1, <1>2, <2>4, <2>5, <2>9, <2>10, ProfilesAssumption
<1> QED BY <1>3, <1>4, EditStep

LEMMA EncodeActiveHolds ==
    ASSUME ListInv, NEW u \in Users, EncodeActive(u)
    PROVE  /\ Holding' /\ UNCHANGED <<stores, current, listDisk, listTemp, listSave>>
           /\ \A v \in Users : v # u => use'[v] = use[v]
           /\ use'[u].at = "entries" /\ use'[u].active = stores[current].active
           /\ use[u].at = "active" /\ current # Nothing
<1> DEFINE r == Using("entries", use[u].store, stores[current].active)
<1>1. /\ use[u].at = "active" /\ use' = [use EXCEPT ![u] = r]
      /\ UNCHANGED <<stores, current, listDisk, listTemp, listSave>>
  BY DEF EncodeActive
<1>2. use[u].store = current /\ current \in Users /\ stores[current] \in Lists
  BY <1>1, MineIsList
<1>3. stores[current].active \in Known \cup {Nothing}
  BY <1>2 DEF Lists, Stores
<1>4. r \in UseStates /\ r.at = "entries" /\ r.store = current
      /\ r.active = stores[current].active
  BY <1>2, <1>3, UsingIs DEF Positions, Using
<1> HIDE DEF r
<1>5. ~(stores[u] # Nothing /\ current # u) /\ current # Nothing
  BY <1>1, <1>2, ProfilesAssumption DEF ListInv, Holding, Held
<1>6. Holding'
  BY <1>1, <1>4, <1>5, CallHolds DEF ListInv
<1>7. use'[u] = r /\ \A v \in Users : v # u => use'[v] = use[v]
  BY <1>1 DEF ListInv, Holding
<1> QED BY <1>1, <1>4, <1>5, <1>6, <1>7

LEMMA BegunSave ==
    ASSUME FileTypes, NEW u \in Users, NEW data \in Lists, listSave' = ListFile!Begun(u, data)
    PROVE  /\ listSave' \in [Users -> SaveStates]
           /\ listSave'[u].at = "open" /\ listSave'[u].data = data
           /\ \A v \in Users : v # u => listSave'[v] = listSave[v]
BY DEF FileTypes, ListFile!Begun, SaveStates, Contents

LEMMA EndedSave ==
    ASSUME FileTypes, NEW u \in Users, NEW ok \in BOOLEAN, listSave' = ListFile!Ended(u, ok)
    PROVE  /\ listSave' \in [Users -> SaveStates]
           /\ listSave'[u].at = "idle" /\ listSave'[u].ok = ok
           /\ \A v \in Users : v # u => listSave'[v] = listSave[v]
BY DEF FileTypes, ListFile!Ended, ListFile!Idle, SaveStates, Contents

LEMMA EncodeEntriesHolds ==
    ASSUME ListInv, NEW u \in Users, EncodeEntries(u)
    PROVE  /\ Holding' /\ FileTypes' /\ UNCHANGED <<stores, current, listDisk, listTemp>>
           /\ \A v \in Users : v # u => use'[v] = use[v] /\ listSave'[v] = listSave[v]
           /\ use'[u].at = "idle" /\ listSave'[u].at = "open"
           /\ listSave'[u].data = [active |-> use[u].active, entries |-> stores[current].entries]
           /\ use[u].at = "entries" /\ current # Nothing /\ stores[current] \in Lists
<1> DEFINE data == [active |-> use[u].active, entries |-> stores[current].entries]
<1>1. /\ use[u].at = "entries" /\ use' = [use EXCEPT ![u] = NotUsing]
      /\ listSave' = ListFile!Begun(u, data)
      /\ UNCHANGED <<stores, current, listDisk, listTemp>>
  BY DEF EncodeEntries
<1>2. current \in Users /\ stores[current] \in Lists
  BY <1>1, MineIsList
<1>3. use[u].active \in Known \cup {Nothing}
  BY DEF ListInv, Holding, UseStates
<1>4. data \in Lists
  BY <1>2, <1>3 DEF Lists, Stores
<1> HIDE DEF data
<1>5. /\ listSave' \in [Users -> SaveStates]
      /\ listSave'[u].at = "open" /\ listSave'[u].data = data
      /\ \A v \in Users : v # u => listSave'[v] = listSave[v]
  BY <1>1, <1>4, BegunSave DEF ListInv
<1>6. FileTypes'
  BY <1>1, <1>4, <1>5 DEF ListInv, FileTypes
<1>7. ~(stores[u] # Nothing /\ current # u) /\ current # Nothing
  BY <1>1, <1>2, ProfilesAssumption DEF ListInv, Holding, Held
<1>8. Holding'
  BY <1>1, <1>7, NotUsingIs, CallHolds DEF ListInv
<1>9. use'[u].at = "idle" /\ \A v \in Users : v # u => use'[v] = use[v]
  BY <1>1, NotUsingIs DEF ListInv, Holding
<1> QED BY <1>1, <1>2, <1>5, <1>6, <1>7, <1>8, <1>9 DEF data

\* A step of u's save.
LEMMA SaveListTypes ==
    ASSUME ListInv, NEW u \in Users, SaveList(u)
    PROVE  FileTypes'
<1>0. /\ listSave \in [Users -> SaveStates] /\ listTemp \in Contents /\ listDisk \in Contents
      /\ listSave[u].at \in {"open", "write"} => listSave[u].data \in Lists
      /\ \A v \in Users : listSave[v].at \in {"open", "write"} => listSave[v].data \in Lists
      /\ UNCHANGED <<stores, current, use>>
  BY DEF ListInv, FileTypes, SaveList
<1>1. ASSUME listSave' \in [Users -> SaveStates], listTemp' \in Contents, listDisk' \in Contents,
             listSave'[u].at \in {"open", "write"} => listSave'[u].data \in Lists,
             \A v \in Users : v # u => /\ listSave'[v].at = listSave[v].at
                                       /\ listSave'[v].data = listSave[v].data
      PROVE  FileTypes'
  BY <1>0, <1>1 DEF FileTypes
<1>2. ASSUME NEW ok \in BOOLEAN, listSave' = ListFile!Ended(u, ok),
             listTemp' \in Contents, listDisk' \in Contents
      PROVE  FileTypes'
  BY <1>1, <1>2, EndedSave DEF ListInv
<1>3. CASE ListFile!OpenTemp(u)
  <2>1. listDisk' = listDisk
    BY <1>3 DEF ListFile!OpenTemp
  <2>2. CASE listSave' = ListFile!Ended(u, FALSE) /\ UNCHANGED listTemp
    BY <1>0, <1>2, <2>1, <2>2
  <2>3. CASE /\ listTemp' = Garbled
             /\ listSave' = [t \in Users |->
                               IF t = u THEN [at |-> "write", data |-> listSave[u].data,
                                              shared |-> ListFile!OthersOpen(u), ok |-> TRUE]
                               ELSE [listSave[t] EXCEPT !.shared = @ \/ listSave[t].at = "write"]]
    <3>1. /\ listSave'[u].at = "write" /\ listSave'[u].data = listSave[u].data
          /\ \A v \in Users : v # u => /\ listSave'[v].at = listSave[v].at
                                       /\ listSave'[v].data = listSave[v].data
      BY <1>0, <2>3 DEF SaveStates
    <3>2. ListFile!OthersOpen(u) \in BOOLEAN
      BY DEF ListFile!OthersOpen
    <3>3. listSave' \in [Users -> SaveStates]
      BY <1>0, <2>3, <3>2 DEF SaveStates
    <3>4. listSave[u].data \in Lists
      BY <1>0, <1>3 DEF ListFile!OpenTemp
    <3> QED BY <1>0, <1>1, <2>1, <2>3, <3>1, <3>3, <3>4 DEF Contents
  <2> QED BY <1>3, <2>2, <2>3 DEF ListFile!OpenTemp
<1>4. CASE ListFile!WriteTemp(u)
  <2>1. listDisk' = listDisk /\ listTemp' \in Contents
    BY <1>0, <1>4 DEF ListFile!WriteTemp, Contents
  <2>2. CASE listSave' = ListFile!Ended(u, FALSE)
    BY <1>0, <1>2, <2>1, <2>2
  <2>3. CASE listSave' = [listSave EXCEPT ![u] = [ListFile!Idle EXCEPT !.at = "rename"]]
    <3>1. /\ listSave' \in [Users -> SaveStates] /\ listSave'[u].at = "rename"
          /\ \A v \in Users : v # u => listSave'[v] = listSave[v]
      BY <1>0, <2>3 DEF ListFile!Idle, SaveStates, Contents
    <3> QED BY <1>0, <1>1, <2>1, <3>1
  <2> QED BY <1>4, <2>2, <2>3 DEF ListFile!WriteTemp
<1>5. CASE ListFile!Rename(u)
  <2>1. listDisk' \in Contents /\ listTemp' \in Contents
    BY <1>0, <1>5 DEF ListFile!Rename, Contents
  <2>2. PICK ok \in BOOLEAN : listSave' = ListFile!Ended(u, ok)
    BY <1>5 DEF ListFile!Rename
  <2> QED BY <1>0, <1>2, <2>1, <2>2
<1> QED BY <1>0, <1>3, <1>4, <1>5 DEF SaveList, ListFile!SaveStep

LEMMA SaveListHolds ==
    ASSUME ListInv, NEW u \in Users, SaveList(u)
    PROVE  FileTypes' /\ Holding' /\ UNCHANGED <<stores, current, use>>
<1>1. UNCHANGED <<stores, current, use>>
  BY DEF SaveList
<1>2. Holding'
  BY <1>1 DEF ListInv, Holding, Held
<1> QED BY <1>1, <1>2, SaveListTypes

LEMMA RelaunchHolds ==
    ASSUME ListInv, Relaunch
    PROVE  /\ Holding' /\ FileTypes' /\ UNCHANGED <<listDisk, listTemp>>
           /\ \A u \in Users : /\ use'[u].at = "idle" /\ listSave'[u].at = "idle"
                               /\ stores'[u] = Nothing
           /\ current' = Nothing
<1>1. /\ stores' = [u \in Users |-> Nothing] /\ current' = Nothing
      /\ use' = [u \in Users |-> NotUsing]
      /\ listSave' = [u \in Users |-> ListFile!Idle] /\ UNCHANGED <<listDisk, listTemp>>
  BY DEF Relaunch, ListFile!Dies
<1>2. Holding'
  BY <1>1, NotUsingIs, ProfilesAssumption DEF Holding, Held
<1>3. FileTypes'
  BY <1>1 DEF ListInv, FileTypes, ListFile!Idle, SaveStates, Contents
<1> QED BY <1>1, <1>2, <1>3, NotUsingIs DEF ListFile!Idle

\* A list that has been read whole stays whole.
WholeStays ==
    \A u \in Users :
        stores[u] # Nothing /\ stores'[u] # Nothing /\ Whole(stores[u]) => Whole(stores'[u])

LEMMA ListInvStep ==
    ASSUME ListInv, OneStore', [ProfilesNext]_profileVars
    PROVE  ListInv' /\ WholeStays
<1>1. CASE UNCHANGED profileVars
  BY <1>1 DEF profileVars, ListInv, Holding, Held, FileTypes, WholeStays
<1>2. CASE Relaunch
  BY <1>2, RelaunchHolds DEF ListInv, WholeStays
<1>3. ASSUME NEW u \in Users, Call(u) PROVE ListInv' /\ WholeStays
  <2>1. UNCHANGED <<listDisk, listTemp, listSave>>
    BY <1>3 DEF Call
  <2> QED BY <1>3, <2>1, CallStepHolds DEF ListInv, FileTypes, WholeStays
<1>4. ASSUME NEW u \in Users, ReadList(u) PROVE ListInv' /\ WholeStays
  <2>1. UNCHANGED <<listDisk, listTemp, listSave>>
    BY <1>4 DEF ReadList
  <2>2. /\ Holding' /\ stores[u] = Nothing
        /\ \A v \in Users : v # u => stores'[v] = stores[v]
    BY <1>4, ReadListHolds
  <2> QED BY <2>1, <2>2 DEF ListInv, FileTypes, WholeStays
<1>5. ASSUME NEW u \in Users, KeepFirst(u) PROVE ListInv' /\ WholeStays
  <2>1. UNCHANGED <<listDisk, listTemp, listSave>>
    BY <1>5 DEF KeepFirst
  <2> QED BY <1>5, <2>1, KeepFirstHolds DEF ListInv, FileTypes, WholeStays
<1>6. ASSUME NEW u \in Users, Edits(u) PROVE ListInv' /\ WholeStays
  BY <1>6, EditHolds DEF ListInv, FileTypes, WholeStays
<1>7. ASSUME NEW u \in Users, EncodeActive(u) PROVE ListInv' /\ WholeStays
  BY <1>7, EncodeActiveHolds DEF ListInv, FileTypes, WholeStays
<1>8. ASSUME NEW u \in Users, EncodeEntries(u) PROVE ListInv' /\ WholeStays
  BY <1>8, EncodeEntriesHolds DEF ListInv, WholeStays
<1>9. ASSUME NEW u \in Users, SaveList(u) PROVE ListInv' /\ WholeStays
  BY <1>9, SaveListHolds DEF ListInv, WholeStays
<1> QED
  BY <1>1, <1>2, <1>3, <1>4, <1>5, <1>6, <1>7, <1>8, <1>9
  DEF ProfilesNext, Works, Edits

LEMMA AlwaysListInv == ProfilesSpec => [](StoreInv /\ ListInv)
<1>1. ProfilesInit => StoreInv /\ ListInv
  BY StoreInvInit, HoldingInit DEF StoreInv, ListInv
<1>2. StoreInv /\ ListInv /\ [ProfilesNext]_profileVars => (StoreInv /\ ListInv)'
  BY StoreInvNext, ListInvStep DEF StoreInv
<1> QED BY <1>1, <1>2, PTL DEF ProfilesSpec

(***************************************************************************)
(* Add, Remove, Select and Update leave every list whole that was, whatever *)
(* calls overlap: no link appears twice, and something in it is selected.  *)
(***************************************************************************)
THEOREM SelectionExistsCorrect == ProfilesSpec => SelectionExists
<1>1. StoreInv /\ ListInv /\ (StoreInv /\ ListInv)' /\ [ProfilesNext]_profileVars
        => [WholeStays]_profileVars
  BY ListInvStep DEF ListInv
<1>2. [WholeStays]_profileVars
        => [\A u \in Users :
              stores[u] # Nothing /\ stores'[u] # Nothing /\ Whole(stores[u]) => Whole(stores'[u])
           ]_profileVars
  BY DEF WholeStays
<1> QED BY <1>1, <1>2, AlwaysListInv, PTL DEF ProfilesSpec, SelectionExists

-----------------------------------------------------------------------------
(* Calls that do not overlap.  The one at work saves a.store as it is, and *)
(* nobody else opens the temporary file.                                   *)

OneAtATime == \A t, u \in Users : t # u => ~(Busy(t) /\ Busy(u))

InStep(u) ==
    /\ use[u].at # "idle" => listSave[u].at = "idle"
    /\ use[u].at \in {"read", "keep"} => current = Nothing
    /\ use[u].at = "keep" /\ ~listUnread => stores[u] = Read(listDisk)
    /\ use[u].at = "entries" => use[u].active = stores[current].active
    /\ listSave[u].at # "idle" => current # Nothing
    /\ listSave[u].at \in {"open", "write"} => listSave[u].data = stores[current]
    /\ listSave[u].at = "write" => ~listSave[u].shared
    /\ listSave[u].at = "rename" => listTemp = stores[current]

\* Nothing of u's is yet to be saved, and its last save succeeded.
Calm(u) == use[u].at \in {"idle", "change"} /\ ~ListFile!Saving(u) /\ listSave[u].ok

Kept ==
    ~listUnread /\ current # Nothing /\ (\A u \in Users : Calm(u))
        => Read(listDisk) = stores[current]

\* Every step but that of ReadList.
Remembers == listUnread' = (listUnread /\ listDisk' = listDisk)

InOrder == OneAtATime /\ (\A u \in Users : InStep(u)) /\ Kept

KeptInv == ListInv /\ (~crossed => InOrder)

\* What one user's step leaves of the others.
OthersAlone(u) ==
    \A v \in Users : v # u =>
        /\ use'[v] = use[v]
        /\ listSave'[v].at = listSave[v].at /\ listSave'[v].data = listSave[v].data
        /\ listSave'[v].ok = listSave[v].ok

\* Enough for InOrder': u was or is at work, so that the others are not.
LEMMA InOrderFrom ==
    ASSUME InOrder, OneAtATime', NEW u \in Users, OthersAlone(u), Busy(u) \/ Busy(u)',
           InStep(u)', Kept'
    PROVE  InOrder'
<1>1. \A v \in Users : v # u => ~Busy(v)
  <2> SUFFICES ASSUME NEW v \in Users, v # u PROVE ~Busy(v)
    OBVIOUS
  <2>1. Busy(v)' <=> Busy(v)
    BY DEF OthersAlone, Busy, ListFile!Saving
  <2> QED BY <2>1 DEF InOrder, OneAtATime
<1>2. \A v \in Users : v # u => InStep(v)'
  BY <1>1 DEF OthersAlone, Busy, ListFile!Saving, InStep
<1> QED BY <1>2 DEF InOrder

LEMMA CallInOrder ==
    ASSUME ListInv, InOrder, OneAtATime', NEW u \in Users, Call(u), Remembers
    PROVE  InOrder'
<1>1. /\ use[u].at = "idle" /\ ~ListFile!Saving(u)
      /\ UNCHANGED <<stores, current, listDisk, listTemp, listSave>>
      /\ listUnread' <=> listUnread
      /\ use' = [use EXCEPT ![u] =
                   Using(IF current = Nothing THEN "read" ELSE "change", current, Nothing)]
  BY DEF Call, Remembers
<1>2. /\ use'[u].at = IF current = Nothing THEN "read" ELSE "change"
      /\ \A v \in Users : v # u => use'[v] = use[v]
  BY <1>1, Parts DEF ListInv, Holding
<1>3. OthersAlone(u) /\ Busy(u)'
  BY <1>1, <1>2 DEF OthersAlone, Busy
<1>4. InStep(u)'
  BY <1>1, <1>2 DEF InStep, InOrder, ListFile!Saving
<1>5. \A v \in Users : Calm(v)' /\ current # Nothing => Calm(v)
  BY <1>1, <1>2 DEF Calm, ListFile!Saving
<1>6. Kept'
  BY <1>1, <1>5 DEF Kept, InOrder
<1> QED BY <1>3, <1>4, <1>6, InOrderFrom

LEMMA ReadInOrder ==
    ASSUME ListInv, InOrder, OneAtATime', NEW u \in Users, ReadList(u)
    PROVE  InOrder'
<1>1. /\ use[u].at = "read" /\ UNCHANGED <<current, listDisk, listTemp, listSave>>
  BY DEF ReadList
<1>2. /\ ~listUnread' => stores'[u] = Read(listDisk)
      /\ use'[u].at = "keep" /\ \A v \in Users : v # u => use'[v] = use[v]
  BY ReadListHolds
<1>3. OthersAlone(u) /\ Busy(u)
  BY <1>1, <1>2 DEF OthersAlone, Busy
<1>4. InStep(u)
  BY DEF InOrder
<1>5. InStep(u)' /\ current = Nothing
  BY <1>1, <1>2, <1>4 DEF InStep
<1>6. Kept'
  BY <1>1, <1>5 DEF Kept
<1> QED BY <1>3, <1>5, <1>6, InOrderFrom

LEMMA KeepInOrder ==
    ASSUME ListInv, InOrder, OneAtATime', NEW u \in Users, KeepFirst(u), Remembers
    PROVE  InOrder'
<1>1. /\ use[u].at = "keep" /\ UNCHANGED <<listDisk, listTemp, listSave>>
      /\ listUnread' <=> listUnread
  BY DEF KeepFirst, Remembers
<1>2. /\ use'[u].at = "change" /\ \A v \in Users : v # u => use'[v] = use[v]
      /\ current = Nothing => current' = u /\ stores'[u] = stores[u]
  BY KeepFirstHolds
<1>3. InStep(u)
  BY DEF InOrder
<1>4. /\ current' = u /\ listSave[u].at = "idle"
      /\ ~listUnread => stores'[u] = Read(listDisk)
  BY <1>1, <1>2, <1>3 DEF InStep
<1>5. OthersAlone(u) /\ Busy(u)
  BY <1>1, <1>2 DEF OthersAlone, Busy
<1>6. InStep(u)'
  BY <1>1, <1>2, <1>4 DEF InStep
<1>7. Kept'
  BY <1>1, <1>4 DEF Kept
<1> QED BY <1>5, <1>6, <1>7, InOrderFrom

LEMMA EditInOrder ==
    ASSUME ListInv, InOrder, OneAtATime', NEW u \in Users, Edits(u), Remembers
    PROVE  InOrder'
<1>1. /\ UNCHANGED <<current, listDisk, listTemp, listSave>> /\ (listUnread' <=> listUnread)
      /\ \A v \in Users : v # u => use'[v] = use[v]
      /\ \/ use'[u].at = "idle" /\ stores' = stores
         \/ use'[u].at = "active"
      /\ use[u].at = "change" /\ current # Nothing
  BY EditHolds DEF Remembers
<1>2. OthersAlone(u) /\ Busy(u)
  BY <1>1 DEF OthersAlone, Busy
<1>3. InStep(u)
  BY DEF InOrder
<1>4. InStep(u)'
  BY <1>1, <1>3 DEF InStep
<1>5. Kept'
  <2>1. CASE use'[u].at = "active"
    BY <2>1 DEF Kept, Calm
  <2>2. CASE use'[u].at = "idle" /\ stores' = stores
    <3>1. \A v \in Users : Calm(v)' => Calm(v)
      BY <1>1, <2>2 DEF Calm, ListFile!Saving
    <3> QED BY <1>1, <2>2, <3>1 DEF Kept, InOrder
  <2> QED BY <1>1, <2>1, <2>2
<1> QED BY <1>2, <1>4, <1>5, InOrderFrom

LEMMA EncodeInOrder ==
    ASSUME ListInv, InOrder, OneAtATime', NEW u \in Users, EncodeActive(u) \/ EncodeEntries(u), Remembers
    PROVE  InOrder'
<1>1. InStep(u)
  BY DEF InOrder
<1>2. CASE EncodeActive(u)
  <2>1. /\ UNCHANGED <<stores, current, listDisk, listTemp, listSave>>
        /\ \A v \in Users : v # u => use'[v] = use[v]
        /\ use'[u].at = "entries" /\ use'[u].active = stores[current].active
        /\ use[u].at = "active"
    BY <1>2, EncodeActiveHolds
  <2>2. OthersAlone(u) /\ Busy(u)
    BY <2>1 DEF OthersAlone, Busy
  <2>3. InStep(u)' /\ Kept'
    BY <1>1, <2>1 DEF InStep, Kept, Calm
  <2> QED BY <2>2, <2>3, InOrderFrom
<1>3. CASE EncodeEntries(u)
  <2>1. /\ UNCHANGED <<stores, current, listDisk, listTemp>>
        /\ \A v \in Users : v # u => use'[v] = use[v] /\ listSave'[v] = listSave[v]
        /\ use'[u].at = "idle" /\ listSave'[u].at = "open"
        /\ listSave'[u].data = [active |-> use[u].active, entries |-> stores[current].entries]
        /\ use[u].at = "entries" /\ current # Nothing /\ stores[current] \in Lists
    BY <1>3, EncodeEntriesHolds
  <2>2. stores[current] = [active |-> stores[current].active, entries |-> stores[current].entries]
    BY <2>1 DEF Lists, Stores
  <2>3. listSave'[u].data = stores[current]
    BY <1>1, <2>1, <2>2 DEF InStep
  <2>4. OthersAlone(u) /\ Busy(u)
    BY <2>1 DEF OthersAlone, Busy
  <2>5. InStep(u)' /\ Kept'
    BY <1>1, <2>1, <2>3 DEF InStep, Kept, Calm, ListFile!Saving
  <2> QED BY <2>4, <2>5, InOrderFrom
<1> QED BY <1>2, <1>3

LEMMA SaveInOrder ==
    ASSUME ListInv, InOrder, OneAtATime', NEW u \in Users, SaveList(u), Remembers
    PROVE  InOrder'
<1>1. UNCHANGED <<stores, current, use>>
  BY DEF SaveList
<1>2. Busy(u) /\ listSave[u].at # "idle"
  BY DEF SaveList, ListFile!SaveStep, ListFile!OpenTemp, ListFile!WriteTemp, ListFile!Rename,
         Busy, ListFile!Saving
<1>3. \A v \in Users : v # u => listSave[v].at = "idle"
  BY <1>2 DEF InOrder, OneAtATime, Busy, ListFile!Saving
<1>4. ~ListFile!OthersOpen(u)
  BY <1>3 DEF ListFile!OthersOpen
<1>5. InStep(u) /\ use[u].at = "idle" /\ current # Nothing /\ stores[current] \in Lists
  BY <1>2 DEF InOrder, InStep, ListInv, Holding
<1>6. ASSUME NEW ok \in BOOLEAN, listSave' = ListFile!Ended(u, ok),
             ok => Read(listDisk') = stores[current]
      PROVE  InOrder'
  <2>1. /\ listSave'[u].at = "idle" /\ listSave'[u].ok = ok
        /\ \A v \in Users : v # u => listSave'[v] = listSave[v]
    BY <1>6, EndedSave DEF ListInv
  <2>2. OthersAlone(u) /\ InStep(u)'
    BY <1>1, <1>5, <2>1 DEF OthersAlone, InStep
  <2>3. Kept'
    BY <1>1, <1>6, <2>1 DEF Kept, Calm
  <2> QED BY <1>2, <2>2, <2>3, InOrderFrom
<1>7. ASSUME listSave'[u].at # "idle", OthersAlone(u), InStep(u)' PROVE InOrder'
  <2>1. Kept'
    BY <1>7 DEF Kept, Calm, ListFile!Saving
  <2> QED BY <1>2, <1>7, <2>1, InOrderFrom
<1>8. CASE ListFile!OpenTemp(u)
  <2>2. CASE listSave' = ListFile!Ended(u, FALSE)
    BY <1>6, <2>2
  <2>3. CASE listSave' = [t \in Users |->
                            IF t = u THEN [at |-> "write", data |-> listSave[u].data,
                                           shared |-> ListFile!OthersOpen(u), ok |-> TRUE]
                            ELSE [listSave[t] EXCEPT !.shared = @ \/ listSave[t].at = "write"]]
    <3>1. /\ listSave'[u].at = "write" /\ listSave'[u].data = listSave[u].data
          /\ ~listSave'[u].shared
      BY <1>4, <2>3
    <3>2. \A v \in Users : v # u => /\ listSave'[v].at = listSave[v].at
                                    /\ listSave'[v].data = listSave[v].data
                                    /\ listSave'[v].ok = listSave[v].ok
      BY <2>3 DEF ListInv, FileTypes, SaveStates
    <3>3. listSave[u].data = stores[current]
      BY <1>5, <1>8 DEF ListFile!OpenTemp, InStep
    <3>4. OthersAlone(u) /\ InStep(u)'
      BY <1>1, <1>5, <3>1, <3>2, <3>3 DEF OthersAlone, InStep
    <3> QED BY <1>7, <3>1, <3>4
  <2> QED BY <1>8, <2>2, <2>3 DEF ListFile!OpenTemp
<1>9. CASE ListFile!WriteTemp(u)
  <2>2. CASE listSave' = ListFile!Ended(u, FALSE)
    BY <1>6, <2>2
  <2>3. CASE /\ listTemp' \in {listSave[u].data} \cup
                                IF listSave[u].shared THEN {Garbled} ELSE {}
             /\ listSave' = [listSave EXCEPT ![u] = [ListFile!Idle EXCEPT !.at = "rename"]]
    <3>1. /\ listSave'[u].at = "rename"
          /\ \A v \in Users : v # u => listSave'[v] = listSave[v]
      BY <2>3 DEF ListFile!Idle, ListInv, FileTypes
    <3>2. listTemp' = stores[current]
      BY <1>5, <1>9, <2>3 DEF ListFile!WriteTemp, InStep
    <3>3. OthersAlone(u) /\ InStep(u)'
      BY <1>1, <1>5, <3>1, <3>2 DEF OthersAlone, InStep
    <3> QED BY <1>7, <3>1, <3>3
  <2> QED BY <1>9, <2>2, <2>3 DEF ListFile!WriteTemp
<1>10. CASE ListFile!Rename(u)
  <2>1. listTemp = stores[current]
    BY <1>5, <1>10 DEF ListFile!Rename, InStep
  <2>2. CASE listDisk' = listTemp /\ listSave' = ListFile!Ended(u, TRUE)
    BY <1>5, <1>6, <2>1, <2>2, ReadOfList
  <2>3. CASE listSave' = ListFile!Ended(u, FALSE)
    BY <1>6, <2>3
  <2> QED BY <1>10, <2>2, <2>3 DEF ListFile!Rename
<1> QED BY <1>8, <1>9, <1>10 DEF SaveList, ListFile!SaveStep

LEMMA KeptInvNext ==
    StoreInv /\ KeptInv /\ StoreInv' /\ [ProfilesNext]_profileVars => KeptInv'
<1> SUFFICES ASSUME StoreInv, KeptInv, StoreInv', [ProfilesNext]_profileVars PROVE KeptInv'
  OBVIOUS
<1>1. ListInv /\ ListInv'
  BY ListInvStep DEF KeptInv, StoreInv
<1>2. CASE UNCHANGED profileVars
  <2>1. InOrder => InOrder'
    BY <1>2 DEF profileVars, InOrder, OneAtATime, InStep, Kept, Calm, Busy, ListFile!Saving
  <2> QED BY <1>1, <1>2, <2>1 DEF profileVars, KeptInv
<1>3. CASE ProfilesNext
  <2>0. ~crossed' => ~crossed /\ OneAtATime'
    BY <1>3 DEF ProfilesNext, OneAtATime
  <2> SUFFICES ASSUME InOrder, OneAtATime' PROVE InOrder'
    BY <1>1, <2>0 DEF KeptInv
  <2>1. CASE Relaunch
    <3>1. \A u \in Users : use'[u].at = "idle" /\ listSave'[u].at = "idle"
      BY <1>1, <2>1, RelaunchHolds
    <3>2. current' = Nothing
      BY <1>1, <2>1, RelaunchHolds
    <3> QED BY <3>1, <3>2 DEF InOrder, InStep, Kept
  <2>2. ASSUME NEW u \in Users, Call(u), Remembers PROVE InOrder'
    BY <1>1, <2>2, CallInOrder
  <2>3. ASSUME NEW u \in Users, ReadList(u) PROVE InOrder'
    BY <1>1, <2>3, ReadInOrder
  <2>4. ASSUME NEW u \in Users, KeepFirst(u), Remembers PROVE InOrder'
    BY <1>1, <2>4, KeepInOrder
  <2>5. ASSUME NEW u \in Users, Edits(u), Remembers PROVE InOrder'
    BY <1>1, <2>5, EditInOrder
  <2>6. ASSUME NEW u \in Users, EncodeActive(u) \/ EncodeEntries(u), Remembers PROVE InOrder'
    BY <1>1, <2>6, EncodeInOrder
  <2>7. ASSUME NEW u \in Users, SaveList(u), Remembers PROVE InOrder'
    BY <1>1, <2>7, SaveInOrder
  <2> QED
    BY <1>3, <2>1, <2>2, <2>3, <2>4, <2>5, <2>6, <2>7
    DEF ProfilesNext, Works, Edits, Remembers
<1> QED BY <1>2, <1>3

LEMMA KeptInvInit == ProfilesInit => StoreInv /\ KeptInv
<1> SUFFICES ASSUME ProfilesInit PROVE StoreInv /\ KeptInv
  OBVIOUS
<1>1. StoreInv /\ ListInv
  BY StoreInvInit, HoldingInit DEF StoreInv, ListInv
<1>2. /\ current = Nothing /\ use = [u \in Users |-> NotUsing]
      /\ listSave = [u \in Users |-> ListFile!Idle]
  BY DEF ProfilesInit, ListFile!FileInit
<1>3. \A u \in Users : use[u].at = "idle" /\ listSave[u].at = "idle"
  BY <1>2, NotUsingIs DEF ListFile!Idle
<1>4. InOrder
  BY <1>2, <1>3 DEF InOrder, OneAtATime, InStep, Kept, Busy, ListFile!Saving
<1> QED BY <1>1, <1>4 DEF KeptInv

(***************************************************************************)
(* What a call changed and profiles.Save wrote without an error is what    *)
(* loadProfiles reads after a restart, as long as calls do not overlap and *)
(* loadProfiles could read the file, whichever calls of other saves failed *)
(* and whenever the program died.                                          *)
(***************************************************************************)
THEOREM ListKeptCorrect == ProfilesSpec => []ListKept
<1>1. KeptInv => ListKept
  <2> SUFFICES ASSUME KeptInv, ~crossed, ~listUnread, current # Nothing,
                      \A u \in Users : ~Busy(u) /\ listSave[u].ok
               PROVE  Read(listDisk) = stores[current]
    BY DEF ListKept
  <2>1. \A u \in Users : Calm(u)
    BY DEF Busy, Calm
  <2> QED BY <2>1 DEF KeptInv, InOrder, Kept
<1>2. StoreInv /\ KeptInv /\ [ProfilesNext]_profileVars => (StoreInv /\ KeptInv)'
  BY StoreInvNext, KeptInvNext
<1> QED BY <1>1, <1>2, KeptInvInit, PTL DEF ProfilesSpec
=============================================================================
