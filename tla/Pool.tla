-------------------------------- MODULE Pool --------------------------------
(***************************************************************************)
(* The pool of warm connections (src/internal/pool/pool.go): a buffered    *)
(* channel of idle entries, the one-slot fill signal, fillLoop, reapLoop,  *)
(* Get and Close.                                                          *)
(*                                                                         *)
(* An entry is usable until it expires or its peer closes or writes to it; *)
(* which of these happened makes no difference, conn[c] = "bad" stands for *)
(* all.  The counters Hits, Misses, Discarded and DialFails only feed the  *)
(* display and are left out.  So is Get's refusal once Close was called:   *)
(* the only owner of a pool, the tunnel, closes it after its last Get.     *)
(***************************************************************************)
EXTENDS Upstream

CONSTANT Size     \* p.size, the capacity of idle; 0 disables warming

ASSUME PoolAssumption == Size \in Nat

VARIABLES
    idle,        \* p.idle
    fill,        \* whether p.fill holds a signal
    filler,      \* fillLoop
    reaper,      \* reapLoop
    sweep,       \* reapLoop's i
    reaping,     \* the entry reapLoop is probing
    got,         \* [Clients -> Conns \cup {None}]: the entry a Get is probing,
                 \* later the connection of the relay
    getting,     \* [Clients -> GetStates]: Get
    closing      \* Close: "no", "cancelled", "done"

poolVars == <<idle, fill, filler, reaper, sweep, reaping, got, getting, closing>>
reapVars == <<reaper, sweep, reaping>>
getVars  == <<got, getting>>

FillStates == {"off", "check", "full", "dial", "backoff", "offer"}
ReapStates == {"off", "wait", "sweep", "probe"}
GetStates  == {"none", "take", "probe", "dial", "ok", "err"}

PoolInit ==
    /\ idle = <<>> /\ fill = FALSE
    /\ filler = "off" /\ reaper = "off" /\ sweep = 0 /\ reaping = None
    /\ got = [k \in Clients |-> None]
    /\ getting = [k \in Clients |-> "none"]
    /\ closing = "no"

PoolTypeOK ==
    /\ idle \in Seq(Conns) /\ Len(idle) <= Size
    /\ fill \in BOOLEAN
    /\ filler \in FillStates
    /\ reaper \in ReapStates
    /\ sweep \in 0 .. Size
    /\ reaping \in Conns \cup {None}
    /\ got \in [Clients -> Conns \cup {None}]
    /\ getting \in [Clients -> GetStates]
    /\ closing \in {"no", "cancelled", "done"}

\* New: the two loops are started unless warming is disabled.
New ==
    /\ idle' = <<>> /\ fill' = FALSE
    /\ filler' = IF Size > 0 THEN "check" ELSE "off"
    /\ reaper' = IF Size > 0 THEN "wait" ELSE "off"
    /\ closing' = "no"
    /\ UNCHANGED <<sweep, reaping, getVars>>

\* requestFill: a pending request coalesces with a new one.
RequestFill == fill' = (Size > 0)

\* conn.Close; the name is free again.
Shut(c) == conn' = [conn EXCEPT ![c] = "closed"]

HasRoomForOneMore == Len(idle) <= Size

HasRoom == Len(idle) < Size

-----------------------------------------------------------------------------
(* Get.                                                                    *)

\* A warm entry, or, with none at hand, an inline dial.
GetTake(k) ==
    /\ getting[k] = "take" /\ idle # <<>>
    /\ idle' = Tail(idle)
    /\ got' = [got EXCEPT ![k] = Head(idle)]
    /\ getting' = [getting EXCEPT ![k] = "probe"]
    /\ RequestFill
    /\ UNCHANGED <<upstreamVars, filler, reapVars, closing>>

GetMiss(k) ==
    /\ getting[k] = "take" /\ idle = <<>>
    /\ getting' = [getting EXCEPT ![k] = "dial"]
    /\ RequestFill
    /\ Call(k)
    /\ UNCHANGED <<routerVars, conn, idle, filler, reapVars, got, closing>>

\* usable decides: the entry is handed out, or closed and the next one tried.
GetProbe(k) ==
    /\ getting[k] = "probe"
    /\ IF conn[got[k]] = "good"
       THEN /\ getting' = [getting EXCEPT ![k] = "ok"]
            /\ UNCHANGED <<conn, got>>
       ELSE /\ getting' = [getting EXCEPT ![k] = "take"]
            /\ got' = [got EXCEPT ![k] = None]
            /\ Shut(got[k])
    /\ UNCHANGED <<routerVars, dial, idle, fill, filler, reapVars, closing>>

GetDialledOnSuccess(k) ==
    /\ getting[k] = "dial" /\ dial[k].at = "ok"
    /\ getting' = [getting EXCEPT ![k] = dial[k].at]
    /\ got' = [got EXCEPT ![k] = dial[k].conn]
    /\ Return(k)
    /\ UNCHANGED <<routerVars, conn, idle, fill, filler, reapVars, closing>>

\* The inline dial has returned.
GetDialled(k) ==
    /\ getting[k] = "dial" /\ dial[k].at \in {"ok", "err"}
    /\ getting' = [getting EXCEPT ![k] = dial[k].at]
    /\ got' = [got EXCEPT ![k] = dial[k].conn]
    /\ Return(k)
    /\ UNCHANGED <<routerVars, conn, idle, fill, filler, reapVars, closing>>

Get(k) == GetTake(k) \/ GetMiss(k) \/ GetProbe(k) \/ GetDialled(k)

-----------------------------------------------------------------------------
(* fillLoop: one warm-up at a time while the channel has room.             *)

FillCheck ==
    /\ filler = "check"
    /\ IF HasRoom THEN filler' = "dial" /\ Call(Filler)
                  ELSE filler' = "full" /\ UNCHANGED dial
    /\ UNCHANGED <<routerVars, conn, idle, fill, reapVars, getVars, closing>>

\* The signal is consumed, or the second is over.
FillWake ==
    /\ filler = "full"
    /\ filler' = "check"
    /\ fill' \in {fill, FALSE}
    /\ UNCHANGED <<upstreamVars, idle, reapVars, getVars, closing>>

FillDialledGivesUp ==
    /\ filler = "dial" /\ dial[Filler].at \in {"ok", "err"}
    /\ filler' = IF dial[Filler].at = "ok" THEN "offer" ELSE "off"
    /\ IF dial[Filler].at = "err" THEN Return(Filler) ELSE UNCHANGED dial
    /\ UNCHANGED <<routerVars, conn, idle, fill, reapVars, getVars, closing>>

FillDialled ==
    /\ filler = "dial" /\ dial[Filler].at \in {"ok", "err"}
    /\ filler' = IF dial[Filler].at = "ok" THEN "offer" ELSE "backoff"
    /\ IF dial[Filler].at = "err" THEN Return(Filler) ELSE UNCHANGED dial
    /\ UNCHANGED <<routerVars, conn, idle, fill, reapVars, getVars, closing>>

FillRetry ==
    /\ filler = "backoff"
    /\ filler' = "check"
    /\ UNCHANGED <<upstreamVars, idle, fill, reapVars, getVars, closing>>

FillOffer ==
    /\ filler = "offer" /\ HasRoom
    /\ idle' = Append(idle, dial[Filler].conn)
    /\ filler' = "check"
    /\ Return(Filler)
    /\ UNCHANGED <<routerVars, conn, fill, reapVars, getVars, closing>>

\* Filled up while we were dialling: reapLoop has put an entry back.
FillDrop ==
    /\ filler = "offer" /\ ~HasRoom /\ closing = "no"
    /\ Shut(dial[Filler].conn)
    /\ filler' = "check"
    /\ Return(Filler)
    /\ UNCHANGED <<routerVars, idle, fill, reapVars, getVars, closing>>

FillExitUnlessBackingOff ==
    /\ closing = "cancelled" /\ filler \in {"full", "offer"}
    /\ IF filler = "offer" THEN Shut(dial[Filler].conn) /\ Return(Filler)
                           ELSE UNCHANGED <<conn, dial>>
    /\ filler' = "off"
    /\ UNCHANGED <<routerVars, idle, fill, reapVars, getVars, closing>>

\* ctx.Done, wherever the loop selects on it.
FillExit ==
    /\ closing = "cancelled" /\ filler \in {"full", "backoff", "offer"}
    /\ IF filler = "offer" THEN Shut(dial[Filler].conn) /\ Return(Filler)
                           ELSE UNCHANGED <<conn, dial>>
    /\ filler' = "off"
    /\ UNCHANGED <<routerVars, idle, fill, reapVars, getVars, closing>>

FillLoop == \/ FillCheck \/ FillWake \/ FillDialled \/ FillRetry
            \/ FillOffer \/ FillDrop \/ FillExit

-----------------------------------------------------------------------------
(* reapLoop: each sweep takes the entries present at its start, one by one *)

ReapTick ==
    /\ reaper = "wait" /\ idle # <<>>
    /\ reaper' = "sweep"
    /\ sweep' = Len(idle)
    /\ UNCHANGED <<upstreamVars, idle, fill, filler, reaping, getVars, closing>>

ReapTake ==
    /\ reaper = "sweep" /\ sweep > 0 /\ idle # <<>>
    /\ reaping' = Head(idle)
    /\ idle' = Tail(idle)
    /\ reaper' = "probe"
    /\ UNCHANGED <<upstreamVars, fill, filler, sweep, getVars, closing>>

ReapKeepsOverflow ==
    /\ reaper = "probe"
    /\ IF conn[reaping] = "bad"
       THEN Shut(reaping) /\ RequestFill /\ UNCHANGED idle
       ELSE /\ idle' = IF HasRoom THEN Append(idle, reaping) ELSE idle
            /\ UNCHANGED <<conn, fill>>
    /\ reaping' = None
    /\ reaper' = "sweep"
    /\ sweep' = sweep - 1
    /\ UNCHANGED <<routerVars, dial, filler, getVars, closing>>

\* Unusable: closed and a refill requested.  Usable: put back, or closed when
\* fillLoop has taken the place meanwhile.
ReapProbe ==
    /\ reaper = "probe"
    /\ IF conn[reaping] = "bad"
       THEN Shut(reaping) /\ RequestFill /\ UNCHANGED idle
       ELSE IF HasRoom
       THEN idle' = Append(idle, reaping) /\ UNCHANGED <<conn, fill>>
       ELSE Shut(reaping) /\ UNCHANGED <<idle, fill>>
    /\ reaping' = None
    /\ reaper' = "sweep"
    /\ sweep' = sweep - 1
    /\ UNCHANGED <<routerVars, dial, filler, getVars, closing>>

\* Every entry seen, or somebody has emptied the channel.
ReapEnd ==
    /\ reaper = "sweep" /\ (sweep = 0 \/ idle = <<>>)
    /\ reaper' = "wait"
    /\ sweep' = 0
    /\ UNCHANGED <<upstreamVars, idle, fill, filler, reaping, getVars, closing>>

ReapExit ==
    /\ reaper = "wait" /\ closing = "cancelled"
    /\ reaper' = "off"
    /\ UNCHANGED <<upstreamVars, idle, fill, filler, sweep, reaping, getVars, closing>>

ReapLoop == ReapTick \/ ReapTake \/ ReapProbe \/ ReapEnd \/ ReapExit

-----------------------------------------------------------------------------
(* Close, and what time and peers do to a warm connection.                 *)

CloseCancel ==
    /\ closing = "no"
    /\ closing' = "cancelled"
    /\ UNCHANGED <<upstreamVars, idle, fill, filler, reapVars, getVars>>

\* Both loops have returned: what they left is closed.
CloseDrain ==
    /\ closing = "cancelled" /\ filler = "off" /\ reaper = "off"
    /\ conn' = [c \in Conns |-> IF \E i \in DOMAIN idle : idle[i] = c
                                THEN "closed" ELSE conn[c]]
    /\ idle' = <<>>
    /\ closing' = "done"
    /\ UNCHANGED <<routerVars, dial, fill, filler, reapVars, getVars>>

Spoil(c) ==
    /\ conn[c] = "good"
    /\ conn' = [conn EXCEPT ![c] = "bad"]
    /\ UNCHANGED <<routerVars, dial, poolVars>>
=============================================================================
