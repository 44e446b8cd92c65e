------------------------------- MODULE Relay --------------------------------
(***************************************************************************)
(* relay.Pipe for every session (src/internal/relay/relay.go): two copy    *)
(* goroutines, each half-closing its destination when its source is done.  *)
(* The data of a direction is reduced to whether some of it waits to be    *)
(* read.                                                                   *)
(***************************************************************************)
EXTENDS Handlers

CONSTANT PeerEvents    \* what peers may do: subset of {"write", "finish", "reset"}

Sides == {"client", "edge"}
Other(s) == IF s = "client" THEN "edge" ELSE "client"

VARIABLES
    copying,    \* [Clients -> SUBSET Sides]: the sources still being copied
    piped,      \* [Clients -> BOOLEAN]: Pipe is running
    peer,       \* [Clients -> [Sides -> "open", "eof", "reset"]]: what the
                \* peer on that side has done
    unread      \* [Clients -> SUBSET Sides]: data of that side not yet copied

relayVars == <<copying, piped, peer, unread>>

RelayInit ==
    /\ copying = [k \in Clients |-> {}]
    /\ piped = [k \in Clients |-> FALSE]
    /\ peer = [k \in Clients |-> [s \in Sides |-> "eof"]]
    /\ unread = [k \in Clients |-> {}]

RelayTypeOK ==
    /\ copying \in [Clients -> SUBSET Sides]
    /\ piped \in [Clients -> BOOLEAN]
    /\ peer \in [Clients -> [Sides -> {"open", "eof", "reset"}]]
    /\ unread \in [Clients -> SUBSET Sides]

\* Pipe is called; the client may have written before it was served.
Pipe(k) ==
    /\ copying' = [copying EXCEPT ![k] = Sides]
    /\ piped' = [piped EXCEPT ![k] = TRUE]
    /\ peer' = [peer EXCEPT ![k] = [s \in Sides |-> "open"]]
    /\ unread' = [unread EXCEPT ![k] = {}]

\* copyBuffer moves what it reads on to the other side.
Copy(k, s) ==
    /\ s \in copying[k] /\ s \in unread[k] /\ peer[k][Other(s)] # "reset"
    /\ unread' = [unread EXCEPT ![k] = @ \ {s}]
    /\ UNCHANGED <<copying, piped, peer>>

\* The source has nothing left (EOF), or one of the two connections is broken:
\* the direction ends and closeWrite tells the destination.
CopyEnds(k, s) ==
    /\ s \in copying[k]
    /\ \/ peer[k][s] = "eof" /\ s \notin unread[k]
       \/ peer[k][s] = "reset"
       \/ s \in unread[k] /\ peer[k][Other(s)] = "reset"
    /\ copying' = [copying EXCEPT ![k] = @ \ {s}]
    /\ UNCHANGED <<piped, peer, unread>>

PipeReturnsAtFirst(k) == piped[k] /\ copying[k] # Sides

\* wg.Wait: both directions are done.
PipeReturns(k) == piped[k] /\ copying[k] = {}

\* Both connections are closed; what was unread is gone.
PipeClose(k) ==
    /\ PipeReturns(k)
    /\ piped' = [piped EXCEPT ![k] = FALSE]
    /\ copying' = [copying EXCEPT ![k] = {}]
    /\ peer' = [peer EXCEPT ![k] = [s \in Sides |-> "eof"]]
    /\ unread' = [unread EXCEPT ![k] = {}]

\* The peers: write, finish, or break.  A side that was told the other is done
\* may still write.
PeerWrites(k, s) ==
    /\ "write" \in PeerEvents
    /\ piped[k] /\ peer[k][s] = "open" /\ s \notin unread[k]
    /\ unread' = [unread EXCEPT ![k] = @ \cup {s}]
    /\ UNCHANGED <<copying, piped, peer>>

PeerFinishes(k, s) ==
    /\ "finish" \in PeerEvents
    /\ piped[k] /\ peer[k][s] = "open"
    /\ peer' = [peer EXCEPT ![k][s] = "eof"]
    /\ UNCHANGED <<copying, piped, unread>>

PeerResets(k, s) ==
    /\ "reset" \in PeerEvents
    /\ piped[k] /\ peer[k][s] # "reset"
    /\ peer' = [peer EXCEPT ![k][s] = "reset"]
    /\ UNCHANGED <<copying, piped, unread>>

RelayNext ==
    \E k \in Clients :
        \/ ~piped[k] /\ Pipe(k)
        \/ PipeClose(k)
        \/ \E s \in Sides : \/ Copy(k, s) \/ CopyEnds(k, s)
                            \/ PeerWrites(k, s) \/ PeerFinishes(k, s) \/ PeerResets(k, s)

-----------------------------------------------------------------------------
(* Properties.                                                             *)

\* Pipe drops nothing: when it closes both connections and neither peer has
\* broken its own, both have finished and all they wrote was passed on
\* (relay.go:50-55).
NothingTruncated ==
    [][\A k \in Clients : piped[k] /\ ~piped'[k] =>
         \/ \E s \in Sides : peer[k][s] = "reset"
         \/ unread[k] = {} /\ \A s \in Sides : peer[k][s] = "eof"]_relayVars
=============================================================================
