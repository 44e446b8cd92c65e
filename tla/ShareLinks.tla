----------------------------- MODULE ShareLinks -----------------------------
(***************************************************************************)
(* From a share link to what xray is given: ParseLink with applyStream and *)
(* applySecurity (src/internal/share/parse.go), Profile.Validate and       *)
(* Outbound (src/internal/share/outbound.go).                              *)
(*                                                                         *)
(* A parameter of which only the presence matters is a BOOLEAN.  Address,  *)
(* port and credential are required by ParseLink as they are by Validate,  *)
(* and left out.  "empty" is the empty string.                             *)
(***************************************************************************)
CONSTANT NoProfile

VARIABLES
    link,
    profile     \* what ParseLink made of it; NoProfile before, or if it refuses

shareVars == <<link, profile>>

Links ==
    [type : {"tcp", "ws", "grpc", "httpupgrade", "xhttp", "kcp", "h2", "?"},
     security : {"none", "tls", "reality", "xtls", "?"},
     sni : BOOLEAN, host : BOOLEAN, pbk : BOOLEAN, seed : BOOLEAN,
     headerType : {"empty", "none", "http", "srtp"}]

ShareInit == link \in Links /\ profile = NoProfile

\* Transports that xray has removed, and unknown ones.
Refused == {"h2", "?"}

Network(l) == IF l.type = "tcp" THEN "raw" ELSE l.type

Security(l) ==
    CASE l.security \in {"none", "?"} -> "none"
      [] l.security \in {"tls", "xtls"} -> "tls"
      [] l.security = "reality" -> "reality"

\* The Host parameter stands in for a missing SNI.
SNI(l) == l.sni \/ l.host

Seed(l) == Network(l) = "kcp" /\ l.seed

\* Any value is taken, for either transport.
HeaderType(l) ==
    IF Network(l) \in {"kcp", "raw"} /\ l.headerType # "none" THEN l.headerType ELSE "empty"

RealityNetworks == {"raw", "xhttp", "grpc"}

WarnsFromLink(l) ==
    \/ Network(l) = "kcp" /\ (Seed(l) \/ HeaderType(l) # "empty")
    \/ Security(l) = "reality" /\ (~l.pbk \/ ~l.sni \/ Network(l) \notin RealityNetworks)

\* The warnings that say that the link cannot be used or will not start.
WarnsUnusable(l) ==
    \/ Network(l) = "kcp" /\ (Seed(l) \/ HeaderType(l) # "empty")
    \/ Security(l) = "reality" /\ (~l.pbk \/ ~SNI(l) \/ Network(l) \notin RealityNetworks)

ParseLink(l) ==
    [network |-> Network(l), security |-> Security(l), sni |-> SNI(l), host |-> l.host,
     pbk |-> Security(l) = "reality" /\ l.pbk, seed |-> Seed(l), headerType |-> HeaderType(l),
     unusable |-> WarnsUnusable(l)]

Import ==
    /\ profile = NoProfile /\ link.type \notin Refused
    /\ profile' = ParseLink(link)
    /\ UNCHANGED link

ShareNext == Import

ShareSpec == ShareInit /\ [][ShareNext]_shareVars

Validate(p) ==
    /\ p.security = "reality" => p.pbk /\ p.sni /\ p.network \in RealityNetworks
    /\ ~(p.network = "kcp" /\ (p.seed \/ p.headerType # "empty"))

\* Outbound's stream settings: which security block and which transport block
\* there is, and which fields are filled in.
SecuritySettings(p) ==
    CASE p.security = "tls"     -> [kind |-> "tls", serverName |-> p.sni, publicKey |-> FALSE]
      [] p.security = "reality" -> [kind |-> "reality", serverName |-> p.sni, publicKey |-> p.pbk]
      [] OTHER                  -> [kind |-> "none", serverName |-> FALSE, publicKey |-> FALSE]

TransportSettings(p) ==
    IF p.network = "raw" THEN IF p.headerType = "empty" THEN {} ELSE {<<"raw", p.headerType>>}
    ELSE {<<p.network, IF p.host /\ p.network # "kcp" THEN "host" ELSE "plain">>}

Outbound(p) ==
    [network |-> p.network, security |-> SecuritySettings(p), transport |-> TransportSettings(p)]

-----------------------------------------------------------------------------

\* What the comments and the tests of the package say of xray: REALITY runs over
\* three transports only and needs a key and a name, mKCP takes no seed and no
\* header, and the one disguise that the raw transport has is "http".
XrayRuns(ob) ==
    /\ ob.security.kind = "reality" =>
         /\ ob.network \in RealityNetworks
         /\ ob.security.serverName /\ ob.security.publicKey
    /\ \A t \in ob.transport : t[1] = ob.network
    /\ ob.network = "kcp" => ob.transport = {<<"kcp", "plain">>}
    /\ ob.network = "raw" => ob.transport \subseteq {<<"raw", "http">>}

\* A disguise for the raw transport that it does not have.
OddDisguise(l) == l.type = "tcp" /\ l.headerType \notin {"empty", "none", "http"}

\* The parser's notes, Validate and Outbound are three accounts, written apart, of
\* what xray runs.  An import is marked as one that cannot be used exactly when
\* connecting with it will be refused; and what Validate passes gives an outbound
\* that xray runs, with a server name whenever TLS is in use and the link has a
\* name at all.  The one exception, which no account looks at, is a raw link with
\* a disguise that the transport does not have.
AccountsAgree ==
    profile # NoProfile =>
        /\ profile.unusable <=> ~Validate(profile)
        /\ Validate(profile) =>
             /\ OddDisguise(link) \/ XrayRuns(Outbound(profile))
             /\ profile.security # "none" /\ (link.sni \/ link.host)
                  => Outbound(profile).security.serverName
=============================================================================
