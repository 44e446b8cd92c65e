-------------------------- MODULE ShareLinksProofs --------------------------
(* Proofs about ShareLinks. *)
EXTENDS ShareLinks, TLAPS

(***************************************************************************)
(* The parser's notes and Validate: for every combination of transport,    *)
(* security and parameters that is not refused, the two tests, written     *)
(* apart in parse.go and outbound.go, come to the same answer.             *)
(***************************************************************************)
LEMMA NotesMatchValidate ==
    ASSUME NEW l \in Links, l.type \notin Refused
    PROVE  WarnsUnusable(l) <=> ~Validate(ParseLink(l))
<1> DEFINE p == ParseLink(l)
<1>1. /\ p.network = Network(l) /\ p.security = Security(l) /\ p.sni = SNI(l)
      /\ p.pbk = (Security(l) = "reality" /\ l.pbk)
      /\ p.seed = Seed(l) /\ p.headerType = HeaderType(l)
  BY DEF ParseLink
<1>2. Validate(p) <=>
        /\ Security(l) = "reality" => l.pbk /\ SNI(l) /\ Network(l) \in RealityNetworks
        /\ ~(Network(l) = "kcp" /\ (Seed(l) \/ HeaderType(l) # "empty"))
  <2> HIDE DEF p
  <2> QED
    BY <1>1 DEF Validate
<1> QED
  BY <1>2 DEF WarnsUnusable

(***************************************************************************)
(* What passes Validate gives an outbound that xray runs, if the disguise  *)
(* of a raw transport is one that it has.                                  *)
(***************************************************************************)
LEMMA ValidOutboundRuns ==
    ASSUME NEW p, Validate(p),
           p.security \in {"none", "tls", "reality"},
           p.sni \in BOOLEAN, p.pbk \in BOOLEAN,
           p.network = "raw" => p.headerType \in {"empty", "http"}
    PROVE  XrayRuns(Outbound(p))
<1>1. /\ Outbound(p).network = p.network
      /\ Outbound(p).security = SecuritySettings(p)
      /\ Outbound(p).transport = TransportSettings(p)
  BY DEF Outbound
<1>2. SecuritySettings(p).kind = "reality" =>
        /\ p.network \in RealityNetworks
        /\ SecuritySettings(p).serverName /\ SecuritySettings(p).publicKey
  <2>1. CASE p.security = "reality"
    <3>1. p.pbk = TRUE /\ p.sni = TRUE /\ p.network \in RealityNetworks
      BY <2>1 DEF Validate
    <3>2. SecuritySettings(p) = [kind |-> "reality", serverName |-> p.sni, publicKey |-> p.pbk]
      BY <2>1 DEF SecuritySettings
    <3> QED
      BY <3>1, <3>2
  <2>2. CASE p.security = "tls"
    BY <2>2 DEF SecuritySettings
  <2>3. CASE p.security = "none"
    BY <2>3 DEF SecuritySettings
  <2> QED
    BY <2>1, <2>2, <2>3
<1>3. \A t \in TransportSettings(p) : t[1] = p.network
  BY DEF TransportSettings
<1>4. p.network = "kcp" => TransportSettings(p) = {<<"kcp", "plain">>}
  BY DEF TransportSettings
<1>5. p.network = "raw" => TransportSettings(p) \subseteq {<<"raw", "http">>}
  BY DEF TransportSettings
<1> QED
  BY <1>1, <1>2, <1>3, <1>4, <1>5 DEF XrayRuns

(***************************************************************************)
(* The inductive invariant: a profile is what ParseLink makes of the link. *)
(***************************************************************************)
Parsed ==
    /\ link \in Links
    /\ profile = NoProfile \/ (link.type \notin Refused /\ profile = ParseLink(link))

LEMMA ParsedAlways == ShareSpec => []Parsed
<1>1. ShareInit => Parsed
  BY DEF ShareInit, Parsed
<1>2. Parsed /\ [ShareNext]_shareVars => Parsed'
  BY DEF Parsed, ShareNext, Import, shareVars
<1> QED
  BY <1>1, <1>2, PTL DEF ShareSpec

LEMMA ParsedAgree == Parsed => AccountsAgree
<1> SUFFICES ASSUME Parsed, profile # NoProfile
             PROVE  /\ profile.unusable <=> ~Validate(profile)
                    /\ Validate(profile) =>
                         /\ OddDisguise(link) \/ XrayRuns(Outbound(profile))
                         /\ profile.security # "none" /\ (link.sni \/ link.host)
                              => Outbound(profile).security.serverName
  BY DEF AccountsAgree
<1>1. link \in Links /\ link.type \notin Refused /\ profile = ParseLink(link)
  BY DEF Parsed
<1>2. /\ profile.network = Network(link) /\ profile.security = Security(link)
      /\ profile.sni = SNI(link) /\ profile.pbk = (Security(link) = "reality" /\ link.pbk)
      /\ profile.headerType = HeaderType(link) /\ profile.unusable = WarnsUnusable(link)
  BY <1>1 DEF ParseLink
<1>3. Security(link) \in {"none", "tls", "reality"}
  BY <1>1 DEF Links, Security
<1>4. profile.unusable <=> ~Validate(profile)
  BY <1>1, <1>2, NotesMatchValidate
<1>5. profile.sni \in BOOLEAN /\ profile.pbk \in BOOLEAN
  BY <1>1, <1>2 DEF Links, SNI
<1>6. ~OddDisguise(link) => (profile.network = "raw" => profile.headerType \in {"empty", "http"})
  BY <1>1, <1>2 DEF HeaderType, OddDisguise, Network, Links
<1>7. Validate(profile) => OddDisguise(link) \/ XrayRuns(Outbound(profile))
  BY <1>2, <1>3, <1>5, <1>6, ValidOutboundRuns
<1>8. profile.security # "none" /\ (link.sni \/ link.host)
        => Outbound(profile).security.serverName
  <2> SUFFICES ASSUME profile.security # "none", link.sni \/ link.host
               PROVE  Outbound(profile).security.serverName
    OBVIOUS
  <2>1. profile.sni
    BY <1>2 DEF SNI
  <2>2. Outbound(profile).security = SecuritySettings(profile)
    BY DEF Outbound
  <2>3. SecuritySettings(profile).serverName = profile.sni
    BY <1>2, <1>3 DEF SecuritySettings
  <2> QED
    BY <2>1, <2>2, <2>3
<1> QED
  BY <1>4, <1>7, <1>8

(***************************************************************************)
(* For every link: the note of the import and the refusal of Validate      *)
(* agree, and what passes is run by xray, except a raw link with a         *)
(* disguise that the raw transport does not have.                          *)
(***************************************************************************)
THEOREM AccountsAlwaysAgree == ShareSpec => []AccountsAgree
  BY ParsedAlways, ParsedAgree, PTL
=============================================================================
