------------------------------- MODULE Profile -------------------------------
(***************************************************************************)
(* The connection profile: what the user can set, which backend it runs,   *)
(* and the command line and environment it becomes for the engine          *)
(* (model/Profile.kt, model/TransportBackend.kt).  Constant-level: the     *)
(* modules ConnectPlan and ProfilePath are state machines over it.         *)
(*                                                                         *)
(* A text setting is the sequence of its entries, one per line of the      *)
(* text field; <<>> is the blank field.  The entry Malformed stands for    *)
(* every entry the validating regular expressions drop, HttpProxy for an   *)
(* upstream proxy with the http:// scheme.                                 *)
(***************************************************************************)
EXTENDS Integers, Sequences, TLC

Malformed == "malformed"
HttpProxy == "http"
Blank == <<>>

Protocols == {"AUTO", "MASQUE", "WIREGUARD", "GOOL", "MIM"}
ScanModes == {"TURBO", "BALANCED", "THOROUGH", "STEALTH", "IRONCLAD"}
EndpointModes == {"AUTO", "MANUAL_PEER", "MANUAL_RANGE"}
TorBridges == {"AUTO", "ALWAYS", "OFF"}

\* The obfuscation profiles in the order of the enum: SmartAuto compares ordinals.
Noize == <<"OFF", "LIGHT", "FIREWALL", "BALANCED", "GFW", "AGGRESSIVE">>
ordinal(n) == CHOOSE i \in DOMAIN Noize : Noize[i] = n

-----------------------------------------------------------------------------
(* Backends. *)

Backends == {"AETHER", "AETHER_PSIPHON", "TOR", "AETHER_TOR", "TOR_PSIPHON", "TOR_AETHER"}

usesExternal(b) == b \in {"AETHER_PSIPHON", "TOR_PSIPHON"}

torMode(b) == CASE b = "AETHER_TOR"             -> "CHAIN"
                [] b \in {"TOR", "TOR_PSIPHON"} -> "ONLY"
                [] b = "TOR_AETHER"             -> "REVERSE"
                [] OTHER                        -> "none"

usesTor(b) == torMode(b) # "none"
usesWarp(b) == torMode(b) # "ONLY"
needsTorFront(b) == ~usesExternal(b) /\ torMode(b) \in {"CHAIN", "ONLY"}

SOCKS_PORT == 1819
TOR_SOCKS_PORT == 1820
TOR_FRONT_PORT == 1821
CHAIN_SOCKS_PORT == 1825

exposedSocksPort(b) == IF usesExternal(b) THEN CHAIN_SOCKS_PORT
                       ELSE IF needsTorFront(b) THEN TOR_FRONT_PORT
                       ELSE SOCKS_PORT

\* The engine's own Tor listener; 0 when Tor is off.
torSocksPort(b) == CASE torMode(b) = "none" -> 0
                     [] torMode(b) = "ONLY" -> SOCKS_PORT
                     [] OTHER               -> TOR_SOCKS_PORT

\* A stored backend name, the retired single-hop PSIPHON included; both callers
\* replace the null of an unknown name by the default.
StoredNames == Backends \cup {"PSIPHON", "unknown"}
fromStoredName(n) == CASE n = "PSIPHON" -> "AETHER_PSIPHON"
                       [] n \in Backends -> n
                       [] OTHER          -> "AETHER"

-----------------------------------------------------------------------------
(* The profile and its defaults. *)

TextFields == {"exitRegion", "manualPeer", "manualRange", "fragmentSize", "fragmentDelay",
               "tlsGroups", "dnsServers", "routeBlock", "routeDirect", "upstreamProxy", "team",
               "accessClientId", "accessEmail", "accessClientSecret", "accessToken",
               "torBridgeLines", "torCountry", "torCheck", "splitApps", "blockedApps"}

OnByDefault == {"quickReconnect", "killSwitch", "ipv6LeakProtection", "smartReconnect",
                "routeSniff", "autoReprovision", "fastEndpointOnly"}

OffByDefault == {"masqueHttp2", "lanShare", "fragment", "ech", "proxyMode", "strictKillSwitch",
                 "noDataCheck", "noProfileRetry", "gateway", "chainedStage"}

Numbers == [keepalive |-> 0, mtu |-> 1280, reconnectRetryLimit |-> 5, validateSecs |-> 0,
            reconnectSecs |-> 0, routeSniffMs |-> 0, torDirectSecs |-> 0]

Enums == [backend |-> "AETHER", protocol |-> "AUTO", scanMode |-> "BALANCED", ipVersion |-> "V4",
          noize |-> "OFF", endpointMode |-> "AUTO", splitMode |-> "OFF", teamAuth |-> "OFF",
          coreLogLevel |-> "WARN", torBridges |-> "AUTO"]

Fields == TextFields \cup OnByDefault \cup OffByDefault \cup DOMAIN Numbers \cup DOMAIN Enums

ConnectionProfile == [f \in Fields |-> CASE f \in TextFields     -> Blank
                                         [] f \in OnByDefault    -> TRUE
                                         [] f \in OffByDefault   -> FALSE
                                         [] f \in DOMAIN Numbers -> Numbers[f]
                                         [] f \in DOMAIN Enums   -> Enums[f]]

\* The types of the settings that decide what is launched.
WellFormed(p) ==
    /\ p = [f \in Fields |-> p[f]]
    /\ p.backend \in Backends /\ p.protocol \in Protocols /\ p.scanMode \in ScanModes
    /\ p.endpointMode \in EndpointModes /\ p.teamAuth \in {"OFF", "SERVICE_TOKEN", "EMAIL", "TOKEN"}
    /\ \E i \in DOMAIN Noize : p.noize = Noize[i]
    /\ \A f \in {"masqueHttp2", "fragment", "ech"} : p[f] \in BOOLEAN

hasTeam(p) == p.teamAuth # "OFF" /\ p.team # Blank
hasManualPeer(p) == p.endpointMode = "MANUAL_PEER" /\ p.manualPeer # Blank

\* Mutant: the reverse chain asks for the selected protocol.
effectiveProtocol_AsSelected(p) == p.protocol

effectiveProtocol(p) == IF torMode(p.backend) = "REVERSE" THEN "MASQUE" ELSE p.protocol

\* How long the service waits for the engine's SOCKS5 port, in seconds.
connectTimeout(p) ==
    IF hasManualPeer(p) THEN 45
    ELSE [TURBO |-> 60, BALANCED |-> 150, STEALTH |-> 240, THOROUGH |-> 300,
          IRONCLAD |-> 360][p.scanMode]

-----------------------------------------------------------------------------
(* What the engine is launched with.  A flag is a pair of its name and the  *)
(* sequence of its values; sanitized() is what the validators keep.         *)

sanitized(text) == SelectSeq(text, LAMBDA e : e # Malformed)
sanitizedUpstream(p) == sanitized(p.upstreamProxy)
coerceIn(n, lo, hi) == IF n < lo THEN lo ELSE IF n > hi THEN hi ELSE n

Flag(cond, name, val) == IF cond THEN {<<name, val>>} ELSE {}
TextFlag(name, text) == Flag(sanitized(text) # Blank, name, sanitized(text))
SecsFlag(name, n, lo, hi) == Flag(n > 0, name, <<coerceIn(n, lo, hi)>>)

TorArgs(p) ==
    LET mode == torMode(p.backend) IN
    Flag(mode = "CHAIN", "--tor", <<>>) \cup Flag(mode = "ONLY", "--tor-only", <<>>)
    \cup Flag(mode = "REVERSE", "--tor-reverse", <<>>)
    \cup Flag(mode \in {"CHAIN", "REVERSE"}, "--tor-bind", <<TOR_SOCKS_PORT>>)
    \cup IF mode \in {"ONLY", "REVERSE"}
         THEN Flag(p.torBridges = "ALWAYS", "--tor-bridges", <<>>)
              \cup Flag(p.torBridges = "OFF", "--no-tor-bridges", <<>>)
              \cup TextFlag("--tor-bridge", p.torBridgeLines)
         ELSE {}

ProtocolArgs(p) ==
    LET proto == effectiveProtocol(p) IN
    Flag(proto = "MASQUE", "--masque", <<>>) \cup Flag(proto = "WIREGUARD", "--wg", <<>>)
    \cup Flag(proto = "GOOL", "--gool", <<>>) \cup Flag(proto = "MIM", "--mim", <<>>)

WarpArgs(p) ==
    ProtocolArgs(p)
    \cup Flag(~hasManualPeer(p), "--scan", <<p.scanMode>>)
    \cup Flag(TRUE, "--ip", <<p.ipVersion>>)
    \cup Flag(p.quickReconnect, "--quick-reconnect", <<>>)
    \cup Flag(~p.quickReconnect, "--no-quick-reconnect", <<>>)
    \cup Flag(p.noize # "OFF", "--noize", <<p.noize>>)
    \cup Flag(hasManualPeer(p), "--peer", p.manualPeer)
    \cup Flag(p.fragment, "--fragment", <<>>) \cup Flag(p.ech, "--ech", <<"auto">>)
    \cup Flag(p.keepalive > 0, "--keepalive", <<p.keepalive>>)
    \cup Flag(hasTeam(p), "--team", p.team) \cup Flag(hasTeam(p) /\ p.gateway, "--gateway", <<>>)
    \cup TextFlag("--route-block", p.routeBlock) \cup TextFlag("--route-direct", p.routeDirect)
    \cup (IF p.fragment THEN TextFlag("--fragment-size", p.fragmentSize)
                              \cup TextFlag("--fragment-delay", p.fragmentDelay)
                         ELSE {})
    \cup TextFlag("--tls-groups", p.tlsGroups)
    \cup SecsFlag("--validate-secs", p.validateSecs, 1, 3600)
    \cup SecsFlag("--reconnect-secs", p.reconnectSecs, 1, 600)
    \cup Flag(p.noProfileRetry, "--no-profile-retry", <<>>)

toArgs(p) == TorArgs(p) \cup TextFlag("--dns", p.dnsServers)
             \cup IF usesWarp(p.backend) THEN WarpArgs(p) ELSE {}

TeamEnv(p) ==
    CASE ~hasTeam(p) -> {}
      [] hasTeam(p) /\ p.teamAuth = "SERVICE_TOKEN" ->
             Flag(p.accessClientId # Blank, "AETHER_ACCESS_CLIENT_ID", p.accessClientId)
             \cup Flag(p.accessClientSecret # Blank, "AETHER_ACCESS_CLIENT_SECRET", p.accessClientSecret)
      [] hasTeam(p) /\ p.teamAuth = "EMAIL" ->
             Flag(p.accessEmail # Blank, "AETHER_ACCESS_EMAIL", p.accessEmail)
      [] hasTeam(p) /\ p.teamAuth = "TOKEN" ->
             Flag(p.accessToken # Blank, "AETHER_ACCESS_TOKEN", p.accessToken)

TorEnv(p) ==
    IF ~usesTor(p.backend) THEN {}
    ELSE TextFlag("AETHER_TOR_CHECK", p.torCheck)
         \cup Flag(p.coreLogLevel = "DEBUG", "AETHER_TOR_LOG", <<"debug">>)
         \cup IF torMode(p.backend) # "CHAIN"
              THEN TextFlag("AETHER_TOR_COUNTRY", p.torCountry)
                   \cup SecsFlag("AETHER_TOR_DIRECT_SECS", p.torDirectSecs, 5, 600)
              ELSE {}

\* The cached-endpoint and scan budgets, in milliseconds.
BudgetEnv(p) ==
    LET rtt == IF p.chainedStage THEN 180 ELSE 320 IN
    Flag(p.fastEndpointOnly, "AETHER_QUICK_RECONNECT_MAX_RTT_MS", <<rtt>>)
    \cup Flag(p.fastEndpointOnly, "AETHER_QUICK_RECONNECT_MAX_HANDSHAKE_MS",
              <<IF p.chainedStage THEN 900 ELSE 1400>>)
    \cup Flag(p.fastEndpointOnly, "AETHER_SCAN_GOOD_RTT_MS", <<rtt>>)

\* AETHER_SCAN_CIDRS stands for the three names the range is put under, and the
\* MASQUE names of the data check and the reconnect delay for their WireGuard twins.
toEnv(p) ==
    LET h2 == \/ p.masqueHttp2
              \/ sanitizedUpstream(p) = <<HttpProxy>>
              \/ torMode(p.backend) = "REVERSE"
    IN  Flag(TRUE, "AETHER_MASQUE_HTTP2", <<IF h2 THEN 1 ELSE 0>>)
        \cup Flag(p.endpointMode = "MANUAL_RANGE" /\ p.manualRange # Blank,
                  "AETHER_SCAN_CIDRS", p.manualRange)
        \cup TeamEnv(p) \cup TorEnv(p) \cup BudgetEnv(p)
        \cup Flag(p.noDataCheck, "AETHER_MASQUE_NO_DATA_CHECK", <<1>>)
        \cup SecsFlag("AETHER_MASQUE_VALIDATE_SECS", p.validateSecs, 1, 3600)
        \cup SecsFlag("AETHER_MASQUE_RECONNECT_SECS", p.reconnectSecs, 1, 600)
        \cup Flag(p.noProfileRetry, "AETHER_WG_NO_PROFILE_RETRY", <<1>>)
        \cup TextFlag("AETHER_TLS_GROUPS", p.tlsGroups)
        \cup Flag(p.coreLogLevel # "WARN", "AETHER_LOG_LEVEL", <<p.coreLogLevel>>)
        \cup Flag(~p.routeSniff, "AETHER_ROUTE_SNIFF", <<0>>)
        \cup SecsFlag("AETHER_ROUTE_SNIFF_MS", IF p.routeSniff THEN p.routeSniffMs ELSE 0, 50, 5000)
        \cup Flag(~p.autoReprovision, "AETHER_REPROVISION", <<0>>)
        \cup TextFlag("AETHER_UPSTREAM", p.upstreamProxy)

Names(flags) == {f[1] : f \in flags}
ValueOf(flags, name) == (CHOOSE f \in flags : f[1] = name)[2]
=============================================================================
